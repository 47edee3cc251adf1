-------------------------- MODULE ZoomTreeProofs --------------------------
(***************************************************************************)
(* Proofs about the zooming tree, for every tree and every set of flows:   *)
(* the numbering of the nodes, the walk from the root to the node that     *)
(* counts a flow, the order of the cells, and then the types of the state  *)
(* and the meaning of the differences.                                     *)
(***************************************************************************)
EXTENDS ZoomTree, SumsProofs

-----------------------------------------------------------------------------
(* Induction over the natural numbers, for a set instead of a predicate.   *)

LEMMA Least ==
    ASSUME NEW T, T \subseteq Nat, T # {}
    PROVE  \E x \in T : \A y \in T : x <= y
<1> DEFINE R == OpToRel(<, Nat)
<1>1. IsWellFoundedOn(R, Nat)
  BY NatLessThanWellFounded
<1>2. \A x, y \in Nat : x < y => <<x, y>> \in R
  BY DEF OpToRel
<1> HIDE DEF R
<1>3. PICK x \in T : \A y \in T : ~ (<<y, x>> \in R)
  BY <1>1, WFMin
<1>4. \A y \in T : ~(y < x)
  BY <1>2, <1>3
<1> QED
  BY <1>4

LEMMA SetInduction ==
    ASSUME NEW T, 0 \in T, \A n \in Nat : n \in T => n + 1 \in T
    PROVE  Nat \subseteq T
<1> SUFFICES ASSUME Nat \ T # {} PROVE FALSE
  OBVIOUS
<1>1. PICK x \in Nat \ T : \A y \in Nat \ T : x <= y
  BY Least
<1>2. x - 1 \in Nat /\ x - 1 \in T
  BY <1>1
<1> QED
  BY <1>1, <1>2

(* The smallest element of a set of natural numbers. *)
LEMMA MinIsLeast ==
    ASSUME NEW T, T \subseteq Nat, T # {}
    PROVE  Min(T) \in T /\ \A y \in T : Min(T) <= y
BY Least DEF Min

(* A function on the natural numbers is determined by its first value and  *)
(* by how the next value follows from the one before, and there is one.    *)
Iterates(h, n, first, step) ==
    h[0] = first /\ \A i \in 0 .. n - 1 : h[i + 1] = step[i][h[i]]

LEMMA IteratesUnique ==
    ASSUME NEW n \in Nat, NEW m \in Nat, n <= m, NEW first, NEW step, NEW h, NEW k,
           Iterates(h, n, first, step), Iterates(k, m, first, step)
    PROVE  \A i \in 0 .. n : h[i] = k[i]
<1> DEFINE T == {i \in Nat : i <= n => h[i] = k[i]}
<1>1. 0 \in T
  BY DEF Iterates
<1>2. \A i \in Nat : i \in T => i + 1 \in T
  BY DEF Iterates
<1>3. Nat \subseteq T
  <2> HIDE DEF T
  <2> QED
    BY <1>1, <1>2, SetInduction
<1> QED
  BY <1>3

IsIteration(g, S, first, step) ==
    /\ g \in [Nat -> S]
    /\ g[0] = first /\ \A i \in Nat : g[i + 1] = step[i][g[i]]

LEMMA Recursion ==
    ASSUME NEW S, NEW first \in S, NEW step \in [Nat -> [S -> S]]
    PROVE  \E g : IsIteration(g, S, first, step)
<1> DEFINE H(n) == {h \in [0 .. n -> S] : Iterates(h, n, first, step)}
           T == {n \in Nat : H(n) # {}}
           pick == [n \in Nat |-> CHOOSE h : h \in H(n)]
           g == [n \in Nat |-> pick[n][n]]
<1>1. 0 \in T
  <2>1. [i \in 0 .. 0 |-> first] \in H(0)
    BY DEF Iterates
  <2> QED
    BY <2>1
<1>2. \A n \in Nat : n \in T => n + 1 \in T
  <2> SUFFICES ASSUME NEW n \in Nat, NEW h \in H(n) PROVE n + 1 \in T
    OBVIOUS
  <2> DEFINE k == [i \in 0 .. n + 1 |-> IF i = n + 1 THEN step[n][h[n]] ELSE h[i]]
  <2>1. k \in [0 .. n + 1 -> S]
    OBVIOUS
  <2>2. Iterates(k, n + 1, first, step)
    BY DEF Iterates
  <2> QED
    BY <2>1, <2>2
<1>3. Nat \subseteq T
  <2> HIDE DEF T
  <2> QED
    BY <1>1, <1>2, SetInduction
<1>4. ASSUME NEW n \in Nat
      PROVE  pick[n] \in [0 .. n -> S] /\ Iterates(pick[n], n, first, step)
  BY <1>3
<1> HIDE DEF pick
<1>5. g \in [Nat -> S] /\ g[0] = first
  BY <1>4 DEF Iterates
<1>6. ASSUME NEW i \in Nat PROVE g[i + 1] = step[i][g[i]]
  <2>1. pick[i + 1][i] = pick[i][i]
    <3>1. \A j \in 0 .. i : pick[i][j] = pick[i + 1][j]
      BY <1>4, IteratesUnique
    <3> QED
      BY <3>1
  <2>2. pick[i + 1][i + 1] = step[i][pick[i + 1][i]]
    BY <1>4 DEF Iterates
  <2> QED
    BY <2>1, <2>2
<1> QED
  BY <1>5, <1>6 DEF IsIteration

-----------------------------------------------------------------------------
(* The numbering of the nodes.                                             *)

LEMMA PowSteps ==
    ASSUME NEW b \in Nat
    PROVE  /\ Pow(b, 0) = 1
           /\ \A n \in Nat : Pow(b, n) \in Nat /\ Pow(b, n + 1) = b * Pow(b, n)
<1> DEFINE step == [i \in Nat |-> [x \in Nat |-> b * x]]
           Def(g) == [i \in Nat |-> IF i = 0 THEN 1 ELSE b * g[i - 1]]
           pow == CHOOSE g : g = Def(g)
<1>1. PICK g \in [Nat -> Nat] : g[0] = 1 /\ \A i \in Nat : g[i + 1] = step[i][g[i]]
  <2>1. step \in [Nat -> [Nat -> Nat]]
    OBVIOUS
  <2>2. \E g : IsIteration(g, Nat, 1, step)
    <3> HIDE DEF step
    <3> QED
      BY <2>1, Recursion
  <2> QED
    BY <2>2 DEF IsIteration
<1>2. \A i \in Nat : g[i] = Def(g)[i]
  <2> SUFFICES ASSUME NEW i \in Nat, i # 0 PROVE g[i] = b * g[i - 1]
    BY <1>1
  <2>1. i - 1 \in Nat /\ (i - 1) + 1 = i
    OBVIOUS
  <2> QED
    BY <1>1, <2>1
<1>3. g = Def(g)
  BY <1>2
<1>4. pow = Def(pow)
  BY <1>3
<1>5. \A n \in Nat : Pow(b, n) = pow[n]
  BY DEF Pow
<1> HIDE DEF pow
<1>6. pow[0] = 1 /\ \A n \in Nat : pow[n + 1] = b * pow[n]
  BY <1>4
<1> DEFINE T == {n \in Nat : pow[n] \in Nat}
<1>7. Nat \subseteq T
  <2>1. 0 \in T /\ \A n \in Nat : n \in T => n + 1 \in T
    BY <1>6
  <2> HIDE DEF T
  <2> QED
    BY <2>1, SetInduction
<1> QED
  BY <1>5, <1>6, <1>7
(* A factor that is at least 1 can be cancelled. *)
LEMMA TimesMonotone ==
    ASSUME NEW a \in Nat, NEW x \in Int, NEW y \in Int, x <= y
    PROVE  a * x <= a * y
OBVIOUS

LEMMA DivExact ==
    ASSUME NEW d \in Nat \ {0}, NEW q \in Int, NEW x, x = d * q
    PROVE  x \div d = q
OBVIOUS

LEMMA Attribute ==
    ASSUME attr \in Attributes
    PROVE  /\ Depth \in Nat \ {0, 1} /\ LayerSplit \in Nat \ {0}
           /\ Width \in Nat /\ Width >= LayerSplit
           /\ Pipeline \in BOOLEAN /\ Boost \in BOOLEAN
           /\ Reroute \in BOOLEAN /\ RelativeCost \in BOOLEAN
           /\ Pipeline /\ Boost => Depth >= 3
           /\ \A f \in Flows \cup {ControlFlow}, l \in Levels : Hash[f][l] \in Nat
           /\ \A f \in Flows, l \in Levels : CellBit[f][l] \in Nat
           /\ \A p \in [Levels -> Cells] : RerouteBits(p) \subseteq Nat
BY ZoomTreeAssumption
   DEF ZoomTreeAssumption, Depth, LayerSplit, Width, Pipeline, Boost, Reroute,
       RelativeCost, Levels, Cells

(* The first node of a level: that of the level above, times the split,    *)
(* plus one.  The closed forms of the code are those of this sequence.     *)
LEMMA FirstNodeSteps ==
    ASSUME attr \in Attributes
    PROVE  /\ FirstNode(0) = 0
           /\ \A l \in Nat :
                 /\ FirstNode(l) \in Nat
                 /\ FirstNode(l + 1) = LayerSplit * FirstNode(l) + 1
                 /\ Pow(LayerSplit, l) = (LayerSplit - 1) * FirstNode(l) + 1
<1> DEFINE b == LayerSplit
           step == [i \in Nat |-> [x \in Nat |-> b * x + 1]]
<1>0. b \in Nat \ {0}
  BY Attribute
<1>1. PICK s : IsIteration(s, Nat, 0, step)
  <2>1. step \in [Nat -> [Nat -> Nat]]
    BY <1>0
  <2> HIDE DEF step
  <2> QED
    BY <2>1, Recursion
<1>2. s \in [Nat -> Nat] /\ s[0] = 0 /\ \A l \in Nat : s[l + 1] = b * s[l] + 1
  BY <1>1 DEF IsIteration
<1> DEFINE T == {l \in Nat : Pow(b, l) = (b - 1) * s[l] + 1}
<1> HIDE DEF step, b
<1>3. Nat \subseteq T
  <2>1. 0 \in T
    BY <1>0, <1>2, PowSteps
  <2>2. ASSUME NEW l \in Nat, l \in T PROVE l + 1 \in T
    <3>1. Pow(b, l + 1) = b * ((b - 1) * s[l] + 1)
      BY <1>0, <2>2, PowSteps
    <3>2. s[l] \in Nat /\ s[l + 1] = b * s[l] + 1
      BY <1>2
    <3> QED
      BY <1>0, <3>1, <3>2
  <2> HIDE DEF T
  <2> QED
    BY <2>1, <2>2, SetInduction
<1>4. ASSUME NEW l \in Nat PROVE FirstNode(l) = s[l]
  <2>1. CASE b = 1
    <3> DEFINE U == {k \in Nat : s[k] = k}
    <3>1. 0 \in U /\ \A k \in Nat : k \in U => k + 1 \in U
      BY <1>2, <2>1
    <3>2. Nat \subseteq U
      <4> HIDE DEF U
      <4> QED
        BY <3>1, SetInduction
    <3> QED
      BY <2>1, <3>2 DEF FirstNode, b
  <2>2. CASE b # 1
    <3>1. b - 1 \in Nat \ {0} /\ s[l] \in Nat
      <4>1. b - 1 \in Nat \ {0}
        BY <1>0, <2>2
      <4> QED
        BY <1>2, <4>1
    <3>2. Pow(b, l) - 1 = (b - 1) * s[l]
      <4>1. Pow(b, l) = (b - 1) * s[l] + 1
        BY <1>3
      <4>2. (b - 1) * s[l] \in Int
        BY <3>1
      <4> QED
        BY <4>1, <4>2
    <3>3. (Pow(b, l) - 1) \div (b - 1) = s[l]
      <4> DEFINE d == b - 1
                 x == Pow(b, l) - 1
      <4>1. d \in Nat \ {0} /\ s[l] \in Int /\ x = d * s[l]
        BY <3>1, <3>2
      <4>2. x \div d = s[l]
        <5> HIDE DEF d, x
        <5> QED
          BY <4>1, DivExact
      <4> QED
        BY <4>2
    <3> QED
      BY <2>2, <3>3 DEF FirstNode, b
  <2> QED
    BY <2>1, <2>2
<1> QED
  BY <1>2, <1>3, <1>4 DEF b
LEMMA FirstNodeMonotone ==
    ASSUME attr \in Attributes, NEW k \in Nat, NEW l \in Nat
    PROVE  k <= l <=> FirstNode(k) <= FirstNode(l)
<1> DEFINE T == {d \in Nat : \A j \in Nat : FirstNode(j) + d <= FirstNode(j + d)}
<1>1. \A j \in Nat : FirstNode(j) \in Nat /\ FirstNode(j) < FirstNode(j + 1)
  <2> SUFFICES ASSUME NEW j \in Nat
               PROVE  FirstNode(j) \in Nat /\ FirstNode(j) < FirstNode(j + 1)
    OBVIOUS
  <2>1. FirstNode(j) \in Nat /\ FirstNode(j + 1) = LayerSplit * FirstNode(j) + 1
    BY FirstNodeSteps
  <2>2. FirstNode(j) <= LayerSplit * FirstNode(j)
    <3>1. LayerSplit \in Nat /\ 1 <= LayerSplit
      BY Attribute
    <3> QED
      BY <2>1, <3>1, TimesMonotone
  <2>3. LayerSplit * FirstNode(j) \in Int
    BY <2>1, Attribute
  <2> QED
    BY <2>1, <2>2, <2>3
<1>2. Nat \subseteq T
  <2>1. 0 \in T
    BY <1>1
  <2>2. ASSUME NEW d \in Nat, d \in T PROVE d + 1 \in T
    <3> SUFFICES ASSUME NEW j \in Nat
                 PROVE  FirstNode(j) + (d + 1) <= FirstNode(j + (d + 1))
      OBVIOUS
    <3>1. FirstNode(j) + d <= FirstNode(j + d)
      BY <2>2
    <3>2. FirstNode(j + d) < FirstNode((j + d) + 1) /\ (j + d) + 1 = j + (d + 1)
      BY <1>1
    <3>3. FirstNode(j) \in Nat /\ FirstNode(j + d) \in Nat /\ FirstNode(j + (d + 1)) \in Nat
      BY <1>1
    <3> QED
      BY <3>1, <3>2, <3>3
  <2> HIDE DEF T
  <2> QED
    BY <2>1, <2>2, SetInduction
<1>3. ASSUME NEW i \in Nat, NEW j \in Nat, i <= j
      PROVE  FirstNode(i) + (j - i) <= FirstNode(j)
  <2>1. j - i \in T /\ i + (j - i) = j
    BY <1>2, <1>3
  <2> QED
    BY <2>1
<1>4. FirstNode(k) \in Nat /\ FirstNode(l) \in Nat
  BY <1>1
<1>5. k <= l => FirstNode(k) <= FirstNode(l)
  BY <1>3, <1>4
<1>6. l < k => FirstNode(l) < FirstNode(k)
  BY <1>3, <1>4
<1> QED
  BY <1>4, <1>5, <1>6

(* The nodes of level l, and that KArryTreeDepth finds the level of a node. *)
LevelNodes(l) == FirstNode(l) .. FirstNode(l + 1) - 1

LEMMA LevelOfNode ==
    ASSUME attr \in Attributes, NEW l \in Levels, NEW n \in LevelNodes(l)
    PROVE  n \in Nodes /\ KArryTreeDepth(n) = l
<1>0. /\ l \in Nat /\ Depth \in Nat /\ l + 1 <= Depth /\ LayerSplit \in Nat \ {0}
      /\ FirstNode(l) \in Nat /\ FirstNode(l + 1) \in Nat /\ FirstNode(Depth) \in Nat
      /\ n \in Nat /\ FirstNode(l) <= n /\ n < FirstNode(l + 1)
  <2>1. l \in Nat /\ Depth \in Nat /\ l + 1 <= Depth /\ LayerSplit \in Nat \ {0}
    BY Attribute DEF Levels
  <2>2. \A k \in Nat : FirstNode(k) \in Nat
    BY FirstNodeSteps
  <2> QED
    BY <2>1, <2>2 DEF LevelNodes
<1>1. n \in Nodes
  <2>1. FirstNode(l + 1) <= FirstNode(Depth)
    BY <1>0, FirstNodeMonotone
  <2> QED
    BY <1>0, <2>1 DEF Nodes, NodesInTree
<1>2. CASE LayerSplit = 1
  <2>1. FirstNode(l) = l /\ FirstNode(l + 1) = l + 1 /\ KArryTreeDepth(n) = n
    BY <1>2 DEF KArryTreeDepth, FirstNode
  <2> QED
    BY <1>0, <1>1, <2>1
<1>3. CASE LayerSplit # 1
  <2> DEFINE v == n * (LayerSplit - 1) + 1
             P(k) == Pow(LayerSplit, k) <= v /\ v < Pow(LayerSplit, k + 1)
  <2>1. ASSUME NEW k \in Nat
        PROVE  P(k) <=> FirstNode(k) <= n /\ n < FirstNode(k + 1)
    <3>1. /\ FirstNode(k) \in Nat /\ FirstNode(k + 1) \in Nat
          /\ Pow(LayerSplit, k) = (LayerSplit - 1) * FirstNode(k) + 1
          /\ Pow(LayerSplit, k + 1) = (LayerSplit - 1) * FirstNode(k + 1) + 1
      BY FirstNodeSteps
    <3>2. ASSUME NEW a \in Nat \ {0}, NEW x \in Nat, NEW y \in Nat
          PROVE  a * x + 1 <= y * a + 1 <=> x <= y
      OBVIOUS
    <3>3. LayerSplit - 1 \in Nat \ {0}
      BY <1>0, <1>3
    <3>4. Pow(LayerSplit, k) <= v <=> FirstNode(k) <= n
      BY <1>0, <3>1, <3>2, <3>3
    <3>5. Pow(LayerSplit, k + 1) <= v <=> FirstNode(k + 1) <= n
      BY <1>0, <3>1, <3>2, <3>3
    <3>6. v \in Int /\ Pow(LayerSplit, k + 1) \in Int
      BY <1>0, PowSteps
    <3> QED
      BY <1>0, <3>1, <3>4, <3>5, <3>6
  <2>2. KArryTreeDepth(n) = CHOOSE k \in Levels : P(k)
    BY <1>3 DEF KArryTreeDepth
  <2> HIDE DEF P
  <2>3. P(l)
    BY <1>0, <2>1
  <2>4. ASSUME NEW k \in Levels, P(k) PROVE k = l
    <3>1. k \in Nat
      BY <1>0 DEF Levels
    <3>2. FirstNode(k) \in Nat /\ FirstNode(k + 1) \in Nat
      BY <3>1, FirstNodeSteps
    <3>3. FirstNode(k) <= n /\ n < FirstNode(k + 1)
      BY <2>1, <2>4, <3>1
    <3>4. ~(FirstNode(l + 1) <= FirstNode(k)) /\ ~(FirstNode(k + 1) <= FirstNode(l))
      BY <1>0, <3>2, <3>3
    <3>5. ~(l + 1 <= k) /\ ~(k + 1 <= l)
      BY <1>0, <3>1, <3>4, FirstNodeMonotone
    <3> QED
      BY <1>0, <3>1, <3>5
  <2>5. (CHOOSE k \in Levels : P(k)) = l
    BY <2>3, <2>4
  <2> QED
    BY <1>1, <2>2, <2>5
<1> QED
  BY <1>2, <1>3

LEMMA NodeHasLevel ==
    ASSUME attr \in Attributes, NEW n \in Nodes
    PROVE  KArryTreeDepth(n) \in Levels /\ n \in LevelNodes(KArryTreeDepth(n))
<1> DEFINE T == {l \in Nat : n < FirstNode(l + 1)}
<1>0. n \in Nat /\ Depth \in Nat \ {0} /\ n < FirstNode(Depth)
  <2>1. Depth \in Nat \ {0}
    BY Attribute
  <2>2. FirstNode(Depth) \in Nat
    BY <2>1, FirstNodeSteps
  <2> QED
    BY <2>1, <2>2 DEF Nodes, NodesInTree
<1>1. Depth - 1 \in T
  BY <1>0
<1>2. PICK l \in T : \A k \in T : l <= k
  BY <1>1, Least
<1>3. l \in Nat /\ l <= Depth - 1 /\ n < FirstNode(l + 1)
  BY <1>1, <1>2
<1>4. FirstNode(l) <= n
  <2>1. CASE l = 0
    BY <1>0, <2>1, FirstNodeSteps
  <2>2. CASE l # 0
    <3>1. l - 1 \in Nat /\ l - 1 \notin T /\ (l - 1) + 1 = l
      BY <1>2, <1>3, <2>2
    <3> QED
      BY <1>0, <1>3, <3>1, FirstNodeSteps
  <2> QED
    BY <2>1, <2>2
<1>5. l \in Levels /\ n \in LevelNodes(l)
  <2>1. FirstNode(l) \in Nat /\ FirstNode(l + 1) \in Nat
    BY <1>3, FirstNodeSteps
  <2> QED
    BY <1>0, <1>3, <1>4, <2>1 DEF Levels, LevelNodes
<1> QED
  BY <1>5, LevelOfNode

-----------------------------------------------------------------------------
(* The walk from the root to the node that counts a flow.                  *)

Hits(max, f, n, up, l) ==
    {i \in 1 .. LayerSplit : max[up][HistoryIndex(n, l)][i] = HashIndex(f, l)}
Below(max, f, n, up, l) ==
    IF up = NoNode \/ Hits(max, f, n, up, l) = {} THEN NoNode
    ELSE up * LayerSplit + Min(Hits(max, f, n, up, l))
IsWalk(node, max, f, n) ==
    /\ node \in [0 .. n -> Nat]
    /\ node[0] = 0
    /\ \A l \in 0 .. n - 1 : node[l + 1] = Below(max, f, n, node[l], l)

LEMMA NoNodeType ==
    ASSUME attr \in Attributes
    PROVE  NoNode \in Nat /\ NoNode = FirstNode(Depth)
<1>1. Depth \in Nat
  BY Attribute
<1> QED
  BY <1>1, FirstNodeSteps DEF NoNode, NodesInTree

LEMMA HitsMin ==
    ASSUME attr \in Attributes, NEW max, NEW f, NEW n, NEW up, NEW l,
           Hits(max, f, n, up, l) # {}
    PROVE  /\ Min(Hits(max, f, n, up, l)) \in Hits(max, f, n, up, l)
           /\ Min(Hits(max, f, n, up, l)) \in 1 .. LayerSplit
<1>1. Hits(max, f, n, up, l) \subseteq 1 .. LayerSplit /\ 1 .. LayerSplit \subseteq Nat
  BY Attribute DEF Hits
<1>2. Min(Hits(max, f, n, up, l)) \in Hits(max, f, n, up, l)
  BY <1>1, MinIsLeast
<1> QED
  BY <1>1, <1>2

LEMMA BelowType ==
    ASSUME attr \in Attributes, NEW max, NEW f, NEW n, NEW up \in Nat, NEW l
    PROVE  Below(max, f, n, up, l) \in Nat
<1>1. NoNode \in Nat /\ LayerSplit \in Nat
  BY NoNodeType, Attribute
<1>2. CASE up = NoNode \/ Hits(max, f, n, up, l) = {}
  BY <1>1, <1>2 DEF Below
<1>3. CASE ~(up = NoNode \/ Hits(max, f, n, up, l) = {})
  <2>1. Min(Hits(max, f, n, up, l)) \in Nat
    BY <1>1, <1>3, HitsMin
  <2>2. up * LayerSplit + Min(Hits(max, f, n, up, l)) \in Nat
    BY <1>1, <2>1
  <2> QED
    BY <1>3, <2>2 DEF Below
<1> QED
  BY <1>2, <1>3

LEMMA WalkExists ==
    ASSUME attr \in Attributes, NEW max, NEW f, NEW n \in Nat
    PROVE  \E node : IsWalk(node, max, f, n) /\ NodeOfLevel(max, f, n) = node[n]
<1> DEFINE step == [l \in Nat |-> [u \in Nat |-> Below(max, f, n, u, l)]]
           Def(g) == [l \in 0 .. n |-> IF l = 0 THEN 0
                                       ELSE Below(max, f, n, g[l - 1], l - 1)]
           node == CHOOSE g : g = Def(g)
<1>1. PICK g : IsIteration(g, Nat, 0, step)
  <2>1. step \in [Nat -> [Nat -> Nat]]
    BY BelowType
  <2> HIDE DEF step
  <2> QED
    BY <2>1, Recursion
<1>2. g \in [Nat -> Nat] /\ g[0] = 0 /\ \A i \in Nat : g[i + 1] = Below(max, f, n, g[i], i)
  BY <1>1 DEF IsIteration
<1> DEFINE h == [l \in 0 .. n |-> g[l]]
<1>3. h = Def(h)
  <2>1. ASSUME NEW l \in 0 .. n, l # 0 PROVE h[l] = Below(max, f, n, h[l - 1], l - 1)
    <3>1. l - 1 \in Nat /\ (l - 1) + 1 = l /\ l - 1 \in 0 .. n
      BY <2>1
    <3>2. g[l] = Below(max, f, n, g[l - 1], l - 1)
      BY <1>2, <3>1
    <3> QED
      BY <3>1, <3>2
  <2>2. h[0] = 0
    BY <1>2
  <2> QED
    BY <2>1, <2>2
<1>4. node = Def(node)
  <2> HIDE DEF h
  <2> QED
    BY <1>3
<1>5. NodeOfLevel(max, f, n) = node[n]
  BY DEF NodeOfLevel, Below, Hits
<1> HIDE DEF node, step
<1>6. node[0] = 0
  BY <1>4
<1>7. ASSUME NEW l \in 0 .. n - 1 PROVE node[l + 1] = Below(max, f, n, node[l], l)
  <2>1. l + 1 \in 0 .. n /\ l + 1 # 0 /\ (l + 1) - 1 = l
    OBVIOUS
  <2>2. Def(node)[l + 1] = Below(max, f, n, node[(l + 1) - 1], (l + 1) - 1)
    BY <2>1
  <2> HIDE DEF Def
  <2> QED
    BY <1>4, <2>1, <2>2
<1>8. node \in [0 .. n -> Nat]
  <2> DEFINE T == {l \in Nat : l <= n => node[l] \in Nat}
  <2>1. 0 \in T
    BY <1>6
  <2>2. ASSUME NEW l \in Nat, l \in T PROVE l + 1 \in T
    <3> SUFFICES ASSUME l + 1 <= n PROVE node[l + 1] \in Nat
      OBVIOUS
    <3>1. l \in 0 .. n - 1 /\ node[l] \in Nat
      BY <2>2
    <3> QED
      BY <1>7, <3>1, BelowType
  <2>3. Nat \subseteq T
    <3> HIDE DEF T
    <3> QED
      BY <2>1, <2>2, SetInduction
  <2>4. node = [l \in 0 .. n |-> Def(node)[l]]
    BY <1>4
  <2>5. DOMAIN node = 0 .. n
    <3> HIDE DEF Def
    <3> QED
      BY <2>4
  <2>6. node = [l \in 0 .. n |-> node[l]]
    BY <1>4, <2>5
  <2>7. \A l \in 0 .. n : node[l] \in Nat
    BY <2>3
  <2> HIDE DEF Def
  <2> QED
    BY <2>6, <2>7
<1>9. IsWalk(node, max, f, n)
  BY <1>6, <1>7, <1>8 DEF IsWalk
<1> QED
  BY <1>5, <1>9

(* The children of a node of a level are nodes of the next, and lead back. *)
LEMMA ChildNode ==
    ASSUME attr \in Attributes, NEW l \in Nat, NEW up \in LevelNodes(l),
           NEW i \in 1 .. LayerSplit
    PROVE  /\ up * LayerSplit + i \in LevelNodes(l + 1)
           /\ ((up * LayerSplit + i) - 1) \div LayerSplit = up
           /\ (up * LayerSplit + i) - LayerSplit * up = i
<1> DEFINE s == LayerSplit
           a == FirstNode(l)
           b == FirstNode(l + 1)
<1>1. s \in Nat \ {0} /\ i \in Nat /\ 1 <= i /\ i <= s
  BY Attribute
<1>2. /\ a \in Nat /\ b \in Nat /\ FirstNode((l + 1) + 1) \in Nat
      /\ b = s * a + 1 /\ FirstNode((l + 1) + 1) = s * b + 1
  BY FirstNodeSteps
<1>3. up \in Nat /\ a <= up /\ up <= b - 1
  BY <1>2 DEF LevelNodes
<1>4. s * a <= s * up /\ s * up <= s * (b - 1) /\ s * up = up * s
  BY <1>1, <1>2, <1>3, TimesMonotone
<1>5. s * a \in Int /\ s * up \in Int /\ s * (b - 1) = s * b - s /\ s * b \in Int
  BY <1>1, <1>2, <1>3
<1> DEFINE child == up * s + i
<1>6. child \in LevelNodes(l + 1)
  <2>2. b <= child /\ child <= s * b /\ child \in Int
    <3> HIDE DEF s, a, b
    <3> QED
      BY <1>1, <1>2, <1>4, <1>5
  <2>3. LevelNodes(l + 1) = b .. FirstNode((l + 1) + 1) - 1
    BY DEF LevelNodes
  <2> HIDE DEF s, b, child
  <2>4. FirstNode((l + 1) + 1) - 1 = s * b
    BY <1>2, <1>5
  <2> QED
    BY <1>2, <1>5, <2>2, <2>3, <2>4
<1>7. (child - 1) \div s = up
  <2> HIDE DEF s, a, b
  <2>1. child - 1 = s * up + (i - 1) /\ 0 <= i - 1 /\ i - 1 < s
    BY <1>1, <1>4, <1>5
  <2>2. ASSUME NEW d \in Nat \ {0}, NEW q \in Nat, NEW r \in Nat, r < d, NEW x, x = d * q + r
        PROVE  x \div d = q
    BY <2>2
  <2>3. i - 1 \in Nat
    BY <1>1
  <2> DEFINE x == child - 1
             r == i - 1
  <2> HIDE DEF child, x, r
  <2>4. x = s * up + r /\ r \in Nat /\ r < s
    BY <2>1, <2>3 DEF x, r
  <2>5. x \div s = up
    BY <1>1, <1>3, <2>2, <2>4
  <2> QED
    BY <2>5 DEF x
<1>8. child - s * up = i
  <2> HIDE DEF s
  <2> QED
    BY <1>1, <1>4, <1>5
<1> QED
  BY <1>6, <1>7, <1>8

LEMMA LevelNodesFacts ==
    ASSUME attr \in Attributes, NEW l \in Levels
    PROVE  LevelNodes(l) \subseteq Nodes /\ NoNode \notin LevelNodes(l) /\ NoNode \notin Nodes
<1>1. NoNode \notin Nodes
  BY NoNodeType DEF Nodes, NodesInTree
<1> QED
  BY <1>1, LevelOfNode

LEMMA WalkStep ==
    ASSUME attr \in Attributes, NEW n \in Levels, NEW max, NEW f, NEW node,
           IsWalk(node, max, f, n)
    PROVE  /\ \A l \in 0 .. n : node[l] \in LevelNodes(l) \cup {NoNode}
           /\ \A l \in 0 .. n - 1 : node[l + 1] # NoNode =>
                 /\ node[l] # NoNode
                 /\ \E i \in 1 .. LayerSplit :
                       /\ node[l + 1] = node[l] * LayerSplit + i
                       /\ max[node[l]][HistoryIndex(n, l)][i] = HashIndex(f, l)
<1>0. n \in Nat /\ n <= Depth - 1 /\ Depth \in Nat
  BY Attribute DEF Levels
<1>1. ASSUME NEW l \in 0 .. n - 1, node[l + 1] # NoNode
      PROVE  /\ node[l] # NoNode
             /\ \E i \in 1 .. LayerSplit :
                   /\ node[l + 1] = node[l] * LayerSplit + i
                   /\ max[node[l]][HistoryIndex(n, l)][i] = HashIndex(f, l)
  <2>1. node[l + 1] = Below(max, f, n, node[l], l)
    BY DEF IsWalk
  <2>2. node[l] # NoNode /\ Hits(max, f, n, node[l], l) # {}
    BY <1>1, <2>1 DEF Below
  <2> DEFINE i == Min(Hits(max, f, n, node[l], l))
  <2>3. i \in Hits(max, f, n, node[l], l)
    BY <2>2, HitsMin
  <2>4. node[l + 1] = node[l] * LayerSplit + i
    BY <2>1, <2>2 DEF Below
  <2> HIDE DEF i
  <2> QED
    BY <2>2, <2>3, <2>4 DEF Hits
<1> DEFINE T == {l \in Nat : l <= n => node[l] \in LevelNodes(l) \cup {NoNode}}
<1>2. 0 \in T
  <2>1. FirstNode(0) = 0 /\ FirstNode(1) = 1
    <3>1. FirstNode(0) = 0 /\ FirstNode(0 + 1) = LayerSplit * FirstNode(0) + 1
      BY FirstNodeSteps
    <3>2. LayerSplit \in Nat
      BY Attribute
    <3> QED
      BY <3>1, <3>2
  <2> QED
    BY <2>1 DEF IsWalk, LevelNodes
<1>3. ASSUME NEW l \in Nat, l \in T PROVE l + 1 \in T
  <2> SUFFICES ASSUME l + 1 <= n, node[l + 1] # NoNode
               PROVE  node[l + 1] \in LevelNodes(l + 1)
    OBVIOUS
  <2>1. l \in 0 .. n - 1
    BY <1>0
  <2>2. PICK i \in 1 .. LayerSplit : node[l + 1] = node[l] * LayerSplit + i
    BY <1>1, <2>1
  <2>3. node[l] \in LevelNodes(l)
    <3>1. node[l] # NoNode
      BY <1>1, <2>1
    <3>2. l <= n
      BY <1>0, <2>1
    <3> QED
      BY <1>3, <3>1, <3>2
  <2> QED
    BY <2>2, <2>3, ChildNode
<1>4. Nat \subseteq T
  <2> HIDE DEF T
  <2> QED
    BY <1>2, <1>3, SetInduction
<1> QED
  BY <1>0, <1>1, <1>4

LEMMA HashIndexType ==
    ASSUME attr \in Attributes, NEW f \in Flows \cup {ControlFlow}, NEW l \in Levels
    PROVE  HashIndex(f, l) \in Cells
<1>1. Hash[f][l] \in Nat /\ Width \in Nat \ {0}
  BY Attribute
<1> QED
  BY <1>1 DEF HashIndex, Cells

LEMMA NodeOfLevelType ==
    ASSUME attr \in Attributes, NEW max, NEW f, NEW n \in Levels
    PROVE  NodeOfLevel(max, f, n) \in LevelNodes(n) \cup {NoNode}
<1>1. n \in Nat /\ n \in 0 .. n
  BY Attribute DEF Levels
<1> QED
  BY <1>1, WalkExists, WalkStep

(* A flow is counted in at most one node of a level, in its cell of that   *)
(* level.                                                                  *)
LEMMA CellsOfFlow ==
    ASSUME attr \in Attributes, seq \in Levels, NEW max, NEW f \in Flows, NEW m, NEW c
    PROVE  <<m, c>> \in CellsOf(max, f) <=>
               /\ m \in Nodes
               /\ KArryTreeDepth(m) \in CountedLevels
               /\ c = HashIndex(f, KArryTreeDepth(m))
               /\ m = NodeOfLevel(max, f, KArryTreeDepth(m))
<1>0. CountedLevels \subseteq Levels
  BY DEF CountedLevels
<1>1. <<m, c>> \in CellsOf(max, f) <=>
          \E n \in CountedLevels : /\ m = NodeOfLevel(max, f, n) /\ m # NoNode
                                   /\ c = HashIndex(f, n)
  BY <1>0, HashIndexType DEF CellsOf
<1>2. ASSUME NEW n \in CountedLevels, m = NodeOfLevel(max, f, n), m # NoNode
      PROVE  m \in Nodes /\ KArryTreeDepth(m) = n
  BY <1>0, <1>2, NodeOfLevelType, LevelOfNode
<1>3. m \in Nodes => m # NoNode
  BY NoNodeType DEF Nodes, NodesInTree
<1> QED
  BY <1>1, <1>2, <1>3

-----------------------------------------------------------------------------
(* The sum of the values of some of the flows.                             *)

SumOn(S, v) == SumOf([f \in S |-> v[f]])

LEMMA SumOnType ==
    ASSUME NEW S \in SUBSET Flows, NEW v \in [Flows -> Nat]
    PROVE  IsFiniteSet(S) /\ [f \in S |-> v[f]] \in [S -> Nat] /\ SumOn(S, v) \in Nat
<1>1. IsFiniteSet(S)
  BY ZoomTreeAssumption, FS_Subset DEF ZoomTreeAssumption
<1>2. [f \in S |-> v[f]] \in [S -> Nat]
  OBVIOUS
<1> QED
  BY <1>1, <1>2, UnitsFinite DEF SumOn

OneMore(v, w, g) ==
    /\ v \in [Flows -> Nat] /\ w \in [Flows -> Nat]
    /\ g \in Flows /\ w = [v EXCEPT ![g] = v[g] + 1]

LEMMA SumOnAdd ==
    ASSUME NEW S \in SUBSET Flows, NEW v, NEW w, NEW g, OneMore(v, w, g)
    PROVE  SumOn(S, w) = IF g \in S THEN SumOn(S, v) + 1 ELSE SumOn(S, v)
<1> USE DEF OneMore
<1> DEFINE a == [f \in S |-> v[f]]
           b == [f \in S |-> w[f]]
<1>1. IsFiniteSet(S) /\ a \in [S -> Nat] /\ b \in [S -> Nat] /\ SumOf(a) \in Nat
  BY SumOnType DEF SumOn
<1>2. CASE g \in S
  <2>1. \A f \in S \ {g} : b[f] = a[f]
    OBVIOUS
  <2>2. b[g] = a[g] + 1
    BY <1>2
  <2>3. SumOf(b) = SumOf(a) + b[g] - a[g]
    <3> HIDE DEF a, b
    <3> QED
      BY <1>1, <1>2, <2>1, SumChange
  <2>4. a[g] \in Nat
    BY <1>2
  <2>5. SumOf(b) = SumOf(a) + 1
    <3> HIDE DEF a, b
    <3> QED
      BY <1>1, <2>2, <2>3, <2>4
  <2> QED
    BY <1>2, <2>5 DEF SumOn
<1>3. CASE g \notin S
  <2>1. a = b
    BY <1>3
  <2> QED
    BY <1>3, <2>1 DEF SumOn
<1> QED
  BY <1>2, <1>3

LEMMA SumOnBound ==
    ASSUME NEW S \in SUBSET Flows, NEW v \in [Flows -> Nat], NEW w \in [Flows -> Nat],
           \A f \in Flows : v[f] <= w[f]
    PROVE  SumOn(S, v) <= SumOf(w)
<1> DEFINE a == [f \in S |-> v[f]]
<1>1. Units(a) \subseteq Units(w)
  <2> SUFFICES ASSUME NEW u \in Units(a) PROVE u \in Units(w)
    OBVIOUS
  <2>1. PICK f \in S : \E j \in 1 .. a[f] : u = <<f, j>>
    BY UnitsMember
  <2>2. PICK j \in 1 .. a[f] : u = <<f, j>>
    BY <2>1
  <2>3. f \in Flows /\ f \in DOMAIN w /\ j \in 1 .. w[f]
    <3>1. v[f] \in Nat /\ w[f] \in Nat /\ v[f] <= w[f] /\ a[f] = v[f]
      OBVIOUS
    <3> QED
      BY <2>2, <3>1
  <2> QED
    BY <2>2, <2>3, UnitsMember
<1>2. IsFiniteSet(Flows)
  BY ZoomTreeAssumption DEF ZoomTreeAssumption
<1>3. IsFiniteSet(Units(w))
  BY <1>2, UnitsFinite
<1> QED
  BY <1>1, <1>3, FS_Subset DEF SumOn, SumOf

LEMMA SumOnZero ==
    ASSUME NEW S \in SUBSET Flows
    PROVE  SumOn(S, NoPackets) = 0
<1> DEFINE a == [f \in S |-> NoPackets[f]]
<1>1. a \in [S -> Nat] /\ \A f \in S : a[f] = 0
  BY DEF NoPackets
<1> QED
  BY <1>1, SumZero DEF SumOn

(* A sum that is not 0 has a term that is not 0. *)
LEMMA SumOnPositive ==
    ASSUME NEW S \in SUBSET Flows, NEW v \in [Flows -> Nat], SumOn(S, v) # 0
    PROVE  \E f \in S : v[f] > 0
<1> DEFINE a == [f \in S |-> v[f]]
<1>1. a \in [S -> Nat]
  OBVIOUS
<1>2. ~ \A f \in S : a[f] = 0
  BY <1>1, SumZero DEF SumOn
<1>3. PICK f \in S : v[f] # 0
  BY <1>2
<1> QED
  BY <1>3

LEMMA SumOnAtLeast ==
    ASSUME NEW S \in SUBSET Flows, NEW v \in [Flows -> Nat], NEW f \in S
    PROVE  v[f] <= SumOn(S, v)
<1> DEFINE a == [g \in S |-> v[g]]
<1>1. IsFiniteSet(S) /\ a \in [S -> Nat]
  BY SumOnType
<1>2. a[f] <= SumOf(a)
  <2> HIDE DEF a
  <2> QED
    BY <1>1, SumAtLeast
<1> QED
  BY <1>2 DEF SumOn

-----------------------------------------------------------------------------
(* Ranks in a strict total order of finitely many cells.                   *)

IsRanking(w, before, rank) ==
    /\ \A c \in 0 .. w - 1 :
          /\ <<c, c>> \notin before
          /\ rank[c] = 1 + Cardinality({d \in 0 .. w - 1 : <<d, c>> \in before})
    /\ \A c, d \in 0 .. w - 1 :
          c # d => <<c, d>> \in before \/ <<d, c>> \in before
    /\ \A c, d, e \in 0 .. w - 1 :
          <<c, d>> \in before /\ <<d, e>> \in before => <<c, e>> \in before

LEMMA RanksTaken ==
    ASSUME NEW w \in Nat, NEW before, NEW rank, IsRanking(w, before, rank)
    PROVE  /\ \A c \in 0 .. w - 1 : rank[c] \in 1 .. w
           /\ \A c, d \in 0 .. w - 1 : rank[c] = rank[d] => c = d
           /\ \A r \in 1 .. w : \E c \in 0 .. w - 1 : rank[c] = r
<1> USE DEF IsRanking
<1> DEFINE C == 0 .. w - 1
           Ahead(c) == {d \in C : <<d, c>> \in before}
<1>1. IsFiniteSet(C) /\ Cardinality(C) = w
  BY FS_Interval
<1>2. ASSUME NEW c \in C
      PROVE  /\ IsFiniteSet(Ahead(c)) /\ Cardinality(Ahead(c)) \in Nat
             /\ Cardinality(Ahead(c)) < w
  <2>1. Ahead(c) \subseteq C /\ Ahead(c) # C
    OBVIOUS
  <2> HIDE DEF C, Ahead
  <2>2. IsFiniteSet(Ahead(c)) /\ Cardinality(Ahead(c)) <= Cardinality(C)
    BY <1>1, <2>1, FS_Subset
  <2>3. Cardinality(Ahead(c)) # Cardinality(C)
    BY <1>1, <2>1, FS_Subset
  <2>4. Cardinality(Ahead(c)) \in Nat
    BY <2>2, FS_CardinalityType
  <2> QED
    BY <1>1, <2>2, <2>3, <2>4
<1>3. ASSUME NEW c \in C
      PROVE  rank[c] \in 1 .. w /\ rank[c] \in Nat /\ rank[c] = 1 + Cardinality(Ahead(c))
  <2>1. rank[c] = 1 + Cardinality(Ahead(c))
    OBVIOUS
  <2>2. Cardinality(Ahead(c)) \in Nat /\ Cardinality(Ahead(c)) < w
    BY <1>2
  <2> HIDE DEF Ahead
  <2> QED
    BY <2>1, <2>2
<1>4. ASSUME NEW c \in C, NEW d \in C, <<c, d>> \in before
      PROVE  rank[c] < rank[d]
  <2>1. Ahead(c) \subseteq Ahead(d)
    BY <1>4
  <2>2. c \in Ahead(d) /\ c \notin Ahead(c)
    BY <1>4
  <2> HIDE DEF C, Ahead
  <2>3. Cardinality(Ahead(c)) <= Cardinality(Ahead(d)) /\ Cardinality(Ahead(c)) # Cardinality(Ahead(d))
    BY <1>2, <2>1, <2>2, FS_Subset
  <2> QED
    BY <1>2, <1>3, <2>3
<1>5. \A c, d \in C : rank[c] = rank[d] => c = d
  <2> SUFFICES ASSUME NEW c \in C, NEW d \in C, rank[c] = rank[d], c # d PROVE FALSE
    OBVIOUS
  <2>1. rank[c] < rank[d] \/ rank[d] < rank[c]
    BY <1>4
  <2>2. rank[c] \in Nat /\ rank[d] \in Nat
    BY <1>3
  <2> QED
    BY <2>1, <2>2
<1>6. \A r \in 1 .. w : \E c \in C : rank[c] = r
  <2> DEFINE g == [c \in C |-> rank[c]]
             R == {rank[c] : c \in C}
  <2>1. /\ g \in [C -> R]
        /\ \A a, b \in C : g[a] = g[b] => a = b
        /\ \A t \in R : \E s \in C : g[s] = t
    BY <1>5
  <2>2. R \subseteq 1 .. w
    BY <1>3
  <2> HIDE DEF C, g, R
  <2>3. Cardinality(R) = Cardinality(C)
    BY ONLY <1>1, <2>1, SameSize
  <2>4. IsFiniteSet(1 .. w) /\ Cardinality(1 .. w) = w
    BY FS_Interval
  <2>5. R = 1 .. w
    BY <1>1, <2>2, <2>3, <2>4, FS_Subset
  <2> QED
    BY <2>5 DEF R
<1> QED
  BY <1>3, <1>5, <1>6

-----------------------------------------------------------------------------
(* The order of the cells of a node.                                       *)

Fraction == Nat \X (Nat \ {0})

LEMMA AboveOrder ==
    ASSUME NEW a \in Fraction, NEW b \in Fraction, NEW c \in Fraction
    PROVE  /\ Above(a, b) => ~Above(b, a)
           /\ ~Above(b, a) /\ ~Above(c, b) => ~Above(c, a)
<1>1. PICK a1 \in Nat, a2 \in Nat \ {0} : a[1] = a1 /\ a[2] = a2
  BY DEF Fraction
<1>2. PICK b1 \in Nat, b2 \in Nat \ {0} : b[1] = b1 /\ b[2] = b2
  BY DEF Fraction
<1>3. PICK c1 \in Nat, c2 \in Nat \ {0} : c[1] = c1 /\ c[2] = c2
  BY DEF Fraction
<1>4. Above(a, b) => ~Above(b, a)
  <2>1. a1 * b2 \in Int /\ b1 * a2 \in Int
    OBVIOUS
  <2> QED
    BY <1>1, <1>2, <2>1 DEF Above
<1>5. ASSUME ~Above(b, a), ~Above(c, b) PROVE ~Above(c, a)
  <2>1. b1 * a2 <= a1 * b2 /\ c1 * b2 <= b1 * c2
    BY <1>1, <1>2, <1>3, <1>5 DEF Above
  <2>2. a2 * (c1 * b2) <= a2 * (b1 * c2)
    BY <2>1, TimesMonotone
  <2>3. c2 * (b1 * a2) <= c2 * (a1 * b2)
    BY <2>1, TimesMonotone
  <2>4. a2 * (c1 * b2) = b2 * (c1 * a2)
    OBVIOUS
  <2>5. a2 * (b1 * c2) = c2 * (b1 * a2)
    OBVIOUS
  <2>6. c2 * (a1 * b2) = b2 * (a1 * c2)
    OBVIOUS
  <2>7. b2 * (c1 * a2) <= b2 * (a1 * c2)
    <3> DEFINE x == a2 * (c1 * b2)
               y == a2 * (b1 * c2)
               z == c2 * (a1 * b2)
    <3>1. x \in Int /\ y \in Int /\ z \in Int
      OBVIOUS
    <3>2. x <= y /\ y <= z
      BY <2>2, <2>3, <2>5
    <3>3. x <= z
      <4> HIDE DEF x, y, z
      <4> QED
        BY <3>1, <3>2
    <3> QED
      BY <2>4, <2>6, <3>3
  <2>8. ASSUME NEW p \in Int, NEW q \in Int, NEW m \in Nat \ {0}, m * p <= m * q
        PROVE  p <= q
    BY <2>8
  <2>9. c1 * a2 \in Int /\ a1 * c2 \in Int
    OBVIOUS
  <2>10. c1 * a2 <= a1 * c2
    BY <2>7, <2>8, <2>9
  <2> QED
    BY <1>1, <1>3, <2>9, <2>10 DEF Above
<1> QED
  BY <1>4, <1>5

LEMMA SortedOrder ==
    ASSUME attr \in Attributes, NEW n, \A c \in Cells : Cost(n, c) \in Fraction,
           NEW c \in Cells, NEW d \in Cells, NEW e \in Cells
    PROVE  /\ ~SortedBefore(n, c, c)
           /\ c # d => SortedBefore(n, c, d) \/ SortedBefore(n, d, c)
           /\ SortedBefore(n, c, d) /\ SortedBefore(n, d, e) => SortedBefore(n, c, e)
<1>0. c \in Int /\ d \in Int /\ e \in Int
  BY Attribute DEF Cells
<1>1. \A x, y \in Fraction : Above(x, y) => ~Above(y, x)
  BY AboveOrder
<1>2. \A x, y, z \in Fraction : ~Above(y, x) /\ ~Above(z, y) => ~Above(z, x)
  BY AboveOrder
<1>3. ~SortedBefore(n, c, c)
  BY <1>0, <1>1 DEF SortedBefore
<1>4. c # d => SortedBefore(n, c, d) \/ SortedBefore(n, d, c)
  BY <1>0, <1>1 DEF SortedBefore
<1>5. SortedBefore(n, c, d) /\ SortedBefore(n, d, e) => SortedBefore(n, c, e)
  <2> DEFINE x == Cost(n, c)
             y == Cost(n, d)
             z == Cost(n, e)
  <2>1. x \in Fraction /\ y \in Fraction /\ z \in Fraction
    OBVIOUS
  <2> HIDE DEF x, y, z
  <2>2. /\ Above(x, y) => ~Above(y, x)
        /\ Above(y, z) => ~Above(z, y)
        /\ ~Above(y, x) /\ ~Above(z, y) => ~Above(z, x)
        /\ ~Above(z, y) /\ ~Above(x, z) => ~Above(x, y)
        /\ ~Above(x, z) /\ ~Above(y, x) => ~Above(y, z)
    BY <1>1, <1>2, <2>1
  <2> QED
    BY <1>0, <2>2 DEF SortedBefore, x, y, z
<1> QED
  BY <1>3, <1>4, <1>5

LEMMA TakenOrder ==
    ASSUME attr \in Attributes, NEW n, \A c \in Cells : Cost(n, c) \in Fraction,
           NEW c \in Cells, NEW d \in Cells, NEW e \in Cells
    PROVE  /\ ~TakenBefore(n, c, c)
           /\ c # d => TakenBefore(n, c, d) \/ TakenBefore(n, d, c)
           /\ TakenBefore(n, c, d) /\ TakenBefore(n, d, e) => TakenBefore(n, c, e)
BY SortedOrder DEF TakenBefore

LEMMA RankBijective ==
    ASSUME attr \in Attributes, NEW n, \A c \in Cells : Cost(n, c) \in Fraction
    PROVE  /\ \A c \in Cells : Rank(n, c) \in 1 .. Width
           /\ \A c, d \in Cells : Rank(n, c) = Rank(n, d) => c = d
           /\ \A r \in 1 .. Width : \E c \in Cells : Rank(n, c) = r
<1> DEFINE w == Width
           C == 0 .. w - 1
           before == {p \in Cells \X Cells : TakenBefore(n, p[1], p[2])}
           rank == [c \in C |-> Rank(n, c)]
<1>0. w \in Nat /\ Cells = C
  BY Attribute DEF Cells
<1>1. \A c, d \in C : <<c, d>> \in before <=> TakenBefore(n, c, d)
  BY <1>0
<1>2. ASSUME NEW c \in C
      PROVE  /\ <<c, c>> \notin before
             /\ rank[c] = 1 + Cardinality({d \in C : <<d, c>> \in before})
  <2>1. <<c, c>> \notin before
    BY <1>0, <1>1, TakenOrder
  <2>2. {d \in C : <<d, c>> \in before} = {d \in Cells : TakenBefore(n, d, c)}
    BY <1>0, <1>1
  <2>3. rank[c] = 1 + Cardinality({d \in Cells : TakenBefore(n, d, c)})
    BY DEF Rank
  <2> HIDE DEF before, rank
  <2> QED
    BY <2>1, <2>2, <2>3
<1>3. \A c, d \in C : c # d => <<c, d>> \in before \/ <<d, c>> \in before
  BY <1>0, <1>1, TakenOrder
<1>4. \A c, d, e \in C : <<c, d>> \in before /\ <<d, e>> \in before => <<c, e>> \in before
  BY <1>0, <1>1, TakenOrder
<1>5. /\ \A c \in C : rank[c] \in 1 .. w
      /\ \A c, d \in C : rank[c] = rank[d] => c = d
      /\ \A r \in 1 .. w : \E c \in C : rank[c] = r
  <2> HIDE DEF before, rank, w
  <2>1. IsRanking(w, before, rank)
    BY <1>2, <1>3, <1>4 DEF IsRanking
  <2> QED
    BY <1>0, <2>1, RanksTaken
<1> QED
  BY <1>0, <1>5

LEMMA NewMaximaType ==
    ASSUME attr \in Attributes, NEW n, \A c \in Cells : Cost(n, c) \in Fraction
    PROVE  /\ NewMaxima(n) \in [1 .. LayerSplit -> Cells]
           /\ \A i \in 1 .. LayerSplit, c \in Cells : Rank(n, c) = i => NewMaxima(n)[i] = c
<1>1. \A i \in 1 .. LayerSplit : i \in 1 .. Width
  BY Attribute
<1>2. \A r \in 1 .. Width : \E c \in Cells : Rank(n, c) = r
  BY RankBijective
<1>3. \A c, d \in Cells : Rank(n, c) = Rank(n, d) => c = d
  BY RankBijective
<1>4. NewMaxima(n) = [i \in 1 .. LayerSplit |-> CHOOSE c \in Cells : Rank(n, c) = i]
  BY <1>1 DEF NewMaxima, SortedCells
<1>5. \A r \in 1 .. Width : /\ (CHOOSE c \in Cells : Rank(n, c) = r) \in Cells
                            /\ Rank(n, CHOOSE c \in Cells : Rank(n, c) = r) = r
  BY <1>2
<1> QED
  BY <1>1, <1>3, <1>4, <1>5

-----------------------------------------------------------------------------
(* The way up from a node of the last layer.                               *)

LEMMA DivBounds ==
    ASSUME NEW d \in Nat \ {0}, NEW x \in Int
    PROVE  x \div d \in Int /\ d * (x \div d) <= x /\ x < d * (x \div d) + d
OBVIOUS

LEMMA ParentNode ==
    ASSUME attr \in Attributes, NEW l \in Nat, NEW m \in LevelNodes(l + 1)
    PROVE  /\ (m - 1) \div LayerSplit \in LevelNodes(l)
           /\ m - LayerSplit * ((m - 1) \div LayerSplit) \in 1 .. LayerSplit
<1> DEFINE s == LayerSplit
           a == FirstNode(l)
           b == FirstNode(l + 1)
           p == (m - 1) \div s
<1>1. s \in Nat \ {0}
  BY Attribute
<1>2. /\ a \in Nat /\ b \in Nat /\ FirstNode((l + 1) + 1) \in Nat
      /\ b = s * a + 1 /\ FirstNode((l + 1) + 1) = s * b + 1
  BY FirstNodeSteps
<1>3. m \in Int /\ b <= m /\ m <= FirstNode((l + 1) + 1) - 1
  BY <1>2 DEF LevelNodes
<1>4. p \in Int /\ s * p <= m - 1 /\ m - 1 < s * p + s
  BY <1>1, <1>3, DivBounds
<1>5. LevelNodes(l) = a .. b - 1
  BY DEF LevelNodes
<1> HIDE DEF s, a, b, p
<1>6. s * a \in Int /\ s * b \in Int /\ s * p \in Int
  BY <1>1, <1>2, <1>4
<1>7. a <= p
  <2> SUFFICES ASSUME p + 1 <= a PROVE FALSE
    BY <1>2, <1>4
  <2>1. s * (p + 1) <= s * a
    BY <1>1, <1>2, <1>4, TimesMonotone
  <2>2. s * (p + 1) = s * p + s
    BY <1>1, <1>4
  <2> QED
    BY <1>1, <1>2, <1>3, <1>4, <1>6, <2>1, <2>2
<1>8. p <= b - 1
  <2> SUFFICES ASSUME b <= p PROVE FALSE
    BY <1>2, <1>4
  <2>1. s * b <= s * p
    BY <1>1, <1>2, <1>4, TimesMonotone
  <2> QED
    BY <1>1, <1>2, <1>3, <1>4, <1>6, <2>1
<1>9. m - s * p \in 1 .. s
  BY <1>1, <1>3, <1>4, <1>6
<1> QED
  BY <1>2, <1>4, <1>5, <1>7, <1>8, <1>9 DEF s, p

IsClimb(up, n) ==
    /\ up \in [Levels -> Int]
    /\ up[0] = n
    /\ \A t \in 0 .. Depth - 2 : up[t + 1] = (up[t] - 1) \div LayerSplit

PathAlong(up, max, c) ==
    [l \in Levels |->
        IF l = Depth - 1 THEN c
        ELSE max[up[(Depth - 2 - l) + 1]][IF Pipeline THEN (Depth - 2 - l) + 1 ELSE 0]
                [up[Depth - 2 - l] - LayerSplit * up[(Depth - 2 - l) + 1]]]

LEMMA ClimbExists ==
    ASSUME attr \in Attributes, NEW n \in Int, NEW max, NEW c
    PROVE  \E up : IsClimb(up, n) /\ PathUp(max, n, c) = PathAlong(up, max, c)
<1> DEFINE step == [t \in Nat |-> [x \in Int |-> (x - 1) \div LayerSplit]]
           Def(g) == [t \in Levels |-> IF t = 0 THEN n ELSE (g[t - 1] - 1) \div LayerSplit]
           up == CHOOSE g : g = Def(g)
<1>0. LayerSplit \in Nat \ {0} /\ Depth \in Nat \ {0, 1}
  BY Attribute
<1>1. PICK g : IsIteration(g, Int, n, step)
  <2>1. step \in [Nat -> [Int -> Int]]
    BY <1>0, DivBounds
  <2> HIDE DEF step
  <2> QED
    BY <2>1, Recursion
<1>2. /\ g \in [Nat -> Int] /\ g[0] = n
      /\ \A t \in Nat : g[t + 1] = (g[t] - 1) \div LayerSplit
  BY <1>1 DEF IsIteration
<1> HIDE DEF step
<1> DEFINE h == [t \in Levels |-> g[t]]
<1>3. h = Def(h)
  <2>1. ASSUME NEW t \in Levels, t # 0 PROVE h[t] = (h[t - 1] - 1) \div LayerSplit
    <3>1. t - 1 \in Nat /\ (t - 1) + 1 = t /\ t - 1 \in Levels
      BY <1>0, <2>1 DEF Levels
    <3>2. g[t] = (g[t - 1] - 1) \div LayerSplit
      BY <1>2, <3>1
    <3> QED
      BY <3>1, <3>2
  <2>2. h[0] = n
    BY <1>0, <1>2 DEF Levels
  <2> QED
    BY <2>1, <2>2
<1>4. up = Def(up)
  <2> HIDE DEF h
  <2> QED
    BY <1>3
<1>5. PathUp(max, n, c) = PathAlong(up, max, c)
  BY DEF PathUp, PathAlong
<1> HIDE DEF up
<1>6. up[0] = n
  BY <1>0, <1>4 DEF Levels
<1>7. ASSUME NEW t \in 0 .. Depth - 2 PROVE up[t + 1] = (up[t] - 1) \div LayerSplit
  <2>1. t + 1 \in Levels /\ t + 1 # 0 /\ (t + 1) - 1 = t
    BY <1>0 DEF Levels
  <2>2. Def(up)[t + 1] = (up[(t + 1) - 1] - 1) \div LayerSplit
    BY <2>1
  <2> HIDE DEF Def
  <2> QED
    BY <1>4, <2>1, <2>2
<1>8. up \in [Levels -> Int]
  <2> DEFINE T == {t \in Nat : t \in Levels => up[t] \in Int}
  <2>1. 0 \in T
    BY <1>6
  <2>2. ASSUME NEW t \in Nat, t \in T PROVE t + 1 \in T
    <3> SUFFICES ASSUME t + 1 \in Levels PROVE up[t + 1] \in Int
      OBVIOUS
    <3>1. t \in 0 .. Depth - 2 /\ t \in Levels
      BY <1>0 DEF Levels
    <3>2. up[t] - 1 \in Int
      BY <2>2, <3>1
    <3> QED
      BY <1>0, <1>7, <3>1, <3>2, DivBounds
  <2>3. Nat \subseteq T
    <3> HIDE DEF T
    <3> QED
      BY <2>1, <2>2, SetInduction
  <2>4. \A t \in Levels : up[t] \in Int
    <3>1. Levels \subseteq Nat
      BY <1>0 DEF Levels
    <3> QED
      BY <2>3, <3>1
  <2>5. DOMAIN up = Levels /\ up = [t \in Levels |-> up[t]]
    BY <1>4
  <2> HIDE DEF Def
  <2> QED
    BY <2>4, <2>5
<1> QED
  BY <1>5, <1>6, <1>7, <1>8 DEF IsClimb

LEMMA ClimbLevels ==
    ASSUME attr \in Attributes, NEW n \in LevelNodes(Depth - 1), NEW up, IsClimb(up, n)
    PROVE  /\ \A t \in Levels : up[t] \in LevelNodes(Depth - 1 - t) /\ up[t] \in Nodes
           /\ \A t \in 0 .. Depth - 2 : up[t] - LayerSplit * up[t + 1] \in 1 .. LayerSplit
<1>0. Depth \in Nat \ {0, 1}
  BY Attribute
<1> DEFINE T == {t \in Nat : t \in Levels => up[t] \in LevelNodes(Depth - 1 - t)}
<1>1. 0 \in T
  BY <1>0 DEF IsClimb
<1>2. ASSUME NEW t \in Nat, t \in T, t + 1 \in Levels
      PROVE  up[t + 1] \in LevelNodes(Depth - 1 - (t + 1))
  <2>1. t \in Levels /\ t \in 0 .. Depth - 2
    BY <1>0, <1>2 DEF Levels
  <2> DEFINE l == Depth - 1 - (t + 1)
  <2>2. l \in Nat /\ Depth - 1 - t = l + 1
    BY <1>0, <2>1
  <2>3. up[t] \in LevelNodes(l + 1)
    BY <1>2, <2>1, <2>2
  <2> HIDE DEF l
  <2>4. (up[t] - 1) \div LayerSplit \in LevelNodes(l)
    BY <2>2, <2>3, ParentNode
  <2> QED
    BY <2>1, <2>4 DEF IsClimb, l
<1>3. Nat \subseteq T
  <2>1. \A t \in Nat : t \in T => t + 1 \in T
    BY <1>2
  <2> HIDE DEF T
  <2> QED
    BY <1>1, <2>1, SetInduction
<1>4. ASSUME NEW t \in Levels PROVE up[t] \in LevelNodes(Depth - 1 - t) /\ up[t] \in Nodes
  <2>1. t \in Nat /\ Depth - 1 - t \in Levels
    BY <1>0 DEF Levels
  <2>2. up[t] \in LevelNodes(Depth - 1 - t)
    BY <1>3, <2>1
  <2> QED
    BY <2>1, <2>2, LevelNodesFacts
<1>5. ASSUME NEW t \in 0 .. Depth - 2
      PROVE  up[t] - LayerSplit * up[t + 1] \in 1 .. LayerSplit
  <2> DEFINE l == Depth - 1 - (t + 1)
  <2>1. t \in Levels /\ l \in Nat /\ Depth - 1 - t = l + 1
    BY <1>0 DEF Levels
  <2>2. up[t] \in LevelNodes(l + 1)
    BY <1>4, <2>1
  <2> HIDE DEF l
  <2>3. up[t + 1] = (up[t] - 1) \div LayerSplit
    BY DEF IsClimb
  <2> QED
    BY <2>1, <2>2, <2>3, ParentNode
<1> QED
  BY <1>4, <1>5

LEMMA LastLayer ==
    ASSUME attr \in Attributes, NEW n \in LastLayerIndex .. NodesInTree - 1
    PROVE  n \in LevelNodes(Depth - 1) /\ n \in Nodes /\ n \in Int
           /\ KArryTreeDepth(n) = Depth - 1
<1>0. Depth \in Nat \ {0, 1} /\ Depth - 1 \in Levels /\ (Depth - 1) + 1 = Depth
  BY Attribute DEF Levels
<1>1. n \in LevelNodes(Depth - 1)
  BY <1>0 DEF LevelNodes, LastLayerIndex, NodesInTree
<1>2. n \in Int
  OBVIOUS
<1> QED
  BY <1>0, <1>1, <1>2, LevelOfNode

LEMMA PathUpType ==
    ASSUME attr \in Attributes, NEW n \in LastLayerIndex .. NodesInTree - 1, NEW c \in Cells,
           NEW max \in [Nodes -> [Levels -> [1 .. LayerSplit -> Cells]]]
    PROVE  PathUp(max, n, c) \in [Levels -> Cells]
<1>0. Depth \in Nat \ {0, 1}
  BY Attribute
<1>1. n \in LevelNodes(Depth - 1) /\ n \in Int
  BY LastLayer
<1>2. PICK up : IsClimb(up, n) /\ PathUp(max, n, c) = PathAlong(up, max, c)
  BY <1>1, ClimbExists
<1>3. ASSUME NEW l \in Levels, l # Depth - 1
      PROVE  max[up[(Depth - 2 - l) + 1]][IF Pipeline THEN (Depth - 2 - l) + 1 ELSE 0]
                [up[Depth - 2 - l] - LayerSplit * up[(Depth - 2 - l) + 1]] \in Cells
  <2> DEFINE t == Depth - 2 - l
  <2>1. t \in 0 .. Depth - 2 /\ t + 1 \in Levels /\ 0 \in Levels
    BY <1>0, <1>3 DEF Levels
  <2> HIDE DEF t
  <2>2. up[t + 1] \in Nodes /\ up[t] - LayerSplit * up[t + 1] \in 1 .. LayerSplit
    BY <1>1, <1>2, <2>1, ClimbLevels
  <2> DEFINE k == IF Pipeline THEN t + 1 ELSE 0
             i == up[t] - LayerSplit * up[t + 1]
  <2>3. k \in Levels /\ i \in 1 .. LayerSplit
    BY <2>1, <2>2
  <2> HIDE DEF k, i
  <2>4. max[up[t + 1]][k][i] \in Cells
    <3>1. \A m \in Nodes : max[m] \in [Levels -> [1 .. LayerSplit -> Cells]]
      OBVIOUS
    <3>2. \A m \in Nodes : \A j \in Levels : max[m][j] \in [1 .. LayerSplit -> Cells]
      BY <3>1
    <3>3. max[up[t + 1]][k] \in [1 .. LayerSplit -> Cells]
      BY <2>2, <2>3, <3>2, Zenon
    <3> QED
      BY ONLY <2>3, <3>3
  <2> QED
    BY <2>4 DEF t, k, i
<1> QED
  BY <1>2, <1>3 DEF PathAlong

-----------------------------------------------------------------------------
(* The inductive invariant: when both ends have the same maxima, and what  *)
(* the cells hold in a session and before it.  Without pipeline a session  *)
(* counts in one level, and the cells of the levels above keep what their  *)
(* own sessions counted.                                                   *)

Session == {"START_ACK", "COUNTING", "WAIT_COUNTER_RECEIVE"}

FlowsOf(n, c) == {f \in Flows : <<n, c>> \in CellsOf(sendMax, f)}

SameMaxima ==
    /\ phase \in Session => recvMax = sendMax
    /\ phase = "IDLE" => sendMax = [n \in Nodes |-> Updated(recvMax[n], sendMax[n][0])]

NothingSent == phase = "START_ACK" => sent = NoPackets /\ lost = NoPackets

CellCounts(n, c) ==
    /\ recvCnt[n][c] <= sendCnt[n][c]
    /\ KArryTreeDepth(n) \in CountedLevels =>
          /\ sendCnt[n][c] = SumOn(FlowsOf(n, c), sent)
          /\ recvCnt[n][c] + SumOn(FlowsOf(n, c), lost) = sendCnt[n][c]
    /\ ~Pipeline /\ KArryTreeDepth(n) > seq => sendCnt[n][c] = 0

Metered == phase \in Session => \A n \in Nodes, c \in Cells : CellCounts(n, c)

Emptied ==
    phase = "IDLE" => \A n \in Nodes, c \in Cells :
        /\ Pipeline \/ KArryTreeDepth(n) >= seq => sendCnt[n][c] = 0
        /\ ~Pipeline /\ seq # 0 => recvCnt[n][c] <= sendCnt[n][c]

ZInv == TypeOK /\ SameMaxima /\ NothingSent /\ Metered /\ Emptied

LEMMA SameTree ==
    ASSUME attr' = attr
    PROVE  /\ Depth' = Depth /\ LayerSplit' = LayerSplit /\ Width' = Width
           /\ Pipeline' = Pipeline /\ Reroute' = Reroute
           /\ Levels' = Levels /\ Cells' = Cells /\ Nodes' = Nodes
           /\ NodesInTree' = NodesInTree /\ NoNode' = NoNode
           /\ LastLayerIndex' = LastLayerIndex
           /\ \A n : KArryTreeDepth(n)' = KArryTreeDepth(n)
BY DEF Depth, LayerSplit, Width, Pipeline, Reroute, Levels, Cells, Nodes, NodesInTree,
       NoNode, LastLayerIndex, FirstNode, KArryTreeDepth

LEMMA SameFlows ==
    ASSUME UNCHANGED <<attr, seq, sendMax>>, NEW n, NEW c
    PROVE  FlowsOf(n, c)' = FlowsOf(n, c) /\ CountedLevels' = CountedLevels
BY DEF FlowsOf, CellsOf, NodeOfLevel, HistoryIndex, HashIndex, CountedLevels, Depth,
       LayerSplit, Width, Pipeline, Levels, Cells, NodesInTree, NoNode, FirstNode

LEMMA SumBelowMod ==
    ASSUME NEW S \in SUBSET Flows, NEW v \in [Flows -> Nat],
           \A f \in Flows : v[f] <= MaxPackets[f]
    PROVE  SumOn(S, v) \in Nat /\ SumOn(S, v) < CounterMod /\ CounterMod \in Nat
<1>1. /\ MaxPackets \in [Flows -> Nat] /\ CounterMod \in Nat
      /\ SumOf(MaxPackets) < CounterMod /\ IsFiniteSet(Flows)
  BY ZoomTreeAssumption DEF ZoomTreeAssumption
<1>2. SumOn(S, v) <= SumOf(MaxPackets)
  BY <1>1, SumOnBound
<1>3. SumOf(MaxPackets) \in Nat
  BY <1>1, UnitsFinite
<1>4. SumOn(S, v) \in Nat
  BY SumOnType
<1> QED
  BY <1>1, <1>2, <1>3, <1>4

LEMMA CounterModPositive == CounterMod \in Nat \ {0}
<1>1. NoPackets \in [Flows -> Nat] /\ \A f \in Flows : NoPackets[f] <= MaxPackets[f]
  BY ZoomTreeAssumption DEF ZoomTreeAssumption, NoPackets
<1>2. SumOn({}, NoPackets) \in Nat /\ SumOn({}, NoPackets) < CounterMod /\ CounterMod \in Nat
  BY <1>1, SumBelowMod
<1> QED
  BY <1>2

LEMMA CellTypes ==
    ASSUME TypeOK, NEW n \in Nodes, NEW c \in Cells
    PROVE  /\ sendCnt[n][c] \in Nat /\ sendCnt[n][c] < CounterMod
           /\ recvCnt[n][c] \in Nat /\ recvCnt[n][c] < CounterMod
<1>1. /\ sendCnt \in [Nodes -> [Cells -> 0 .. CounterMod - 1]]
      /\ recvCnt \in [Nodes -> [Cells -> 0 .. CounterMod - 1]]
  BY DEF TypeOK
<1>2. sendCnt[n][c] \in 0 .. CounterMod - 1 /\ recvCnt[n][c] \in 0 .. CounterMod - 1
  BY <1>1
<1> QED
  BY <1>2, CounterModPositive

(* A difference is the number of packets that the receiver has not seen,   *)
(* and costs are fractions.                                                *)
LEMMA DifferenceExact ==
    ASSUME TypeOK, NEW n \in Nodes, NEW c \in Cells, recvCnt[n][c] <= sendCnt[n][c]
    PROVE  /\ Difference(n, c) = sendCnt[n][c] - recvCnt[n][c]
           /\ Difference(n, c) \in Nat
           /\ Cost(n, c) \in Fraction
<1> DEFINE s == sendCnt[n][c]
           r == recvCnt[n][c]
<1>1. s \in Nat /\ s < CounterMod /\ r \in Nat /\ r <= s /\ CounterMod \in Nat \ {0}
  BY CellTypes, CounterModPositive
<1>2. Difference(n, c) = (s - r) % CounterMod
  BY DEF Difference
<1> HIDE DEF s, r
<1>3. (s - r) % CounterMod = s - r
  BY <1>1
<1>4. Difference(n, c) = s - r /\ Difference(n, c) \in Nat
  BY <1>1, <1>2, <1>3
<1>5. Cost(n, c) \in Fraction
  <2>1. CASE RelativeCost /\ Difference(n, c) # 0
    <3>1. s \in Nat \ {0}
      BY <1>1, <1>4, <2>1
    <3>2. Cost(n, c) = <<Difference(n, c), s>>
      BY <2>1 DEF Cost, s
    <3> QED
      BY <1>4, <3>1, <3>2 DEF Fraction
  <2>2. CASE ~(RelativeCost /\ Difference(n, c) # 0)
    <3>1. Cost(n, c) = <<Difference(n, c), 1>>
      BY <2>2 DEF Cost
    <3> QED
      BY <1>4, <3>1 DEF Fraction
  <2> QED
    BY <2>1, <2>2
<1> QED
  BY <1>4, <1>5 DEF s, r

LEMMA InitZ ==
    ASSUME Init
    PROVE  ZInv
<1>0. /\ attr \in Attributes /\ Depth \in Nat \ {0, 1} /\ LayerSplit \in Nat \ {0}
      /\ Width \in Nat \ {0} /\ 0 \in Levels /\ 0 \in Cells
  <2>1. attr \in Attributes
    BY DEF Init
  <2> QED
    BY <2>1, Attribute DEF Levels, Cells
<1>1. TypeOK
  <2>1. NoMaxima \in [Nodes -> [Levels -> [1 .. LayerSplit -> Cells]]]
    BY <1>0 DEF NoMaxima
  <2>2. 0 \in 0 .. CounterMod - 1
    BY CounterModPositive
  <2>3. NoCounts \in [Nodes -> [Cells -> 0 .. CounterMod - 1]]
    BY <2>2 DEF NoCounts
  <2>4. NoBits \in [Nodes -> [Cells -> SUBSET Nat]]
    BY DEF NoBits
  <2>5. /\ NoPackets \in [Flows -> Nat] /\ NoPackets \in [Flows -> 0 .. Depth]
        /\ \A f \in Flows : NoPackets[f] <= NoPackets[f] /\ NoPackets[f] <= MaxPackets[f]
    BY <1>0, ZoomTreeAssumption DEF NoPackets, ZoomTreeAssumption
  <2> QED
    BY <1>0, <2>1, <2>3, <2>4, <2>5 DEF Init, TypeOK
<1>2. SameMaxima
  <2>1. ASSUME NEW n \in Nodes PROVE sendMax[n] = Updated(recvMax[n], sendMax[n][0])
    <3>1. sendMax[n] = [k \in Levels |-> [i \in 1 .. LayerSplit |-> 0]] /\ recvMax[n] = sendMax[n]
      BY DEF Init, NoMaxima
    <3>2. \A k \in Levels : k # 0 => k - 1 \in Levels
      BY <1>0 DEF Levels
    <3>3. Shifted(sendMax[n], sendMax[n][0]) = sendMax[n]
      BY <1>0, <3>1, <3>2 DEF Shifted
    <3>4. Overwritten(sendMax[n], sendMax[n][0]) = sendMax[n]
      BY <1>0, <3>1 DEF Overwritten
    <3> QED
      BY <3>1, <3>3, <3>4 DEF Updated
  <2>2. sendMax = [n \in Nodes |-> sendMax[n]]
    BY DEF Init, NoMaxima
  <2>3. sendMax = [n \in Nodes |-> Updated(recvMax[n], sendMax[n][0])]
    BY <2>1, <2>2
  <2>4. phase \notin Session
    BY DEF Init, Session
  <2> QED
    BY <2>3, <2>4 DEF SameMaxima
<1>3. NothingSent /\ Metered
  BY DEF Init, NothingSent, Metered, Session
<1>4. Emptied
  <2>1. \A n \in Nodes, c \in Cells : sendCnt[n][c] = 0
    BY DEF Init, NoCounts
  <2>2. seq = 0
    BY DEF Init
  <2> QED
    BY <2>1, <2>2 DEF Emptied
<1> QED
  BY <1>1, <1>2, <1>3, <1>4 DEF ZInv

LEMMA CountsKept ==
    ASSUME UNCHANGED <<attr, seq, sendMax, sendCnt, recvCnt, sent, lost>>,
           NEW n, NEW c, CellCounts(n, c)
    PROVE  CellCounts(n, c)'
<1>1. /\ KArryTreeDepth(n)' = KArryTreeDepth(n) /\ Pipeline' = Pipeline
      /\ FlowsOf(n, c)' = FlowsOf(n, c) /\ CountedLevels' = CountedLevels
  BY SameTree, SameFlows
<1> QED
  BY <1>1 DEF CellCounts

LEMMA StartZ ==
    ASSUME ZInv, Start
    PROVE  ZInv'
<1>0. /\ phase = "IDLE" /\ phase' = "START_ACK" /\ sent' = NoPackets /\ lost' = NoPackets
      /\ UNCHANGED <<attr, seq, sendMax, sendCnt, bits, reroute, streak>>
      /\ detected' = {} /\ collided' = {}
      /\ recvMax' = [n \in Nodes |-> Updated(recvMax[n], sendMax[n][0])]
      /\ recvCnt' = IF Pipeline \/ seq = 0 THEN NoCounts ELSE recvCnt
  BY DEF Start, InitReceiverStep
<1>1. TypeOK /\ SameMaxima /\ Emptied /\ attr \in Attributes /\ seq \in Levels
  BY DEF ZInv, TypeOK
<1>3. recvMax' = sendMax'
  BY <1>0, <1>1 DEF SameMaxima
<1>4. TypeOK'
  <2>1. NoCounts \in [Nodes -> [Cells -> 0 .. CounterMod - 1]]
    <3>1. 0 \in 0 .. CounterMod - 1
      BY CounterModPositive
    <3> QED
      BY <3>1 DEF NoCounts
  <2>2. recvCnt' \in [Nodes -> [Cells -> 0 .. CounterMod - 1]]
    BY <1>0, <1>1, <2>1 DEF TypeOK
  <2>3. /\ NoPackets \in [Flows -> Nat]
        /\ \A f \in Flows : NoPackets[f] <= NoPackets[f] /\ NoPackets[f] <= MaxPackets[f]
    BY ZoomTreeAssumption DEF NoPackets, ZoomTreeAssumption
  <2> QED
    BY <1>0, <1>1, <1>3, <2>2, <2>3, SameTree DEF TypeOK
<1>5. SameMaxima' /\ NothingSent' /\ Emptied'
  BY <1>0, <1>3 DEF SameMaxima, NothingSent, Emptied, Session
<1>6. Metered'
  <2> SUFFICES ASSUME NEW n \in Nodes, NEW c \in Cells PROVE CellCounts(n, c)'
    BY <1>0, SameTree DEF Metered
  <2>1. /\ KArryTreeDepth(n)' = KArryTreeDepth(n) /\ Pipeline' = Pipeline
        /\ FlowsOf(n, c)' = FlowsOf(n, c) /\ CountedLevels' = CountedLevels
    BY <1>0, SameTree, SameFlows
  <2>2. sendCnt[n][c] \in Nat /\ recvCnt[n][c] \in Nat
    BY <1>1, CellTypes
  <2>3. KArryTreeDepth(n) \in Int /\ seq \in Int
    BY <1>1, NodeHasLevel, Attribute DEF Levels
  <2>4. /\ Pipeline \/ KArryTreeDepth(n) >= seq => sendCnt[n][c] = 0
        /\ ~Pipeline /\ seq # 0 => recvCnt[n][c] <= sendCnt[n][c]
    BY <1>0, <1>1 DEF Emptied
  <2>5. recvCnt'[n][c] = IF Pipeline \/ seq = 0 THEN 0 ELSE recvCnt[n][c]
    BY <1>0 DEF NoCounts
  <2>6. recvCnt'[n][c] <= sendCnt'[n][c] /\ recvCnt'[n][c] \in Nat
    BY <1>0, <2>2, <2>4, <2>5
  <2>7. KArryTreeDepth(n) \in CountedLevels => Pipeline \/ KArryTreeDepth(n) >= seq
    BY <2>3 DEF CountedLevels
  <2>8. FlowsOf(n, c) \in SUBSET Flows
    BY DEF FlowsOf
  <2>9. SumOn(FlowsOf(n, c), NoPackets) = 0
    BY <2>8, SumOnZero
  <2>10. ASSUME KArryTreeDepth(n) \in CountedLevels
         PROVE  sendCnt'[n][c] = 0 /\ recvCnt'[n][c] = 0
    BY <1>0, <2>2, <2>4, <2>6, <2>7, <2>10
  <2>11. ~Pipeline /\ KArryTreeDepth(n) > seq => sendCnt'[n][c] = 0
    BY <1>0, <2>3, <2>4
  <2> QED
    BY <1>0, <2>1, <2>6, <2>9, <2>10, <2>11 DEF CellCounts
<1> QED
  BY <1>4, <1>5, <1>6 DEF ZInv

LEMMA RepeatStartZ ==
    ASSUME ZInv, RepeatStart
    PROVE  ZInv'
<1>0. /\ phase = "START_ACK" /\ phase \in Session
      /\ UNCHANGED <<attr, phase, seq, sendMax, sendCnt, bits, verdictVars, historyVars>>
      /\ recvMax' = recvMax
      /\ recvCnt' = IF Pipeline \/ seq = 0 THEN NoCounts ELSE recvCnt
  BY DEF RepeatStart, InitReceiverStep, Session
<1>1. TypeOK /\ SameMaxima /\ NothingSent /\ Metered /\ attr \in Attributes /\ seq \in Levels
  BY DEF ZInv, TypeOK
<1>2. recvCnt' = recvCnt
  <2> SUFFICES ASSUME Pipeline \/ seq = 0 PROVE recvCnt = NoCounts
    BY <1>0
  <2>1. ASSUME NEW n \in Nodes, NEW c \in Cells PROVE recvCnt[n][c] = 0
    <3>1. CellCounts(n, c)
      BY <1>0, <1>1 DEF Metered
    <3>2. sent = NoPackets
      BY <1>0, <1>1 DEF NothingSent
    <3>3. KArryTreeDepth(n) \in Levels /\ KArryTreeDepth(n) \in Nat
      BY <1>1, NodeHasLevel, Attribute DEF Levels
    <3>4. KArryTreeDepth(n) \in CountedLevels \/ (~Pipeline /\ KArryTreeDepth(n) > seq)
      BY <3>3 DEF CountedLevels
    <3>5. SumOn(FlowsOf(n, c), NoPackets) = 0
      <4>1. FlowsOf(n, c) \in SUBSET Flows
        BY DEF FlowsOf
      <4> QED
        BY <4>1, SumOnZero
    <3>6. sendCnt[n][c] = 0
      BY <3>1, <3>2, <3>4, <3>5 DEF CellCounts
    <3>7. recvCnt[n][c] \in Nat /\ recvCnt[n][c] <= sendCnt[n][c]
      BY <1>1, <3>1, CellTypes DEF CellCounts
    <3> QED
      BY <3>6, <3>7
  <2>2. recvCnt \in [Nodes -> [Cells -> 0 .. CounterMod - 1]]
    BY <1>1 DEF TypeOK
  <2>3. \A n \in Nodes : recvCnt[n] = [c \in Cells |-> 0]
    <3> SUFFICES ASSUME NEW n \in Nodes PROVE recvCnt[n] = [c \in Cells |-> 0]
      OBVIOUS
    <3>1. recvCnt[n] \in [Cells -> 0 .. CounterMod - 1]
      BY <2>2
    <3> QED
      BY <2>1, <3>1
  <2> QED
    BY <2>2, <2>3 DEF NoCounts
<1>3. UNCHANGED vars
  BY <1>0, <1>2 DEF vars, nodeVars, verdictVars, historyVars
<1>4. TypeOK'
  BY <1>1, <1>3, SameTree DEF TypeOK, vars, nodeVars, verdictVars, historyVars
<1>5. SameMaxima' /\ NothingSent'
  BY <1>0, <1>1, <1>3 DEF SameMaxima, NothingSent, vars, nodeVars, historyVars
<1>6. Metered'
  <2>1. \A n \in Nodes, c \in Cells : CellCounts(n, c)'
    BY <1>0, <1>1, <1>3, CountsKept DEF Metered, vars, nodeVars, historyVars
  <2> QED
    BY <1>0, <2>1, SameTree DEF Metered
<1>7. Emptied'
  BY <1>0 DEF Emptied
<1> QED
  BY <1>4, <1>5, <1>6, <1>7 DEF ZInv

LEMMA QuietZ ==
    ASSUME ZInv, AckStart \/ Stop
    PROVE  ZInv'
<1>0. /\ phase \in Session /\ phase' \in {"COUNTING", "WAIT_COUNTER_RECEIVE"}
      /\ UNCHANGED <<attr, seq, nodeVars, verdictVars, historyVars>>
  BY DEF AckStart, Stop, Session
<1>1. TypeOK /\ SameMaxima /\ Metered
  BY DEF ZInv
<1>2. TypeOK'
  BY <1>0, <1>1, SameTree DEF TypeOK, nodeVars, verdictVars, historyVars
<1>3. SameMaxima' /\ NothingSent' /\ Emptied'
  BY <1>0, <1>1 DEF SameMaxima, NothingSent, Emptied, nodeVars, Session
<1>4. Metered'
  <2>1. \A n \in Nodes, c \in Cells : CellCounts(n, c)'
    BY <1>0, <1>1, CountsKept DEF Metered, nodeVars, historyVars
  <2> QED
    BY <1>0, <2>1, SameTree DEF Metered
<1> QED
  BY <1>2, <1>3, <1>4 DEF ZInv

LEMMA CountCells ==
    ASSUME ZInv, NEW f \in Flows, NEW arrives \in BOOLEAN, Count(f, arrives),
           NEW n \in Nodes, NEW c \in Cells
    PROVE  /\ sendCnt'[n][c] = IF f \in FlowsOf(n, c) THEN sendCnt[n][c] + 1 ELSE sendCnt[n][c]
           /\ recvCnt'[n][c] = IF f \in FlowsOf(n, c) /\ arrives
                               THEN recvCnt[n][c] + 1 ELSE recvCnt[n][c]
           /\ f \in FlowsOf(n, c) => KArryTreeDepth(n) \in CountedLevels
           /\ f \in FlowsOf(n, c) => sendCnt[n][c] + 1 < CounterMod
           /\ SumOn(FlowsOf(n, c), sent') =
                 IF f \in FlowsOf(n, c) THEN SumOn(FlowsOf(n, c), sent) + 1
                 ELSE SumOn(FlowsOf(n, c), sent)
           /\ SumOn(FlowsOf(n, c), lost') =
                 IF f \in FlowsOf(n, c) /\ ~arrives THEN SumOn(FlowsOf(n, c), lost) + 1
                 ELSE SumOn(FlowsOf(n, c), lost)
<1> DEFINE F == FlowsOf(n, c)
<1>0. /\ phase = "COUNTING" /\ phase \in Session /\ sent[f] < MaxPackets[f]
      /\ sendCnt' = PacketCounting(sendCnt, sendMax, f)
      /\ recvCnt' = IF arrives THEN PacketCounting(recvCnt, recvMax, f) ELSE recvCnt
      /\ sent' = [sent EXCEPT ![f] = sent[f] + 1]
      /\ lost' = IF arrives THEN lost ELSE [lost EXCEPT ![f] = lost[f] + 1]
  BY DEF Count, Session
<1>1. TypeOK /\ SameMaxima /\ Metered /\ attr \in Attributes /\ seq \in Levels
  BY DEF ZInv, TypeOK
<1>2. /\ recvMax = sendMax /\ CellCounts(n, c)
      /\ sent \in [Flows -> Nat] /\ lost \in [Flows -> Nat] /\ F \in SUBSET Flows
      /\ \A g \in Flows : sent[g] <= MaxPackets[g]
      /\ MaxPackets \in [Flows -> Nat]
  BY <1>0, <1>1, ZoomTreeAssumption
     DEF SameMaxima, Metered, TypeOK, FlowsOf, ZoomTreeAssumption
<1>3. f \in F <=> <<n, c>> \in CellsOf(sendMax, f)
  BY DEF FlowsOf
<1>4. f \in F => KArryTreeDepth(n) \in CountedLevels
  BY <1>1, <1>3, CellsOfFlow
<1>5. sent' \in [Flows -> Nat] /\ \A g \in Flows : sent'[g] <= MaxPackets[g]
  BY <1>0, <1>2
<1>6. SumOn(F, sent') = IF f \in F THEN SumOn(F, sent) + 1 ELSE SumOn(F, sent)
  <2>1. OneMore(sent, sent', f)
    BY <1>0, <1>2, <1>5 DEF OneMore
  <2> HIDE DEF F
  <2> QED
    BY <1>2, <2>1, SumOnAdd
<1>7. SumOn(F, lost') = IF f \in F /\ ~arrives THEN SumOn(F, lost) + 1 ELSE SumOn(F, lost)
  <2> HIDE DEF F
  <2>1. CASE arrives
    BY <1>0, <2>1
  <2>2. CASE ~arrives
    <3>1. OneMore(lost, lost', f)
      BY <1>0, <1>2, <2>2 DEF OneMore
    <3>2. SumOn(F, lost') = IF f \in F THEN SumOn(F, lost) + 1 ELSE SumOn(F, lost)
      BY <1>2, <3>1, SumOnAdd
    <3> QED
      BY <2>2, <3>2
  <2> QED
    BY <2>1, <2>2
<1>8. SumOn(F, sent') < CounterMod /\ CounterMod \in Nat
  <2> HIDE DEF F
  <2> QED
    BY <1>2, <1>5, SumBelowMod
<1>9. f \in F => sendCnt[n][c] + 1 < CounterMod
  BY <1>2, <1>4, <1>6, <1>8 DEF CellCounts
<1>10. /\ sendCnt[n][c] \in Nat /\ recvCnt[n][c] \in Nat /\ recvCnt[n][c] <= sendCnt[n][c]
  BY <1>1, <1>2, CellTypes DEF CellCounts
<1>11. ASSUME f \in F
       PROVE  /\ (sendCnt[n][c] + 1) % CounterMod = sendCnt[n][c] + 1
              /\ (recvCnt[n][c] + 1) % CounterMod = recvCnt[n][c] + 1
  <2> DEFINE s == sendCnt[n][c]
             r == recvCnt[n][c]
  <2>1. s \in Nat /\ r \in Nat /\ r <= s /\ s + 1 < CounterMod /\ CounterMod \in Nat
    BY <1>8, <1>9, <1>10, <1>11
  <2> HIDE DEF s, r
  <2>2. (s + 1) % CounterMod = s + 1 /\ (r + 1) % CounterMod = r + 1
    BY <2>1
  <2> QED
    BY <2>2 DEF s, r
<1>12. sendCnt'[n][c] = IF f \in F THEN sendCnt[n][c] + 1 ELSE sendCnt[n][c]
  <2>1. sendCnt'[n][c] = IF <<n, c>> \in CellsOf(sendMax, f)
                         THEN (sendCnt[n][c] + 1) % CounterMod ELSE sendCnt[n][c]
    BY <1>0 DEF PacketCounting
  <2> QED
    BY <1>3, <1>11, <2>1
<1>13. recvCnt'[n][c] = IF f \in F /\ arrives THEN recvCnt[n][c] + 1 ELSE recvCnt[n][c]
  <2>1. arrives => recvCnt'[n][c] = IF <<n, c>> \in CellsOf(sendMax, f)
                                    THEN (recvCnt[n][c] + 1) % CounterMod ELSE recvCnt[n][c]
    BY <1>0, <1>2 DEF PacketCounting
  <2>2. ~arrives => recvCnt'[n][c] = recvCnt[n][c]
    BY <1>0
  <2> QED
    BY <1>3, <1>11, <2>1, <2>2
<1> QED
  BY <1>4, <1>6, <1>7, <1>9, <1>12, <1>13

LEMMA CountZ ==
    ASSUME ZInv, NEW f \in Flows, NEW arrives \in BOOLEAN, Count(f, arrives)
    PROVE  ZInv'
<1>0. /\ phase = "COUNTING" /\ phase \in Session /\ sent[f] < MaxPackets[f]
      /\ UNCHANGED <<attr, phase, seq, sendMax, recvMax, verdictVars, streak>>
      /\ sendCnt' = PacketCounting(sendCnt, sendMax, f)
      /\ recvCnt' = IF arrives THEN PacketCounting(recvCnt, recvMax, f) ELSE recvCnt
      /\ sent' = [sent EXCEPT ![f] = sent[f] + 1]
      /\ lost' = IF arrives THEN lost ELSE [lost EXCEPT ![f] = lost[f] + 1]
      /\ bits' = SetCellBits(f)
  BY DEF Count, Session
<1>1. TypeOK /\ SameMaxima /\ Metered /\ attr \in Attributes /\ seq \in Levels
  BY DEF ZInv, TypeOK
<1>2. \A n \in Nodes, c \in Cells : CellCounts(n, c)
  BY <1>0, <1>1 DEF Metered
<1>3. ASSUME NEW n \in Nodes, NEW c \in Cells
      PROVE  sendCnt'[n][c] \in 0 .. CounterMod - 1 /\ recvCnt'[n][c] \in 0 .. CounterMod - 1
  <2>1. /\ sendCnt[n][c] \in Nat /\ sendCnt[n][c] < CounterMod /\ CounterMod \in Nat
        /\ recvCnt[n][c] \in Nat /\ recvCnt[n][c] <= sendCnt[n][c]
    BY <1>1, <1>2, CellTypes, CounterModPositive DEF CellCounts
  <2> QED
    BY <2>1, CountCells
<1>4. /\ sendCnt' \in [Nodes -> [Cells -> 0 .. CounterMod - 1]]
      /\ recvCnt' \in [Nodes -> [Cells -> 0 .. CounterMod - 1]]
  <2>1. sendCnt' = [n \in Nodes |-> [c \in Cells |-> sendCnt'[n][c]]]
    BY <1>0 DEF PacketCounting
  <2>2. recvCnt' = [n \in Nodes |-> [c \in Cells |-> recvCnt'[n][c]]]
    <3>1. recvCnt \in [Nodes -> [Cells -> 0 .. CounterMod - 1]]
      BY <1>1 DEF TypeOK
    <3>2. recvCnt = [n \in Nodes |-> [c \in Cells |-> recvCnt[n][c]]]
      BY <3>1
    <3>3. arrives => recvCnt' = [n \in Nodes |-> [c \in Cells |-> recvCnt'[n][c]]]
      BY <1>0 DEF PacketCounting
    <3> QED
      BY <1>0, <3>2, <3>3
  <2> QED
    BY <1>3, <2>1, <2>2
<1>5. bits' \in [Nodes -> [Cells -> SUBSET Nat]]
  <2>1. bits \in [Nodes -> [Cells -> SUBSET Nat]]
    BY <1>1 DEF TypeOK
  <2>2. \A n \in Nodes : CellBit[f][KArryTreeDepth(n)] \in Nat
    BY <1>1, NodeHasLevel, Attribute
  <2> QED
    BY <1>0, <2>1, <2>2 DEF SetCellBits
<1>6. /\ sent' \in [Flows -> Nat] /\ lost' \in [Flows -> Nat]
      /\ \A g \in Flows : lost'[g] <= sent'[g] /\ sent'[g] <= MaxPackets[g]
  <2>1. /\ sent \in [Flows -> Nat] /\ lost \in [Flows -> Nat] /\ MaxPackets \in [Flows -> Nat]
        /\ \A g \in Flows : lost[g] <= sent[g] /\ sent[g] <= MaxPackets[g]
    BY <1>1, ZoomTreeAssumption DEF TypeOK, ZoomTreeAssumption
  <2>2. CASE arrives
    BY <1>0, <2>1, <2>2
  <2>3. CASE ~arrives
    BY <1>0, <2>1, <2>3
  <2> QED
    BY <2>2, <2>3
<1>7. TypeOK'
  BY <1>0, <1>1, <1>4, <1>5, <1>6, SameTree DEF TypeOK, verdictVars
<1>8. SameMaxima' /\ NothingSent' /\ Emptied'
  BY <1>0, <1>1 DEF SameMaxima, NothingSent, Emptied
<1>9. Metered'
  <2> SUFFICES ASSUME NEW n \in Nodes, NEW c \in Cells PROVE CellCounts(n, c)'
    BY <1>0, SameTree DEF Metered
  <2>1. /\ KArryTreeDepth(n)' = KArryTreeDepth(n) /\ Pipeline' = Pipeline
        /\ FlowsOf(n, c)' = FlowsOf(n, c) /\ CountedLevels' = CountedLevels
    BY <1>0, SameTree, SameFlows
  <2>2. CellCounts(n, c) /\ sendCnt[n][c] \in Nat /\ recvCnt[n][c] \in Nat
    BY <1>1, <1>2, CellTypes
  <2>3. SumOn(FlowsOf(n, c), sent) \in Nat /\ SumOn(FlowsOf(n, c), lost) \in Nat
    <3>1. sent \in [Flows -> Nat] /\ lost \in [Flows -> Nat] /\ FlowsOf(n, c) \in SUBSET Flows
      BY <1>1 DEF TypeOK, FlowsOf
    <3> QED
      BY <3>1, SumOnType
  <2>4. KArryTreeDepth(n) \in CountedLevels => ~(~Pipeline /\ KArryTreeDepth(n) > seq)
    <3>1. seq \in Int
      BY <1>1, Attribute DEF Levels
    <3> QED
      BY <3>1 DEF CountedLevels
  <2>5. CASE f \notin FlowsOf(n, c)
    <3>1. /\ sendCnt'[n][c] = sendCnt[n][c] /\ recvCnt'[n][c] = recvCnt[n][c]
          /\ SumOn(FlowsOf(n, c), sent') = SumOn(FlowsOf(n, c), sent)
          /\ SumOn(FlowsOf(n, c), lost') = SumOn(FlowsOf(n, c), lost)
      BY <2>5, CountCells
    <3> QED
      BY <1>0, <2>1, <2>2, <3>1 DEF CellCounts
  <2>6. CASE f \in FlowsOf(n, c) /\ arrives
    <3>1. /\ sendCnt'[n][c] = sendCnt[n][c] + 1 /\ recvCnt'[n][c] = recvCnt[n][c] + 1
          /\ SumOn(FlowsOf(n, c), sent') = SumOn(FlowsOf(n, c), sent) + 1
          /\ SumOn(FlowsOf(n, c), lost') = SumOn(FlowsOf(n, c), lost)
          /\ KArryTreeDepth(n) \in CountedLevels
      BY <2>6, CountCells
    <3> QED
      BY <1>0, <2>1, <2>2, <2>3, <2>4, <3>1 DEF CellCounts
  <2>7. CASE f \in FlowsOf(n, c) /\ ~arrives
    <3>1. /\ sendCnt'[n][c] = sendCnt[n][c] + 1 /\ recvCnt'[n][c] = recvCnt[n][c]
          /\ SumOn(FlowsOf(n, c), sent') = SumOn(FlowsOf(n, c), sent) + 1
          /\ SumOn(FlowsOf(n, c), lost') = SumOn(FlowsOf(n, c), lost) + 1
          /\ KArryTreeDepth(n) \in CountedLevels
      BY <2>7, CountCells
    <3> QED
      BY <1>0, <2>1, <2>2, <2>3, <2>4, <3>1 DEF CellCounts
  <2> QED
    BY <2>5, <2>6, <2>7
<1> QED
  BY <1>7, <1>8, <1>9 DEF ZInv

LEMMA UpdatedType ==
    ASSUME attr \in Attributes, NEW M, NEW history \in [Levels -> M], NEW newest \in M
    PROVE  /\ Updated(history, newest) \in [Levels -> M]
           /\ Updated(history, newest)[0] = newest
<1>0. 0 \in Levels /\ \A k \in Levels : k # 0 => k - 1 \in Levels
  BY Attribute DEF Levels
<1>1. Shifted(history, newest) \in [Levels -> M] /\ Shifted(history, newest)[0] = newest
  BY <1>0 DEF Shifted
<1>2. Overwritten(history, newest) \in [Levels -> M] /\ Overwritten(history, newest)[0] = newest
  BY <1>0 DEF Overwritten
<1> QED
  BY <1>1, <1>2 DEF Updated

LEMMA CostsInSession ==
    ASSUME ZInv, phase \in Session, NEW n \in Nodes
    PROVE  \A c \in Cells : /\ Cost(n, c) \in Fraction /\ Difference(n, c) \in Nat
                            /\ Difference(n, c) = sendCnt[n][c] - recvCnt[n][c]
<1> SUFFICES ASSUME NEW c \in Cells
             PROVE  /\ Cost(n, c) \in Fraction /\ Difference(n, c) \in Nat
                    /\ Difference(n, c) = sendCnt[n][c] - recvCnt[n][c]
  OBVIOUS
<1>1. TypeOK /\ recvCnt[n][c] <= sendCnt[n][c]
  BY DEF ZInv, Metered, CellCounts
<1> QED
  BY <1>1, DifferenceExact

LEMMA MinType ==
    ASSUME NEW a \in Nat, NEW b \in Nat
    PROVE  Min({a, b}) \in Nat /\ Min({a, b}) <= a /\ Min({a, b}) \in {a, b}
           /\ Min({a, b}) <= b
<1>1. {a, b} \subseteq Nat /\ {a, b} # {}
  OBVIOUS
<1>2. Min({a, b}) \in {a, b} /\ \A y \in {a, b} : Min({a, b}) <= y
  BY <1>1, MinIsLeast
<1> QED
  BY <1>2

LEMMA NextSeq ==
    ASSUME attr \in Attributes, seq \in Levels
    PROVE  /\ (seq + 1) % Depth \in Levels
           /\ seq = Depth - 1 => (seq + 1) % Depth = 0
           /\ seq # Depth - 1 => (seq + 1) % Depth = seq + 1
<1>1. Depth \in Nat \ {0, 1} /\ seq \in Nat /\ seq <= Depth - 1
  BY Attribute DEF Levels
<1> DEFINE d == Depth
<1>2. d \in Nat \ {0, 1} /\ seq <= d - 1
  BY <1>1
<1>3. 0 .. d - 1 = Levels
  BY DEF Levels
<1> HIDE DEF d
<1>4. /\ (seq + 1) % d \in 0 .. d - 1
      /\ seq = d - 1 => (seq + 1) % d = 0
      /\ seq # d - 1 => (seq + 1) % d = seq + 1
  BY <1>1, <1>2
<1> QED
  BY <1>3, <1>4 DEF d

LEMMA ExchangeZ ==
    ASSUME ZInv, Exchange
    PROVE  ZInv'
<1>0. /\ phase = "WAIT_COUNTER_RECEIVE" /\ phase \in Session
      /\ phase' \in {"ENDED", "IDLE"} /\ phase' \notin Session
      /\ sendMax' = [n \in Nodes |-> Updated(sendMax[n], NewMaxima(n))]
      /\ detected' = {PathUp(sendMax', nc[1], nc[2]) : nc \in Faulty \ Ambiguous}
      /\ collided' = {PathUp(sendMax', nc[1], nc[2]) : nc \in Ambiguous}
      /\ reroute' = reroute \cup SetBloomFilter(detected')
      /\ sendCnt' = IF ResetTree THEN NoCounts ELSE sendCnt
      /\ bits' = IF ResetTree THEN NoBits ELSE bits
      /\ seq' = (seq + 1) % Depth
      /\ UNCHANGED <<attr, recvMax, recvCnt, sent, lost>>
  BY DEF Exchange, Session
<1>1. TypeOK /\ SameMaxima /\ Metered /\ attr \in Attributes /\ seq \in Levels
  BY DEF ZInv, TypeOK
<1> DEFINE M == [1 .. LayerSplit -> Cells]
<1>2. ASSUME NEW n \in Nodes
      PROVE  /\ sendMax'[n] = Updated(sendMax[n], NewMaxima(n))
             /\ sendMax'[n] \in [Levels -> M] /\ sendMax'[n][0] = NewMaxima(n)
  <2>1. sendMax[n] \in [Levels -> M]
    BY <1>1 DEF TypeOK
  <2>2. NewMaxima(n) \in M
    BY <1>0, <1>1, CostsInSession, NewMaximaType
  <2>3. sendMax'[n] = Updated(sendMax[n], NewMaxima(n))
    BY <1>0
  <2> HIDE DEF M
  <2> QED
    BY <1>1, <2>1, <2>2, <2>3, UpdatedType
<1>3. sendMax' \in [Nodes -> [Levels -> M]]
  <2>1. sendMax' = [n \in Nodes |-> sendMax'[n]]
    BY <1>0
  <2> HIDE DEF M
  <2> QED
    BY <1>2, <2>1
<1>4. detected' \in SUBSET [Levels -> Cells] /\ collided' \in SUBSET [Levels -> Cells]
  <2>1. \A nc \in Faulty : PathUp(sendMax', nc[1], nc[2]) \in [Levels -> Cells]
    BY <1>1, <1>3, PathUpType DEF Faulty
  <2>2. Ambiguous \subseteq Faulty
    BY DEF Ambiguous
  <2> QED
    BY <1>0, <2>1, <2>2
<1>5. reroute' \in SUBSET Nat
  <2>1. \A p \in [Levels -> Cells] : RerouteBits(p) \subseteq Nat
    BY <1>1, Attribute
  <2>2. SetBloomFilter(detected') \subseteq Nat
    BY <1>4, <2>1 DEF SetBloomFilter
  <2>3. reroute \subseteq Nat
    BY <1>1 DEF TypeOK
  <2> QED
    BY <1>0, <2>2, <2>3
<1>6. sendCnt' \in [Nodes -> [Cells -> 0 .. CounterMod - 1]]
  <2>1. 0 \in 0 .. CounterMod - 1
    BY CounterModPositive
  <2> QED
    BY <1>0, <1>1, <2>1 DEF TypeOK, NoCounts
<1>7. bits' \in [Nodes -> [Cells -> SUBSET Nat]]
  BY <1>0, <1>1 DEF TypeOK, NoBits
<1>8. streak' \in [Flows -> 0 .. Depth]
  <2>1. streak' = [f \in Flows |-> IF ~SoleLoser(f) THEN 0
                                   ELSE IF ~Pipeline /\ seq = 0 THEN 1
                                   ELSE Min({Depth, streak[f] + 1})]
    BY DEF Exchange
  <2>2. Depth \in Nat \ {0, 1}
    BY <1>1, Attribute
  <2>3. \A f \in Flows : streak[f] + 1 \in Nat
    BY <1>1, <2>2 DEF TypeOK
  <2>4. \A f \in Flows : Min({Depth, streak[f] + 1}) \in 0 .. Depth
    BY <2>2, <2>3, MinType
  <2> QED
    BY <2>1, <2>2, <2>4
<1>9. TypeOK'
  <2>1. seq' \in Levels
    BY <1>0, <1>1, NextSeq
  <2> QED
    BY <1>0, <1>1, <1>3, <1>4, <1>5, <1>6, <1>7, <1>8, <2>1, SameTree DEF TypeOK
<1>10. SameMaxima'
  <2>1. recvMax = sendMax
    BY <1>0, <1>1 DEF SameMaxima
  <2>3. sendMax' = [n \in Nodes |-> Updated(recvMax[n], sendMax'[n][0])]
    BY <1>0, <1>2, <2>1
  <2>4. [n \in Nodes |-> Updated(recvMax[n], sendMax[n][0])]'
           = [n \in Nodes |-> Updated(recvMax[n], sendMax'[n][0])]
    BY <1>0, SameTree DEF Updated, Shifted, Overwritten, Pipeline, Levels, Depth
  <2> QED
    BY <1>0, <2>3, <2>4 DEF SameMaxima
<1>11. NothingSent' /\ Metered'
  BY <1>0 DEF NothingSent, Metered, Session
<1>12. Emptied'
  <2> SUFFICES ASSUME NEW n \in Nodes, NEW c \in Cells
               PROVE  /\ Pipeline \/ KArryTreeDepth(n) >= seq' => sendCnt'[n][c] = 0
                      /\ ~Pipeline /\ seq' # 0 => recvCnt'[n][c] <= sendCnt'[n][c]
    BY <1>0, SameTree DEF Emptied
  <2>1. CASE ResetTree
    <3>1. sendCnt'[n][c] = 0
      BY <1>0, <2>1 DEF NoCounts
    <3>2. Pipeline \/ seq' = 0
      BY <1>0, <1>1, <2>1, NextSeq DEF ResetTree
    <3> QED
      BY <3>1, <3>2
  <2>2. CASE ~ResetTree
    <3>1. ~Pipeline /\ seq' = seq + 1 /\ sendCnt' = sendCnt
      BY <1>0, <1>1, <2>2, NextSeq DEF ResetTree
    <3>2. CellCounts(n, c)
      BY <1>0, <1>1 DEF Metered
    <3>3. KArryTreeDepth(n) \in Int /\ seq \in Int
      BY <1>1, NodeHasLevel, Attribute DEF Levels
    <3>4. KArryTreeDepth(n) >= seq' => KArryTreeDepth(n) > seq
      BY <3>1, <3>3
    <3> QED
      BY <1>0, <3>1, <3>2, <3>4 DEF CellCounts
  <2> QED
    BY <2>1, <2>2
<1> QED
  BY <1>9, <1>10, <1>11, <1>12 DEF ZInv

LEMMA StutterZ ==
    ASSUME ZInv, UNCHANGED vars
    PROVE  ZInv'
<1>0. UNCHANGED <<attr, phase, seq, nodeVars, verdictVars, historyVars>>
  BY DEF vars
<1>1. TypeOK'
  BY <1>0, SameTree DEF ZInv, TypeOK, nodeVars, verdictVars, historyVars
<1>2. SameMaxima'
  BY <1>0, SameTree DEF ZInv, SameMaxima, nodeVars, Updated, Shifted, Overwritten, Pipeline,
                        Levels, Depth
<1>3. NothingSent'
  BY <1>0 DEF ZInv, NothingSent, historyVars
<1>4. Metered'
  <2> SUFFICES ASSUME phase \in Session, NEW n \in Nodes, NEW c \in Cells
               PROVE  CellCounts(n, c)'
    BY <1>0, SameTree DEF Metered
  <2> QED
    BY <1>0, CountsKept DEF ZInv, Metered, nodeVars, historyVars
<1>5. Emptied'
  BY <1>0, SameTree DEF ZInv, Emptied, nodeVars
<1> QED
  BY <1>1, <1>2, <1>3, <1>4, <1>5 DEF ZInv

LEMMA NextZ ==
    ASSUME ZInv, [Next]_vars
    PROVE  ZInv'
BY StartZ, RepeatStartZ, QuietZ, ExchangeZ, CountZ, StutterZ DEF Next

LEMMA AlwaysZ == Spec => []ZInv
<1>1. Init => ZInv
  BY InitZ
<1>2. ZInv /\ [Next]_vars => ZInv'
  BY NextZ
<1> QED
  BY <1>1, <1>2, PTL DEF Spec

(* The type invariant of the tree: the new maxima that an exchange chooses  *)
(* (std::sort, and the boost's search through max_cells) are cells of the   *)
(* node, the way up from a last-layer node (hash_path) stays inside the     *)
(* tree and inside the maxima, and no counter wraps to another modulus.     *)
THEOREM TypeCorrect == Spec => []TypeOK
<1>1. ZInv => TypeOK
  BY DEF ZInv
<1> QED
  BY <1>1, AlwaysZ, PTL

(* When PipelinedCounterExchangeAlgorithm or CounterExchangeAlgorithm       *)
(* compares the cells, the difference of every cell the session counted in  *)
(* is the number of packets lost of the flows the sender counts in it,      *)
(* whatever the split, depth and width of the tree and however often a      *)
(* START was repeated.                                                      *)
THEOREM DifferencesAlwaysLosses == Spec => []DifferencesAreLosses
<1>1. ASSUME ZInv PROVE DifferencesAreLosses
  <2> SUFFICES ASSUME phase = "WAIT_COUNTER_RECEIVE", NEW n \in Nodes, NEW c \in Cells,
                      KArryTreeDepth(n) \in CountedLevels
               PROVE  Difference(n, c) = SumOn(FlowsOf(n, c), lost)
    BY DEF DifferencesAreLosses, SumOn, FlowsOf
  <2>1. phase \in Session
    BY DEF Session
  <2>2. Difference(n, c) = sendCnt[n][c] - recvCnt[n][c]
    BY <1>1, <2>1, CostsInSession
  <2>3. recvCnt[n][c] + SumOn(FlowsOf(n, c), lost) = sendCnt[n][c]
    BY <1>1, <2>1 DEF ZInv, Metered, CellCounts
  <2>4. recvCnt[n][c] \in Nat
    BY <1>1, CellTypes DEF ZInv
  <2>5. SumOn(FlowsOf(n, c), lost) \in Nat
    <3>1. FlowsOf(n, c) \in SUBSET Flows /\ lost \in [Flows -> Nat]
      BY <1>1 DEF FlowsOf, ZInv, TypeOK
    <3> QED
      BY <3>1, SumOnType
  <2> QED
    BY <2>2, <2>3, <2>4, <2>5
<1> QED
  BY <1>1, AlwaysZ, PTL
=============================================================================
