-------------------------- MODULE ZoomPathProofs --------------------------
(***************************************************************************)
(* Proofs about what the zooming tree reports: a reported path is that of  *)
(* a flow that lost packets, and a flow that alone loses packets for as    *)
(* many sessions as the tree is deep is reported.                          *)
(***************************************************************************)
EXTENDS ZoomTreeProofs

-----------------------------------------------------------------------------
(* Walks through maxima that agree, and walks one level further down.      *)

(* The maxima a walk to level n looks into in new are, above level k, the  *)
(* ones that a walk to level m looks into in old.                          *)
Agree(old, m, new, n, k) ==
    \A l \in 0 .. k - 1 : \A v \in LevelNodes(l) :
        new[v][HistoryIndex(n, l)] = old[v][HistoryIndex(m, l)]

LEMMA WalkAgree ==
    ASSUME attr \in Attributes, NEW m \in Levels, NEW n \in Levels, NEW k \in Nat,
           k <= m, k <= n, NEW f, NEW old, NEW new, NEW a, NEW b,
           IsWalk(a, old, f, m), IsWalk(b, new, f, n), Agree(old, m, new, n, k)
    PROVE  a[k] = b[k]
<1>0. m \in Nat /\ n \in Nat
  BY Attribute DEF Levels
<1> DEFINE T == {l \in Nat : l <= k => a[l] = b[l]}
<1>1. 0 \in T
  BY DEF IsWalk
<1>2. ASSUME NEW l \in Nat, l \in T, l + 1 <= k PROVE a[l + 1] = b[l + 1]
  <2>1. l \in 0 .. k - 1 /\ l \in 0 .. m - 1 /\ l \in 0 .. n - 1 /\ l \in 0 .. m /\ l <= k
    BY <1>0, <1>2
  <2>2. a[l] = b[l]
    BY <1>2, <2>1
  <2>3. a[l + 1] = Below(old, f, m, a[l], l) /\ b[l + 1] = Below(new, f, n, a[l], l)
    BY <2>1, <2>2 DEF IsWalk
  <2>4. a[l] \in LevelNodes(l) \cup {NoNode}
    BY <2>1, WalkStep
  <2>5. CASE a[l] = NoNode
    BY <2>3, <2>5 DEF Below
  <2>6. CASE a[l] \in LevelNodes(l)
    <3>1. new[a[l]][HistoryIndex(n, l)] = old[a[l]][HistoryIndex(m, l)]
      BY <2>1, <2>6 DEF Agree
    <3>2. Hits(new, f, n, a[l], l) = Hits(old, f, m, a[l], l)
      BY <3>1 DEF Hits
    <3> QED
      BY <2>3, <3>2 DEF Below
  <2> QED
    BY <2>4, <2>5, <2>6
<1>3. Nat \subseteq T
  <2>1. \A l \in Nat : l \in T => l + 1 \in T
    BY <1>2
  <2> HIDE DEF T
  <2> QED
    BY <1>1, <2>1, SetInduction
<1> QED
  BY <1>3

LEMMA WalkKept ==
    ASSUME attr \in Attributes, NEW n \in Levels, NEW f, NEW old, NEW new,
           Agree(old, n, new, n, n)
    PROVE  NodeOfLevel(new, f, n) = NodeOfLevel(old, f, n)
<1>0. n \in Nat
  BY Attribute DEF Levels
<1>1. PICK a : IsWalk(a, old, f, n) /\ NodeOfLevel(old, f, n) = a[n]
  BY <1>0, WalkExists
<1>2. PICK b : IsWalk(b, new, f, n) /\ NodeOfLevel(new, f, n) = b[n]
  BY <1>0, WalkExists
<1>3. a[n] = b[n]
  BY <1>0, <1>1, <1>2, WalkAgree
<1> QED
  BY <1>1, <1>2, <1>3

LEMMA RootNode ==
    ASSUME attr \in Attributes, NEW max, NEW f
    PROVE  /\ NodeOfLevel(max, f, 0) # NoNode
           /\ 0 \in Levels
<1>0. 0 \in Levels /\ 0 \in Nat
  BY Attribute DEF Levels
<1>1. PICK a : IsWalk(a, max, f, 0) /\ NodeOfLevel(max, f, 0) = a[0]
  BY <1>0, WalkExists
<1>2. a[0] = 0
  BY <1>1 DEF IsWalk
<1>3. NoNode # 0
  <2>1. Depth \in Nat \ {0, 1} /\ NoNode = FirstNode(Depth)
    BY Attribute, NoNodeType
  <2>2. ~(Depth <= 0)
    BY <2>1
  <2>3. ~(FirstNode(Depth) <= FirstNode(0)) /\ FirstNode(0) = 0
    BY <2>1, <2>2, FirstNodeMonotone, FirstNodeSteps
  <2> QED
    BY <2>1, <2>3
<1> QED
  BY <1>0, <1>1, <1>2, <1>3

(* A node of level l that has the hash of f among the maxima that the walk *)
(* to level l + 1 looks into has a child on that walk.                     *)
LEMMA WalkGrown ==
    ASSUME attr \in Attributes, NEW l \in Nat, l + 1 \in Levels, NEW f, NEW old, NEW new,
           NodeOfLevel(old, f, l) # NoNode,
           Agree(old, l, new, l + 1, l),
           \E i \in 1 .. LayerSplit :
               new[NodeOfLevel(old, f, l)][HistoryIndex(l + 1, l)][i] = HashIndex(f, l)
    PROVE  NodeOfLevel(new, f, l + 1) # NoNode
<1>0. l \in Levels /\ l + 1 \in Nat /\ l \in 0 .. (l + 1) - 1 /\ (l + 1) \in 0 .. (l + 1)
      /\ l <= l /\ l <= l + 1
  BY Attribute DEF Levels
<1>1. PICK a : IsWalk(a, old, f, l) /\ NodeOfLevel(old, f, l) = a[l]
  BY <1>0, WalkExists
<1>2. PICK b : IsWalk(b, new, f, l + 1) /\ NodeOfLevel(new, f, l + 1) = b[l + 1]
  BY <1>0, WalkExists
<1>3. a[l] = b[l]
  BY <1>0, <1>1, <1>2, WalkAgree
<1> DEFINE u == a[l]
<1>4. b[l + 1] = Below(new, f, l + 1, u, l)
  BY <1>0, <1>2, <1>3 DEF IsWalk
<1>5. u # NoNode /\ Hits(new, f, l + 1, u, l) # {}
  BY <1>1 DEF Hits
<1>6. u \in LevelNodes(l)
  BY <1>0, <1>1, <1>5, NodeOfLevelType
<1> HIDE DEF u
<1> DEFINE i == Min(Hits(new, f, l + 1, u, l))
<1>7. i \in 1 .. LayerSplit
  BY <1>5, HitsMin
<1>8. b[l + 1] = u * LayerSplit + i
  BY <1>4, <1>5 DEF Below
<1> HIDE DEF i
<1>9. b[l + 1] \in LevelNodes(l + 1)
  BY <1>6, <1>7, <1>8, ChildNode
<1> QED
  BY <1>2, <1>9, LevelNodesFacts

-----------------------------------------------------------------------------
(* A cell that is the only one of its node with losses is taken first.     *)

LEMMA OnlyLossRanksFirst ==
    ASSUME attr \in Attributes, NEW n, NEW h \in Cells,
           \A c \in Cells : Cost(n, c) \in Fraction /\ Difference(n, c) \in Nat,
           Difference(n, h) > 0, \A c \in Cells \ {h} : Difference(n, c) = 0
    PROVE  NewMaxima(n)[1] = h /\ 1 \in 1 .. LayerSplit
<1>1. ASSUME NEW d \in Cells, TakenBefore(n, d, h) PROVE FALSE
  <2>1. CASE d = h
    BY <1>1, <2>1, TakenOrder
  <2>2. CASE d # h
    <3>1. Difference(n, d) = 0 /\ Cost(n, d) = <<0, 1>> /\ ~Preferred(n, d)
      BY <2>2 DEF Cost, Preferred
    <3>2. SortedBefore(n, d, h)
      BY <1>1, <3>1 DEF TakenBefore
    <3>3. PICK x \in Nat \ {0}, y \in Nat \ {0} : Cost(n, h) = <<x, y>>
      <4>1. Cost(n, h)[1] = Difference(n, h)
        BY DEF Cost
      <4> QED
        BY <4>1 DEF Fraction
    <3>4. Above(Cost(n, h), Cost(n, d)) /\ ~Above(Cost(n, d), Cost(n, h))
      BY <3>1, <3>3 DEF Above
    <3> QED
      BY <3>2, <3>4 DEF SortedBefore
  <2> QED
    BY <2>1, <2>2
<1>2. {d \in Cells : TakenBefore(n, d, h)} = {}
  BY <1>1
<1>3. Rank(n, h) = 1
  BY <1>2, FS_EmptySet DEF Rank
<1>4. 1 \in 1 .. LayerSplit
  BY Attribute
<1> QED
  BY <1>3, <1>4, NewMaximaType

-----------------------------------------------------------------------------
(* The way up from the node of the last layer that counts a flow is the    *)
(* walk down to it, so the path is that of the flow.                       *)

(* What an exchange makes of the maxima max: those that the walk of the    *)
(* session looked into are, on the way up, one entry further back in the   *)
(* histories of a pipelined tree, and the same in another one.             *)
Kept(max, new) ==
    \A l \in 0 .. Depth - 2 : \A v \in LevelNodes(l) :
        new[v][IF Pipeline THEN (Depth - 2 - l) + 1 ELSE 0]
            = max[v][HistoryIndex(Depth - 1, l)]

LedUp(node, up) == \A l \in Levels : node[l] # NoNode /\ up[Depth - 1 - l] = node[l]

ChildIndex(node, l) == node[l + 1] - LayerSplit * node[l]

LedDown(node, max, f) ==
    \A l \in 0 .. Depth - 2 :
        /\ node[l] \in LevelNodes(l)
        /\ max[node[l]][HistoryIndex(Depth - 1, l)][ChildIndex(node, l)] = HashIndex(f, l)

LEMMA ClimbIsWalk ==
    ASSUME attr \in Attributes, NEW f, NEW max, NEW node, NEW up,
           IsWalk(node, max, f, Depth - 1), node[Depth - 1] # NoNode,
           IsClimb(up, node[Depth - 1])
    PROVE  LedUp(node, up) /\ LedDown(node, max, f)
<1>0. /\ Depth \in Nat \ {0, 1} /\ Depth - 1 \in Levels /\ Depth - 1 \in Nat
      /\ LayerSplit \in Nat \ {0}
  BY Attribute DEF Levels
<1>1. ASSUME NEW l \in 0 .. Depth - 2, node[l + 1] # NoNode
      PROVE  /\ node[l] # NoNode /\ node[l] \in LevelNodes(l)
             /\ (node[l + 1] - 1) \div LayerSplit = node[l]
             /\ max[node[l]][HistoryIndex(Depth - 1, l)][ChildIndex(node, l)]
                   = HashIndex(f, l)
  <2>1. l \in Nat /\ l \in 0 .. (Depth - 1) - 1 /\ l \in 0 .. Depth - 1
    BY <1>0
  <2>2. node[l] # NoNode /\ node[l] \in LevelNodes(l)
    BY <1>0, <1>1, <2>1, WalkStep
  <2>3. PICK i \in 1 .. LayerSplit :
            /\ node[l + 1] = node[l] * LayerSplit + i
            /\ max[node[l]][HistoryIndex(Depth - 1, l)][i] = HashIndex(f, l)
    BY <1>0, <1>1, <2>1, WalkStep
  <2>4. /\ ((node[l] * LayerSplit + i) - 1) \div LayerSplit = node[l]
        /\ (node[l] * LayerSplit + i) - LayerSplit * node[l] = i
    BY <2>1, <2>2, ChildNode
  <2> DEFINE x == node[l] * LayerSplit + i
  <2>5. node[l + 1] = x /\ (x - 1) \div LayerSplit = node[l] /\ x - LayerSplit * node[l] = i
    BY <2>3, <2>4
  <2> HIDE DEF x
  <2>6. ChildIndex(node, l) = i
    BY <2>5 DEF ChildIndex
  <2> QED
    BY <2>2, <2>3, <2>5, <2>6
<1> DEFINE T == {t \in Nat : t \in Levels =>
                    node[Depth - 1 - t] # NoNode /\ up[t] = node[Depth - 1 - t]}
<1>2. 0 \in T
  BY <1>0 DEF IsClimb
<1>3. ASSUME NEW t \in Nat, t \in T, t + 1 \in Levels
      PROVE  /\ node[Depth - 1 - (t + 1)] # NoNode
             /\ up[t + 1] = node[Depth - 1 - (t + 1)]
  <2> DEFINE l == Depth - 1 - (t + 1)
  <2>1. /\ t \in Levels /\ t \in 0 .. Depth - 2
        /\ l \in 0 .. Depth - 2 /\ l + 1 = Depth - 1 - t
    BY <1>0, <1>3 DEF Levels
  <2>2. node[l + 1] # NoNode /\ up[t] = node[l + 1]
    BY <1>3, <2>1
  <2> HIDE DEF l
  <2>3. up[t + 1] = (up[t] - 1) \div LayerSplit
    BY <2>1 DEF IsClimb
  <2>4. node[l] # NoNode /\ up[t + 1] = node[l]
    BY <1>1, <2>1, <2>2, <2>3
  <2> QED
    BY <2>4 DEF l
<1>4. Nat \subseteq T
  <2>1. \A t \in Nat : t \in T => t + 1 \in T
    BY <1>3
  <2> HIDE DEF T
  <2> QED
    BY <1>2, <2>1, SetInduction
<1>5. ASSUME NEW l \in Levels PROVE node[l] # NoNode /\ up[Depth - 1 - l] = node[l]
  <2> DEFINE t == Depth - 1 - l
  <2>1. t \in Nat /\ t \in Levels /\ Depth - 1 - t = l
    BY <1>0 DEF Levels
  <2> HIDE DEF t
  <2>2. node[Depth - 1 - t] # NoNode /\ up[t] = node[Depth - 1 - t]
    BY <1>4, <2>1
  <2>3. node[l] # NoNode /\ up[t] = node[l]
    BY <2>1, <2>2
  <2> QED
    BY <2>3 DEF t
<1>6. \A l \in 0 .. Depth - 2 : l + 1 \in Levels
  BY <1>0 DEF Levels
<1> QED
  BY <1>1, <1>5, <1>6 DEF LedUp, LedDown

LEMMA PathOfCountedFlow ==
    ASSUME attr \in Attributes, NEW f, NEW max, NEW new, Kept(max, new),
           NodeOfLevel(max, f, Depth - 1) # NoNode
    PROVE  PathUp(new, NodeOfLevel(max, f, Depth - 1), HashIndex(f, Depth - 1)) = PathOf(f)
<1>0. Depth \in Nat \ {0, 1} /\ Depth - 1 \in Levels /\ Depth - 1 \in Nat
  BY Attribute DEF Levels
<1>1. PICK node : /\ IsWalk(node, max, f, Depth - 1)
                  /\ NodeOfLevel(max, f, Depth - 1) = node[Depth - 1]
  BY <1>0, WalkExists
<1> DEFINE n == node[Depth - 1]
           c == HashIndex(f, Depth - 1)
<1>2. n \in Int /\ n # NoNode
  BY <1>0, <1>1 DEF IsWalk
<1>3. PICK up : IsClimb(up, n) /\ PathUp(new, n, c) = PathAlong(up, new, c)
  BY <1>2, ClimbExists
<1>4. ASSUME NEW l \in Levels, l # Depth - 1
      PROVE  new[up[(Depth - 2 - l) + 1]][IF Pipeline THEN (Depth - 2 - l) + 1 ELSE 0]
                [up[Depth - 2 - l] - LayerSplit * up[(Depth - 2 - l) + 1]] = HashIndex(f, l)
  <2>1. /\ l \in 0 .. Depth - 2 /\ l + 1 \in Levels
        /\ (Depth - 2 - l) + 1 = Depth - 1 - l /\ Depth - 2 - l = Depth - 1 - (l + 1)
    BY <1>0, <1>4 DEF Levels
  <2>2. up[Depth - 1 - l] = node[l] /\ up[Depth - 1 - (l + 1)] = node[l + 1]
    <3>1. LedUp(node, up)
      BY <1>1, <1>2, <1>3, ClimbIsWalk
    <3> QED
      BY <2>1, <3>1 DEF LedUp
  <2> DEFINE i == ChildIndex(node, l)
             k == IF Pipeline THEN (Depth - 2 - l) + 1 ELSE 0
  <2>3. /\ node[l] \in LevelNodes(l)
        /\ max[node[l]][HistoryIndex(Depth - 1, l)][i] = HashIndex(f, l)
    <3>1. LedDown(node, max, f)
      BY <1>1, <1>2, <1>3, ClimbIsWalk
    <3> QED
      BY <2>1, <3>1 DEF LedDown
  <2>4. new[node[l]][k] = max[node[l]][HistoryIndex(Depth - 1, l)]
    BY <2>1, <2>3 DEF Kept
  <2>5. new[node[l]][k][i] = HashIndex(f, l)
    <3> HIDE DEF i, k
    <3> QED
      BY <2>3, <2>4
  <2>6. up[(Depth - 2 - l) + 1] = node[l] /\ up[Depth - 2 - l] = node[l + 1]
    BY <2>1, <2>2
  <2> QED
    BY <2>5, <2>6 DEF ChildIndex
<1>5. PathAlong(up, new, c) = [l \in Levels |-> HashIndex(f, l)]
  BY <1>4 DEF PathAlong
<1> QED
  BY <1>1, <1>3, <1>5 DEF PathOf

-----------------------------------------------------------------------------
(* The inductive invariant.  Without pipeline the maxima of the levels     *)
(* above the session's are the ones an exchange would choose again; and a  *)
(* flow that alone lost packets in the last sessions is counted in as many *)
(* levels.                                                                 *)

OnlyLossyLose == \A f \in Flows : lost[f] > 0 => f \in LossyFlows

Settled ==
    ~Pipeline => \A n \in Nodes : KArryTreeDepth(n) < seq => sendMax[n][0] = NewMaxima(n)

Reached(f, n) == NodeOfLevel(sendMax, f, n) # NoNode

Followed ==
    \A f \in Flows :
        IF Pipeline THEN \A n \in Levels : n <= streak[f] => Reached(f, n)
        ELSE /\ seq # 0 => streak[f] <= seq
             /\ streak[f] = seq => \A n \in 0 .. seq : Reached(f, n)

PInv ==
    /\ ZInv /\ OnlyLossyLose /\ Settled /\ Followed
    /\ PathsBlameLosers /\ FoundWithinDepth

LEMMA SettledCosts ==
    ASSUME ZInv, ~Pipeline, seq # 0, phase \in Session \cup {"IDLE"}, NEW n \in Nodes
    PROVE  \A c \in Cells : Cost(n, c) \in Fraction
<1>1. \A c \in Cells : recvCnt[n][c] <= sendCnt[n][c]
  BY DEF ZInv, Metered, CellCounts, Emptied
<1> QED
  BY <1>1, DifferenceExact DEF ZInv

(* Without pipeline the choice depends on the counters of the node only. *)
LEMMA NewMaximaSame ==
    ASSUME attr \in Attributes, attr' = attr, ~Pipeline, NEW n,
           \A c \in Cells : Cost(n, c) \in Fraction,
           \A c \in Cells : /\ sendCnt'[n][c] = sendCnt[n][c]
                            /\ recvCnt'[n][c] = recvCnt[n][c]
    PROVE  NewMaxima(n)' = NewMaxima(n)
<1>0. /\ Cells' = Cells /\ LayerSplit' = LayerSplit /\ Width' = Width /\ Pipeline' = Pipeline
      /\ RelativeCost' = RelativeCost
  BY SameTree DEF RelativeCost
<1>1. \A c \in Cells : Difference(n, c)' = Difference(n, c)
  BY DEF Difference
<1>2. \A c \in Cells : Cost(n, c)' = Cost(n, c)
  BY <1>0, <1>1 DEF Cost
<1>3. \A c \in Cells : ~Preferred(n, c) /\ ~Preferred(n, c)'
  BY <1>0 DEF Preferred
<1>4. \A c, d \in Cells : TakenBefore(n, d, c)' <=> TakenBefore(n, d, c)
  BY <1>2, <1>3 DEF TakenBefore, SortedBefore, Above
<1>5. \A c \in Cells : Rank(n, c)' = Rank(n, c)
  <2> SUFFICES ASSUME NEW c \in Cells PROVE Rank(n, c)' = Rank(n, c)
    OBVIOUS
  <2>1. {d \in Cells : TakenBefore(n, d, c)}' = {d \in Cells : TakenBefore(n, d, c)}
    BY <1>0, <1>4
  <2> QED
    BY <2>1 DEF Rank
<1>6. \A i \in 1 .. LayerSplit : i \in 1 .. Width
  BY Attribute
<1>7. /\ \A r \in 1 .. Width : \E c \in Cells : Rank(n, c) = r
      /\ \A c, d \in Cells : Rank(n, c) = Rank(n, d) => c = d
  BY RankBijective
<1>8. NewMaxima(n) = [i \in 1 .. LayerSplit |-> CHOOSE c \in Cells : Rank(n, c) = i]
  BY <1>6 DEF NewMaxima, SortedCells
<1>9. NewMaxima(n)' = [i \in 1 .. LayerSplit |-> CHOOSE c \in Cells : Rank(n, c)' = i]
  BY <1>0, <1>6 DEF NewMaxima, SortedCells
<1>10. ASSUME NEW i \in 1 .. LayerSplit
       PROVE  (CHOOSE c \in Cells : Rank(n, c)' = i) = (CHOOSE c \in Cells : Rank(n, c) = i)
  <2> DEFINE x == CHOOSE c \in Cells : Rank(n, c) = i
             y == CHOOSE c \in Cells : Rank(n, c)' = i
  <2>1. \E c \in Cells : Rank(n, c) = i /\ Rank(n, c)' = i
    BY <1>5, <1>6, <1>7
  <2>2. x \in Cells /\ Rank(n, x) = i
    BY <2>1
  <2>3. y \in Cells /\ Rank(n, y) = i
    <3>1. y \in Cells /\ \A c \in Cells : c = y => Rank(n, c)' = i
      BY <2>1
    <3> HIDE DEF y
    <3> QED
      BY <1>5, <3>1
  <2> HIDE DEF x, y
  <2>4. x = y
    BY <1>7, <2>2, <2>3
  <2> QED
    BY <2>4 DEF x, y
<1> QED
  BY <1>8, <1>9, <1>10

LEMMA SameReached ==
    ASSUME UNCHANGED <<attr, sendMax>>, NEW f, NEW n
    PROVE  Reached(f, n)' <=> Reached(f, n)
BY DEF Reached, NodeOfLevel, HistoryIndex, HashIndex, Depth, LayerSplit, Width, Pipeline,
       NodesInTree, NoNode, FirstNode

LEMMA SamePath ==
    ASSUME attr' = attr, NEW f
    PROVE  PathOf(f)' = PathOf(f)
BY DEF PathOf, HashIndex, Levels, Depth, Width

LEMMA InitP ==
    ASSUME Init
    PROVE  PInv
<1>0. /\ ZInv /\ attr \in Attributes /\ seq = 0 /\ detected = {} /\ collided = {}
      /\ lost = NoPackets /\ streak = NoPackets
  BY InitZ DEF Init
<1>1. OnlyLossyLose
  BY <1>0 DEF OnlyLossyLose, NoPackets
<1>2. Settled
  <2>1. \A n \in Nodes : KArryTreeDepth(n) \in Nat
    BY <1>0, NodeHasLevel, Attribute DEF Levels
  <2> QED
    BY <1>0, <2>1 DEF Settled
<1>3. Followed
  <2>1. ASSUME NEW f \in Flows PROVE streak[f] = 0 /\ Reached(f, 0)
    BY <1>0, RootNode DEF NoPackets, Reached
  <2>2. \A n \in Levels : n <= 0 => n = 0
    BY <1>0, Attribute DEF Levels
  <2>3. \A n \in 0 .. 0 : n = 0
    OBVIOUS
  <2> QED
    BY <1>0, <2>1, <2>2, <2>3 DEF Followed
<1>4. PathsBlameLosers
  BY <1>0 DEF PathsBlameLosers
<1>5. FoundWithinDepth
  <2>1. Depth # 0
    BY <1>0, Attribute
  <2> QED
    BY <1>0, <2>1 DEF FoundWithinDepth, NoPackets
<1> QED
  BY <1>0, <1>1, <1>2, <1>3, <1>4, <1>5 DEF PInv

(* A step inside a session keeps the maxima, and the counters of the       *)
(* levels above the session's.                                             *)
LEMMA SettledKept ==
    ASSUME ZInv, phase \in Session \cup {"IDLE"}, Settled, UNCHANGED <<attr, seq, sendMax>>,
           ~Pipeline => \A n \in Nodes, c \in Cells : KArryTreeDepth(n) < seq =>
               sendCnt'[n][c] = sendCnt[n][c] /\ recvCnt'[n][c] = recvCnt[n][c]
    PROVE  Settled'
<1>0. attr \in Attributes
  BY DEF ZInv, TypeOK
<1> SUFFICES ASSUME ~Pipeline, NEW n \in Nodes, KArryTreeDepth(n) < seq
             PROVE  sendMax[n][0] = NewMaxima(n)'
  BY SameTree DEF Settled
<1>1. KArryTreeDepth(n) \in Nat /\ seq \in Nat
  BY <1>0, NodeHasLevel, Attribute DEF Levels, ZInv, TypeOK
<1>2. seq # 0
  BY <1>1
<1>3. \A c \in Cells : Cost(n, c) \in Fraction
  BY <1>2, SettledCosts
<1>4. NewMaxima(n)' = NewMaxima(n)
  BY <1>0, <1>3, NewMaximaSame
<1> QED
  BY <1>4 DEF Settled

LEMMA FollowedKept ==
    ASSUME Followed, UNCHANGED <<attr, seq, sendMax, streak>>
    PROVE  Followed'
<1>1. \A f, n : Reached(f, n)' <=> Reached(f, n)
  BY SameReached
<1> QED
  BY <1>1, SameTree DEF Followed

LEMMA SessionStepP ==
    ASSUME PInv, Start \/ RepeatStart \/ AckStart \/ Stop \/
                 \E f \in Flows, arrives \in BOOLEAN : Count(f, arrives)
    PROVE  PInv'
<1>0. ZInv /\ OnlyLossyLose /\ Settled /\ Followed /\ TypeOK
  BY DEF PInv, ZInv
<1>1. /\ phase \in Session \cup {"IDLE"} /\ phase' \in Session
      /\ UNCHANGED <<attr, seq, sendMax, streak>>
  BY DEF Start, RepeatStart, AckStart, Stop, Count, Session, nodeVars, historyVars
<1>2. ZInv'
  BY <1>0, StartZ, RepeatStartZ, QuietZ, CountZ
<1>3. Followed'
  BY <1>0, <1>1, FollowedKept
<1>4. PathsBlameLosers' /\ FoundWithinDepth'
  BY <1>1 DEF PathsBlameLosers, FoundWithinDepth, Session
<1>5. OnlyLossyLose'
  <2>1. lost \in [Flows -> Nat]
    BY <1>0 DEF TypeOK
  <2>2. CASE Start
    BY <2>2 DEF Start, OnlyLossyLose, NoPackets
  <2>3. CASE RepeatStart \/ AckStart \/ Stop
    BY <1>0, <2>3 DEF RepeatStart, AckStart, Stop, OnlyLossyLose, historyVars
  <2>4. ASSUME NEW f \in Flows, NEW arrives \in BOOLEAN, Count(f, arrives)
        PROVE  OnlyLossyLose'
    <3>1. /\ arrives \/ f \in LossyFlows
          /\ lost' = IF arrives THEN lost ELSE [lost EXCEPT ![f] = lost[f] + 1]
      BY <2>4 DEF Count
    <3> QED
      BY <1>0, <2>1, <3>1 DEF OnlyLossyLose
  <2> QED
    BY <2>2, <2>3, <2>4
<1>6. Settled'
  <2> SUFFICES ASSUME ~Pipeline, NEW n \in Nodes, NEW c \in Cells, KArryTreeDepth(n) < seq
               PROVE  sendCnt'[n][c] = sendCnt[n][c] /\ recvCnt'[n][c] = recvCnt[n][c]
    BY <1>0, <1>1, SettledKept
  <2>1. seq \in Nat /\ seq # 0 /\ KArryTreeDepth(n) \notin CountedLevels
    <3>1. KArryTreeDepth(n) \in Nat /\ seq \in Nat
      BY <1>0, NodeHasLevel, Attribute DEF Levels, TypeOK
    <3> QED
      BY <3>1 DEF CountedLevels
  <2>2. CASE Start
    BY <2>1, <2>2 DEF Start, InitReceiverStep
  <2>3. CASE RepeatStart
    BY <2>1, <2>3 DEF RepeatStart, InitReceiverStep
  <2>4. CASE AckStart \/ Stop
    BY <2>4 DEF AckStart, Stop, nodeVars
  <2>5. ASSUME NEW f \in Flows, NEW arrives \in BOOLEAN, Count(f, arrives)
        PROVE  sendCnt'[n][c] = sendCnt[n][c] /\ recvCnt'[n][c] = recvCnt[n][c]
    BY <1>0, <2>1, <2>5, CountCells
  <2> QED
    BY <2>2, <2>3, <2>4, <2>5
<1> QED
  BY <1>2, <1>3, <1>4, <1>5, <1>6 DEF PInv

LEMMA StutterP ==
    ASSUME PInv, UNCHANGED vars
    PROVE  PInv'
<1>0. UNCHANGED <<attr, phase, seq, sendMax, recvMax, sendCnt, recvCnt, bits, reroute,
                  detected, collided, sent, lost, streak>>
  BY DEF vars, nodeVars, verdictVars, historyVars
<1>1. ZInv'
  BY StutterZ DEF PInv
<1>2. OnlyLossyLose'
  BY <1>0 DEF PInv, OnlyLossyLose
<1>3. Followed'
  BY <1>0, FollowedKept DEF PInv
<1>4. PathsBlameLosers' /\ FoundWithinDepth'
  <2>1. \A f : PathOf(f)' = PathOf(f)
    BY <1>0, SamePath
  <2> QED
    BY <1>0, <2>1, SameTree DEF PInv, PathsBlameLosers, FoundWithinDepth
<1>5. Settled'
  <2>1. \A n : NewMaxima(n)' = NewMaxima(n)
    BY <1>0 DEF NewMaxima, SortedCells, Rank, TakenBefore, Preferred, SortedBefore, Above,
                Cost, Difference, Cells, LayerSplit, Width, Pipeline, Boost, RelativeCost
  <2> QED
    BY <1>0, <2>1, SameTree DEF PInv, Settled
<1> QED
  BY <1>1, <1>2, <1>3, <1>4, <1>5 DEF PInv

-----------------------------------------------------------------------------
(* The exchange.                                                           *)

LEMMA ExchangeMaxima ==
    ASSUME ZInv, Exchange, NEW n \in Nodes
    PROVE  /\ sendMax'[n][0] = NewMaxima(n)
           /\ Pipeline => \A k \in Levels : k # 0 => sendMax'[n][k] = sendMax[n][k - 1]
<1>0. attr \in Attributes /\ sendMax[n] \in [Levels -> [1 .. LayerSplit -> Cells]]
  BY DEF ZInv, TypeOK
<1>1. sendMax'[n] = Updated(sendMax[n], NewMaxima(n))
  BY DEF Exchange
<1>2. 0 \in Levels
  BY <1>0, Attribute DEF Levels
<1>3. CASE Pipeline
  BY <1>1, <1>2, <1>3 DEF Updated, Shifted
<1>4. CASE ~Pipeline
  BY <1>0, <1>1, <1>2, <1>4 DEF Updated, Overwritten
<1> QED
  BY <1>3, <1>4

(* The maxima above a level of the session are found again, for the way up *)
(* and for the walk of a later session.                                    *)
LEMMA ExchangeKeeps ==
    ASSUME PInv, Exchange, NEW l \in CountedLevels, NEW k \in 0 .. l - 1,
           NEW v \in LevelNodes(k)
    PROVE  sendMax'[v][IF Pipeline THEN l - k ELSE 0] = sendMax[v][HistoryIndex(l, k)]
<1>0. ZInv /\ Settled /\ TypeOK /\ attr \in Attributes /\ seq \in Levels
  BY DEF PInv, ZInv, TypeOK
<1>1. Depth \in Nat /\ l \in Levels /\ l \in Nat /\ k \in Nat /\ k < l /\ k \in Levels
      /\ l - k \in Levels /\ l - k # 0 /\ (l - k) - 1 = l - 1 - k
  BY <1>0, Attribute DEF CountedLevels, Levels
<1>2. v \in Nodes /\ KArryTreeDepth(v) = k
  BY <1>0, <1>1, LevelOfNode
<1>3. CASE Pipeline
  <2>1. sendMax'[v][l - k] = sendMax[v][(l - k) - 1]
    BY <1>0, <1>1, <1>2, <1>3, ExchangeMaxima
  <2>2. HistoryIndex(l, k) = (l - k) - 1
    BY <1>1, <1>3 DEF HistoryIndex
  <2> QED
    BY <1>3, <2>1, <2>2
<1>4. CASE ~Pipeline
  <2>1. l = seq
    BY <1>4 DEF CountedLevels
  <2>2. sendMax[v][0] = NewMaxima(v)
    BY <1>0, <1>1, <1>2, <1>4, <2>1 DEF Settled
  <2>3. sendMax'[v][0] = NewMaxima(v)
    BY <1>0, <1>2, ExchangeMaxima
  <2> QED
    BY <1>4, <2>2, <2>3 DEF HistoryIndex
<1> QED
  BY <1>3, <1>4

LEMMA LoserCell ==
    ASSUME ZInv, phase = "WAIT_COUNTER_RECEIVE", NEW f \in Flows, NEW l \in CountedLevels,
           Reached(f, l)
    PROVE  LET u == NodeOfLevel(sendMax, f, l)
               h == HashIndex(f, l)
           IN  /\ u \in Nodes /\ u \in LevelNodes(l) /\ KArryTreeDepth(u) = l /\ h \in Cells
               /\ lost[f] <= Difference(u, h)
               /\ lost[f] > 0 => Difference(u, h) > 0
<1> DEFINE u == NodeOfLevel(sendMax, f, l)
           h == HashIndex(f, l)
<1>0. /\ TypeOK /\ attr \in Attributes /\ seq \in Levels /\ l \in Levels /\ phase \in Session
      /\ lost \in [Flows -> Nat]
  BY DEF ZInv, TypeOK, CountedLevels, Session
<1>1. u \in LevelNodes(l)
  BY <1>0, NodeOfLevelType DEF Reached
<1>2. u \in Nodes /\ KArryTreeDepth(u) = l /\ h \in Cells
  BY <1>0, <1>1, LevelOfNode, HashIndexType
<1>3. f \in FlowsOf(u, h) /\ FlowsOf(u, h) \in SUBSET Flows
  BY <1>0, <1>2, CellsOfFlow DEF FlowsOf
<1> HIDE DEF u, h
<1>4. Difference(u, h) \in Nat /\ Difference(u, h) = sendCnt[u][h] - recvCnt[u][h]
  BY <1>0, <1>2, CostsInSession
<1>5. recvCnt[u][h] + SumOn(FlowsOf(u, h), lost) = sendCnt[u][h]
  BY <1>0, <1>2 DEF ZInv, Metered, CellCounts
<1>6. recvCnt[u][h] \in Nat /\ SumOn(FlowsOf(u, h), lost) \in Nat
  BY <1>0, <1>2, <1>3, CellTypes, SumOnType
<1>7. lost[f] <= SumOn(FlowsOf(u, h), lost) /\ lost[f] \in Nat
  BY <1>0, <1>3, SumOnAtLeast
<1>8. lost[f] <= Difference(u, h) /\ (lost[f] > 0 => Difference(u, h) > 0)
  BY <1>4, <1>5, <1>6, <1>7
<1> QED
  BY <1>1, <1>2, <1>8 DEF u, h

(* A cell with a difference, in a level of the session, has a flow that    *)
(* lost a packet.                                                          *)
LEMMA DifferenceHasLoser ==
    ASSUME ZInv, phase = "WAIT_COUNTER_RECEIVE", NEW n \in Nodes, NEW c \in Cells,
           KArryTreeDepth(n) \in CountedLevels, Difference(n, c) # 0
    PROVE  \E f \in Flows : /\ lost[f] > 0
                            /\ n = NodeOfLevel(sendMax, f, KArryTreeDepth(n))
                            /\ c = HashIndex(f, KArryTreeDepth(n))
<1>0. /\ TypeOK /\ attr \in Attributes /\ seq \in Levels /\ phase \in Session
      /\ lost \in [Flows -> Nat]
  BY DEF ZInv, TypeOK, Session
<1>1. FlowsOf(n, c) \in SUBSET Flows
  BY DEF FlowsOf
<1>2. Difference(n, c) = sendCnt[n][c] - recvCnt[n][c]
  BY <1>0, CostsInSession
<1>3. recvCnt[n][c] + SumOn(FlowsOf(n, c), lost) = sendCnt[n][c]
  BY <1>0 DEF ZInv, Metered, CellCounts
<1>4. recvCnt[n][c] \in Nat /\ SumOn(FlowsOf(n, c), lost) \in Nat
  BY <1>0, <1>1, CellTypes, SumOnType
<1>5. SumOn(FlowsOf(n, c), lost) # 0
  BY <1>2, <1>3, <1>4
<1>6. PICK f \in FlowsOf(n, c) : lost[f] > 0
  BY <1>0, <1>1, <1>5, SumOnPositive
<1>7. f \in Flows /\ <<n, c>> \in CellsOf(sendMax, f)
  BY <1>6 DEF FlowsOf
<1> QED
  BY <1>0, <1>6, <1>7, CellsOfFlow

LEMMA SoleLoserFirst ==
    ASSUME ZInv, phase = "WAIT_COUNTER_RECEIVE", NEW f \in Flows, NEW l \in CountedLevels,
           Reached(f, l), SoleLoser(f)
    PROVE  /\ NewMaxima(NodeOfLevel(sendMax, f, l))[1] = HashIndex(f, l)
           /\ 1 \in 1 .. LayerSplit
<1> DEFINE u == NodeOfLevel(sendMax, f, l)
           h == HashIndex(f, l)
<1>0. attr \in Attributes /\ phase \in Session /\ lost[f] > 0
  BY DEF ZInv, TypeOK, Session, SoleLoser
<1>1. u \in Nodes /\ KArryTreeDepth(u) = l /\ h \in Cells /\ Difference(u, h) > 0
  BY <1>0, LoserCell
<1>2. \A c \in Cells : Cost(u, c) \in Fraction /\ Difference(u, c) \in Nat
  BY <1>0, <1>1, CostsInSession
<1>3. ASSUME NEW c \in Cells \ {h} PROVE Difference(u, c) = 0
  <2> SUFFICES ASSUME Difference(u, c) # 0 PROVE FALSE
    OBVIOUS
  <2>1. PICK g \in Flows : lost[g] > 0 /\ c = HashIndex(g, KArryTreeDepth(u))
    <3> HIDE DEF u, h
    <3> QED
      BY <1>1, <1>3, DifferenceHasLoser
  <2>2. g = f
    BY <2>1 DEF SoleLoser
  <2> QED
    BY <1>1, <1>3, <2>1, <2>2
<1> HIDE DEF u, h
<1>4. NewMaxima(u)[1] = h /\ 1 \in 1 .. LayerSplit
  BY <1>0, <1>1, <1>2, <1>3, OnlyLossRanksFirst
<1> QED
  BY <1>4 DEF u, h

(* A flow that alone lost packets is counted one level further down. *)
LEMMA ReachedNext ==
    ASSUME PInv, Exchange, NEW f \in Flows, NEW l \in CountedLevels, l + 1 \in Levels,
           Reached(f, l), SoleLoser(f)
    PROVE  NodeOfLevel(sendMax', f, l + 1) # NoNode
<1>0. ZInv /\ attr \in Attributes /\ phase = "WAIT_COUNTER_RECEIVE" /\ seq \in Levels
  BY DEF PInv, ZInv, TypeOK, Exchange
<1>1. l \in Levels /\ l \in Nat
  BY <1>0, Attribute DEF CountedLevels, Levels
<1> DEFINE u == NodeOfLevel(sendMax, f, l)
<1>2. u \in Nodes
  BY <1>0, LoserCell
<1>3. NewMaxima(u)[1] = HashIndex(f, l) /\ 1 \in 1 .. LayerSplit
  BY <1>0, SoleLoserFirst
<1>4. HistoryIndex(l + 1, l) = 0
  BY <1>1 DEF HistoryIndex
<1>5. sendMax'[u][HistoryIndex(l + 1, l)][1] = HashIndex(f, l)
  BY <1>0, <1>2, <1>3, <1>4, ExchangeMaxima
<1>6. Agree(sendMax, l, sendMax', l + 1, l)
  <2> SUFFICES ASSUME NEW k \in 0 .. l - 1, NEW v \in LevelNodes(k)
               PROVE  sendMax'[v][HistoryIndex(l + 1, k)] = sendMax[v][HistoryIndex(l, k)]
    BY DEF Agree
  <2>1. HistoryIndex(l + 1, k) = IF Pipeline THEN l - k ELSE 0
    BY <1>1 DEF HistoryIndex
  <2> QED
    BY <2>1, ExchangeKeeps
<1>7. u # NoNode
  BY DEF Reached
<1> QED
  BY <1>0, <1>1, <1>3, <1>5, <1>6, <1>7, WalkGrown

(* The path of a flow that the session counted in the last layer. *)
LEMMA ExchangePath ==
    ASSUME PInv, Exchange, Depth - 1 \in CountedLevels, NEW f \in Flows, Reached(f, Depth - 1)
    PROVE  PathUp(sendMax', NodeOfLevel(sendMax, f, Depth - 1), HashIndex(f, Depth - 1))
               = PathOf(f)
<1>0. attr \in Attributes /\ Depth \in Nat
  <2>1. attr \in Attributes
    BY DEF PInv, ZInv, TypeOK
  <2> QED
    BY <2>1, Attribute
<1>1. Kept(sendMax, sendMax')
  <2> SUFFICES ASSUME NEW l \in 0 .. Depth - 2, NEW v \in LevelNodes(l)
               PROVE  sendMax'[v][IF Pipeline THEN (Depth - 2 - l) + 1 ELSE 0]
                          = sendMax[v][HistoryIndex(Depth - 1, l)]
    BY DEF Kept
  <2>1. l \in 0 .. (Depth - 1) - 1 /\ (Depth - 2 - l) + 1 = (Depth - 1) - l
    BY <1>0
  <2> QED
    BY <2>1, ExchangeKeeps
<1> QED
  BY <1>0, <1>1, PathOfCountedFlow DEF Reached

LEMMA ReachedAfter ==
    ASSUME attr' = attr, NEW f, NEW n
    PROVE  Reached(f, n)' <=> NodeOfLevel(sendMax', f, n) # NoNode
BY DEF Reached, NodeOfLevel, HistoryIndex, HashIndex, Depth, LayerSplit, Width, Pipeline,
       NodesInTree, NoNode, FirstNode

LEMMA ExchangeSettled ==
    ASSUME PInv, Exchange
    PROVE  Settled'
<1>0. /\ ZInv /\ Settled /\ attr \in Attributes /\ seq \in Levels /\ attr' = attr
      /\ phase \in Session
  BY DEF PInv, ZInv, TypeOK, Exchange, Session
<1>1. /\ seq' = (seq + 1) % Depth /\ recvCnt' = recvCnt
      /\ sendCnt' = IF ResetTree THEN NoCounts ELSE sendCnt
  BY DEF Exchange
<1> SUFFICES ASSUME ~Pipeline, NEW n \in Nodes, KArryTreeDepth(n) < seq'
             PROVE  sendMax'[n][0] = NewMaxima(n)'
  BY <1>0, SameTree DEF Settled
<1>2. seq # Depth - 1
  <2>1. KArryTreeDepth(n) \in Nat
    BY <1>0, NodeHasLevel, Attribute DEF Levels
  <2> QED
    BY <1>0, <1>1, <2>1, NextSeq
<1>3. sendCnt' = sendCnt
  BY <1>1, <1>2 DEF ResetTree
<1>4. \A c \in Cells : Cost(n, c) \in Fraction
  BY <1>0, CostsInSession
<1>5. NewMaxima(n)' = NewMaxima(n)
  BY <1>0, <1>1, <1>3, <1>4, NewMaximaSame
<1> QED
  BY <1>0, <1>5, ExchangeMaxima

(* How the history variable of a flow grows. *)
LEMMA StreakStep ==
    ASSUME PInv, Exchange, NEW f \in Flows
    PROVE  /\ streak[f] \in Nat /\ streak[f] <= Depth
           /\ streak'[f] \in Nat
           /\ ~SoleLoser(f) => streak'[f] = 0
           /\ ~Pipeline /\ seq = 0 => streak'[f] <= 1
           /\ Pipeline \/ seq # 0 => streak'[f] <= streak[f] + 1
<1>0. /\ attr \in Attributes /\ streak \in [Flows -> 0 .. Depth]
      /\ streak'[f] = IF ~SoleLoser(f) THEN 0
                      ELSE IF ~Pipeline /\ seq = 0 THEN 1
                      ELSE Min({Depth, streak[f] + 1})
  BY DEF PInv, ZInv, TypeOK, Exchange
<1>1. Depth \in Nat /\ streak[f] \in Nat /\ streak[f] <= Depth /\ streak[f] + 1 \in Nat
  BY <1>0, Attribute
<1>2. /\ Min({Depth, streak[f] + 1}) \in Nat
      /\ Min({Depth, streak[f] + 1}) <= streak[f] + 1
  BY <1>1, MinType
<1> QED
  BY <1>0, <1>1, <1>2

LEMMA ExchangeFollowed ==
    ASSUME PInv, Exchange
    PROVE  Followed'
<1>0. /\ ZInv /\ Settled /\ Followed /\ attr \in Attributes /\ seq \in Levels
      /\ attr' = attr /\ seq' = (seq + 1) % Depth
  BY DEF PInv, ZInv, TypeOK, Exchange
<1>1. Depth \in Nat \ {0, 1} /\ seq \in Nat /\ seq <= Depth - 1 /\ 0 \in Levels
  BY <1>0, Attribute DEF Levels
<1>2. \A f \in Flows : NodeOfLevel(sendMax', f, 0) # NoNode /\ Reached(f, 0)
  BY <1>0, RootNode DEF Reached
<1>3. CASE Pipeline
  <2>1. ASSUME NEW f \in Flows, NEW n \in Levels, n <= streak'[f]
        PROVE  NodeOfLevel(sendMax', f, n) # NoNode
    <3>1. CASE n = 0
      BY <1>2, <3>1
    <3>2. CASE n # 0
      <4> DEFINE l == n - 1
      <4>1. n \in Nat /\ l \in Nat /\ l \in Levels /\ l + 1 = n /\ l \in CountedLevels
        BY <1>1, <1>3, <3>2 DEF Levels, CountedLevels
      <4>2. SoleLoser(f) /\ l <= streak[f]
        BY <1>3, <2>1, <3>2, <4>1, StreakStep
      <4> HIDE DEF l
      <4>3. Reached(f, l)
        BY <1>0, <1>3, <4>1, <4>2 DEF Followed
      <4>4. NodeOfLevel(sendMax', f, l + 1) # NoNode
        BY <4>1, <4>2, <4>3, ReachedNext
      <4> QED
        BY <4>1, <4>4
    <3> QED
      BY <3>1, <3>2
  <2> QED
    BY <1>0, <1>3, <2>1, ReachedAfter, SameTree DEF Followed
<1>4. CASE ~Pipeline /\ seq = Depth - 1
  <2>1. seq' = 0
    BY <1>0, <1>4, NextSeq
  <2>2. \A n \in 0 .. seq' : n = 0
    BY <2>1
  <2> QED
    BY <1>0, <1>2, <1>4, <2>1, <2>2, ReachedAfter, SameTree DEF Followed
<1>5. CASE ~Pipeline /\ seq # Depth - 1
  <2>1. seq' = seq + 1 /\ seq + 1 \in Levels /\ seq \in CountedLevels
    BY <1>0, <1>5, NextSeq DEF CountedLevels
  <2> SUFFICES ASSUME NEW f \in Flows
               PROVE  /\ streak'[f] <= seq + 1
                      /\ streak'[f] = seq + 1 => \A n \in 0 .. seq + 1 :
                            NodeOfLevel(sendMax', f, n) # NoNode
    BY <1>0, <1>5, <2>1, ReachedAfter, SameTree DEF Followed
  <2>2. seq # 0 => streak[f] <= seq
    BY <1>0, <1>5 DEF Followed
  <2>3. streak'[f] <= seq + 1
    BY <1>1, <1>5, <2>2, StreakStep
  <2>4. ASSUME streak'[f] = seq + 1, NEW n \in 0 .. seq + 1
        PROVE  NodeOfLevel(sendMax', f, n) # NoNode
    <3>1. SoleLoser(f) /\ (seq = 0 \/ streak[f] = seq)
      BY <1>1, <1>5, <2>2, <2>4, StreakStep
    <3>2. \A k \in 0 .. seq : Reached(f, k)
      <4>1. CASE seq = 0
        BY <1>2, <4>1
      <4>2. CASE streak[f] = seq
        BY <1>0, <1>5, <4>2 DEF Followed
      <4> QED
        BY <3>1, <4>1, <4>2
    <3>3. CASE n = seq + 1
      <4>1. Reached(f, seq)
        BY <1>1, <3>2
      <4> QED
        BY <2>1, <3>1, <3>3, <4>1, ReachedNext
    <3>4. CASE n \in 0 .. seq
      <4>1. n \in Levels /\ n \in Nat /\ n <= seq
        BY <1>1, <3>4 DEF Levels
      <4>2. Agree(sendMax, n, sendMax', n, n)
        <5> SUFFICES ASSUME NEW k \in 0 .. n - 1, NEW v \in LevelNodes(k)
                     PROVE  sendMax'[v][0] = sendMax[v][0]
          BY <1>5 DEF Agree, HistoryIndex
        <5>1. k \in Levels /\ k < seq
          BY <1>1, <4>1 DEF Levels
        <5>2. v \in Nodes /\ KArryTreeDepth(v) = k
          BY <1>0, <5>1, LevelOfNode
        <5>3. sendMax[v][0] = NewMaxima(v)
          BY <1>0, <1>5, <5>1, <5>2 DEF Settled
        <5> QED
          BY <1>0, <5>2, <5>3, ExchangeMaxima
      <4>3. NodeOfLevel(sendMax', f, n) = NodeOfLevel(sendMax, f, n)
        BY <1>0, <4>1, <4>2, WalkKept
      <4> QED
        BY <3>2, <3>4, <4>3 DEF Reached
    <3> QED
      BY <1>1, <2>4, <3>3, <3>4
  <2> QED
    BY <2>3, <2>4
<1> QED
  BY <1>3, <1>4, <1>5

(* The cells of the last layer that are reported have lost packets of the  *)
(* session.                                                                *)
LEMMA FaultyHasLoser ==
    ASSUME PInv, Exchange, NEW nc \in Faulty
    PROVE  /\ Depth - 1 \in CountedLevels
           /\ \E f \in Flows : /\ lost[f] > 0 /\ Reached(f, Depth - 1)
                               /\ nc[1] = NodeOfLevel(sendMax, f, Depth - 1)
                               /\ nc[2] = HashIndex(f, Depth - 1)
<1>0. /\ ZInv /\ TypeOK /\ attr \in Attributes /\ seq \in Levels
      /\ phase = "WAIT_COUNTER_RECEIVE" /\ phase \in Session
  BY DEF PInv, ZInv, TypeOK, Exchange, Session
<1> DEFINE n == nc[1]
           c == nc[2]
<1>1. n \in LastLayerIndex .. NodesInTree - 1 /\ c \in Cells /\ Above(Cost(n, c), MinCost)
  BY DEF Faulty
<1>2. n \in Nodes /\ n \in LevelNodes(Depth - 1) /\ KArryTreeDepth(n) = Depth - 1
  BY <1>0, <1>1, LastLayer
<1> HIDE DEF n, c
<1>3. Difference(n, c) # 0
  <2> SUFFICES ASSUME Difference(n, c) = 0 PROVE FALSE
    OBVIOUS
  <2>1. Cost(n, c) = <<0, 1>>
    BY DEF Cost
  <2>2. PICK p \in Nat, q \in Nat : MinCost = <<p, q>>
    BY ZoomTreeAssumption DEF ZoomTreeAssumption
  <2> QED
    BY <1>1, <2>1, <2>2 DEF Above
<1>4. Depth \in Nat \ {0, 1} /\ Depth - 1 \in Levels /\ seq \in Nat /\ seq <= Depth - 1
  BY <1>0, Attribute DEF Levels
<1>5. Depth - 1 \in CountedLevels
  <2>1. CASE Pipeline \/ seq = Depth - 1
    BY <1>4, <2>1 DEF CountedLevels
  <2>2. CASE ~Pipeline /\ seq # Depth - 1
    <3>1. KArryTreeDepth(n) > seq
      BY <1>2, <1>4, <2>2
    <3>2. sendCnt[n][c] = 0 /\ recvCnt[n][c] <= sendCnt[n][c]
      BY <1>0, <1>1, <1>2, <2>2, <3>1 DEF ZInv, Metered, CellCounts
    <3>3. recvCnt[n][c] = 0
      BY <1>0, <1>1, <1>2, <3>2, CellTypes
    <3>4. Difference(n, c) = 0
      BY <1>0, <1>1, <1>2, <3>2, <3>3, CostsInSession
    <3> QED
      BY <1>3, <3>4
  <2> QED
    BY <2>1, <2>2
<1>6. PICK f \in Flows : /\ lost[f] > 0
                         /\ n = NodeOfLevel(sendMax, f, Depth - 1)
                         /\ c = HashIndex(f, Depth - 1)
  BY <1>0, <1>1, <1>2, <1>3, <1>5, DifferenceHasLoser
<1>7. Reached(f, Depth - 1)
  BY <1>0, <1>2, <1>4, <1>6, LevelNodesFacts DEF Reached
<1> QED
  BY <1>5, <1>6, <1>7 DEF n, c

LEMMA ExchangeReports ==
    ASSUME Exchange
    PROVE  \A p : p \in detected' \cup collided' <=>
                      \E nc \in Faulty : p = PathUp(sendMax', nc[1], nc[2])
BY DEF Exchange, Ambiguous

LEMMA ExchangePaths ==
    ASSUME PInv, Exchange
    PROVE  PathsBlameLosers'
<1>0. OnlyLossyLose /\ attr' = attr /\ lost' = lost
  BY DEF PInv, Exchange
<1> SUFFICES ASSUME NEW p \in detected' \cup collided'
             PROVE  \E f \in LossyFlows : PathOf(f)' = p /\ lost'[f] > 0
  BY DEF PathsBlameLosers
<1>1. PICK nc \in Faulty : p = PathUp(sendMax', nc[1], nc[2])
  BY ExchangeReports
<1>2. /\ Depth - 1 \in CountedLevels
      /\ \E f \in Flows : /\ lost[f] > 0 /\ Reached(f, Depth - 1)
                          /\ nc[1] = NodeOfLevel(sendMax, f, Depth - 1)
                          /\ nc[2] = HashIndex(f, Depth - 1)
  BY <1>1, FaultyHasLoser
<1>3. PICK f \in Flows : /\ lost[f] > 0 /\ Reached(f, Depth - 1)
                         /\ nc[1] = NodeOfLevel(sendMax, f, Depth - 1)
                         /\ nc[2] = HashIndex(f, Depth - 1)
  BY <1>2
<1>4. p = PathOf(f)
  BY <1>1, <1>2, <1>3, ExchangePath
<1>5. f \in LossyFlows
  BY <1>0, <1>3 DEF OnlyLossyLose
<1> QED
  BY <1>0, <1>3, <1>4, <1>5, SamePath

LEMMA ExchangeFound ==
    ASSUME PInv, Exchange
    PROVE  FoundWithinDepth'
<1>0. /\ ZInv /\ TypeOK /\ Followed /\ attr \in Attributes /\ seq \in Levels
      /\ phase = "WAIT_COUNTER_RECEIVE" /\ phase \in Session
      /\ attr' = attr /\ seq' = (seq + 1) % Depth
  BY DEF PInv, ZInv, TypeOK, Exchange, Session
<1>1. Depth \in Nat \ {0, 1} /\ Depth - 1 \in Levels /\ seq \in Nat /\ seq <= Depth - 1
  BY <1>0, Attribute DEF Levels
<1> SUFFICES ASSUME MinCost[1] = 0, NEW f \in Flows, streak'[f] = Depth,
                    Pipeline \/ seq' = 0
             PROVE  PathOf(f) \in detected' \cup collided'
  <2>1. \A g : PathOf(g)' = PathOf(g)
    BY <1>0, SamePath
  <2> QED
    BY <1>0, <2>1, SameTree DEF FoundWithinDepth
<1>2. SoleLoser(f) /\ (Pipeline \/ seq = Depth - 1)
  BY <1>0, <1>1, StreakStep, NextSeq
<1>3. streak[f] >= Depth - 1 /\ streak[f] \in Nat
  BY <1>1, <1>2, StreakStep
<1>4. Depth - 1 \in CountedLevels
  BY <1>1, <1>2 DEF CountedLevels
<1>5. Reached(f, Depth - 1)
  <2>1. CASE Pipeline
    BY <1>0, <1>1, <1>3, <2>1 DEF Followed
  <2>2. CASE ~Pipeline
    <3>1. seq = Depth - 1 /\ seq # 0 /\ Depth - 1 \in 0 .. seq
      BY <1>1, <1>2, <2>2
    <3>2. streak[f] <= seq
      BY <1>0, <2>2, <3>1 DEF Followed
    <3>3. streak[f] = seq
      BY <1>1, <1>3, <3>1, <3>2
    <3> QED
      BY <1>0, <2>2, <3>1, <3>3 DEF Followed
  <2> QED
    BY <2>1, <2>2
<1> DEFINE u == NodeOfLevel(sendMax, f, Depth - 1)
           h == HashIndex(f, Depth - 1)
<1>6. lost[f] > 0
  BY <1>2 DEF SoleLoser
<1>7. u \in Nodes /\ u \in LevelNodes(Depth - 1) /\ h \in Cells /\ Difference(u, h) > 0
  BY <1>0, <1>4, <1>5, <1>6, LoserCell
<1>8. PathUp(sendMax', u, h) = PathOf(f)
  BY <1>4, <1>5, ExchangePath
<1> HIDE DEF u, h
<1>9. u \in LastLayerIndex .. NodesInTree - 1
  <2>1. (Depth - 1) + 1 = Depth
    BY <1>1
  <2> QED
    BY <1>7, <2>1 DEF LevelNodes, LastLayerIndex, NodesInTree
<1>10. Above(Cost(u, h), MinCost)
  <2>1. Cost(u, h) \in Fraction /\ Difference(u, h) \in Nat
    BY <1>0, <1>7, CostsInSession
  <2>2. Cost(u, h)[1] = Difference(u, h)
    BY DEF Cost
  <2>3. PICK x \in Nat \ {0}, y \in Nat : Cost(u, h) = <<x, y>>
    BY <1>7, <2>1, <2>2 DEF Fraction
  <2>4. PICK q \in Nat \ {0} : MinCost = <<0, q>>
    BY ZoomTreeAssumption DEF ZoomTreeAssumption
  <2>5. x * q > 0 /\ 0 * y = 0
    BY <2>3, <2>4
  <2> QED
    BY <2>3, <2>4, <2>5 DEF Above
<1>11. <<u, h>> \in Faulty
  BY <1>7, <1>9, <1>10 DEF Faulty
<1>12. <<u, h>>[1] = u /\ <<u, h>>[2] = h
  OBVIOUS
<1>13. \E nc \in Faulty : PathOf(f) = PathUp(sendMax', nc[1], nc[2])
  BY <1>8, <1>11, <1>12
<1> QED
  BY <1>13, ExchangeReports

LEMMA ExchangeP ==
    ASSUME PInv, Exchange
    PROVE  PInv'
<1>1. ZInv'
  BY ExchangeZ DEF PInv
<1>2. OnlyLossyLose'
  BY DEF PInv, OnlyLossyLose, Exchange
<1> QED
  BY <1>1, <1>2, ExchangeSettled, ExchangeFollowed, ExchangePaths, ExchangeFound DEF PInv

LEMMA NextP ==
    ASSUME PInv, [Next]_vars
    PROVE  PInv'
BY SessionStepP, ExchangeP, StutterP DEF Next

LEMMA AlwaysP == Spec => []PInv
<1>1. Init => PInv
  BY InitP
<1>2. PInv /\ [Next]_vars => PInv'
  BY NextP
<1> QED
  BY <1>1, <1>2, PTL DEF Spec

(* Every path that an exchange reports or records as a collision is the     *)
(* path of a flow that lost a packet in the session just compared: hash_path *)
(* is read from maxima that the exchange has already shifted or chosen anew, *)
(* for every node above the reported one, and still retraces the cells that  *)
(* PacketCounting went down through.                                        *)
THEOREM PathsAlwaysBlameLosers == Spec => []PathsBlameLosers
<1>1. PInv => PathsBlameLosers
  BY DEF PInv
<1> QED
  BY <1>1, AlwaysP, PTL

(* A flow that alone loses packets in as many sessions in a row as the tree *)
(* is deep is reported, or recorded as a collision, by the exchange of the  *)
(* last of them, for every depth, split and width, with the pipeline or     *)
(* without, whatever the boost skips and whatever was zoomed into before.   *)
THEOREM AlwaysFoundWithinDepth == Spec => []FoundWithinDepth
<1>1. PInv => FoundWithinDepth
  BY DEF PInv
<1> QED
  BY <1>1, AlwaysP, PTL
=============================================================================
