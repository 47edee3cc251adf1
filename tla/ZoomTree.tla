----------------------------- MODULE ZoomTree -----------------------------
(***************************************************************************)
(* The zooming tree of P4SwitchFancy on one direction of a link, session   *)
(* by session: both ends count the packets of a session in the cells of a  *)
(* tree of hash tables, the downstream end sends its cells back, and the   *)
(* upstream end looks for the cells that lost most.  A cell that did is    *)
(* zoomed into in a later session; a cell of the last layer is reported,   *)
(* as a path of hashes, and flows with that path are rerouted.             *)
(*                                                                         *)
(* Messages are abstracted here: FancyFSM shows when both ends take part   *)
(* in the same session and count the same packets.  The link is FIFO, so a *)
(* counted packet arrives, or is lost, before the STOP behind it, and one  *)
(* action counts it at both ends.  currentSEQ appears modulo the depth,    *)
(* which is all the tree reads of it.  The early stop of the simulation    *)
(* (EarlyStopCounter) only cuts a behaviour short and is left out.         *)
(*                                                                         *)
(* An operator that stands just before a definition and is used nowhere is *)
(* a faulty variant of it, kept to show that the properties notice it.     *)
(***************************************************************************)
EXTENDS Sums, FiniteSetsExt

CONSTANTS
    Flows,          \* five-tuples or prefixes, as PacketHashType says
    LossyFlows,     \* the flows the link may lose packets of
    ControlFlow,    \* the all-zero five-tuple of a message of the protocol
    Hash,           \* the hash of a flow for each level, before the modulo
    CellBit,        \* the bit of a flow in the Bloom filter of its cell
    RerouteBits(_), \* the indexes of a path in the reroute Bloom filter
    CounterMod,     \* the cells are unsigned, modulo this (2^32)
    MaxCollisions,  \* m_maxCounterCollisions
    MinCost,        \* m_rerouteMinCost, a fraction <<p, q>>
    Attributes,     \* the settings of the other attributes to consider
    MaxPackets      \* bound: packets of a flow in a session

VARIABLES
    attr,     \* the attributes of the switches, fixed before the simulation
    phase,    \* greyState of the sender
    seq,      \* currentSEQ modulo the depth
    sendMax, recvMax,  \* max_cells of both ends, [node][history] -> cells
    sendCnt, recvCnt,  \* counters of both ends, [node][cell]
    bits,     \* bloom_filter of the sender's cells, the bits set
    reroute,  \* the bits set in the port's reroute Bloom filter
    detected, \* the paths reported by the last exchange
    collided, \* the paths of the collision events of the last exchange
    sent, lost, \* history: packets of the session counted, and lost
    streak    \* history: sessions in a row in which a flow alone lost packets

Depth == attr.depth                        \* m_treeDepth
LayerSplit == attr.layerSplit              \* m_layerSplit
Width == attr.width                        \* m_counterWidth
Pipeline == attr.pipeline                  \* m_pipeline
Boost == attr.boost                        \* m_pipelineBoost
Reroute == attr.reroute                    \* m_rerouteEnabled
RelativeCost == attr.relativeCost          \* m_costType
UniformThreshold == attr.uniformThreshold  \* m_uniformLossThreshold, 0 for none

Levels == 0 .. Depth - 1
Cells == 0 .. Width - 1

(* pow, for natural numbers: b^n as a function the proofs can unfold. *)
Pow(b, n) ==
    LET pow[i \in Nat] == IF i = 0 THEN 1 ELSE b * pow[i - 1]
    IN pow[n]

(* m_nodesInTree and last_layer_index *)
FirstNode(l) ==
    IF LayerSplit = 1 THEN l ELSE (Pow(LayerSplit, l) - 1) \div (LayerSplit - 1)
NodesInTree == FirstNode(Depth)
Nodes == 0 .. NodesInTree - 1
LastLayerIndex == FirstNode(Depth - 1)

(* The level of node n.  The code's function truncates a quotient of doubles, *)
(* which is one too small for some nodes of large trees (split 10, node 111). *)
(* It uses the result in logs and in the record of soft detections only; where*)
(* the model asks for a level, the code counts levels in a loop.              *)
KArryTreeDepth(n) ==
    IF LayerSplit = 1 THEN n
    ELSE CHOOSE l \in Levels :
            LET v == n * (LayerSplit - 1) + 1
            IN Pow(LayerSplit, l) <= v /\ v < Pow(LayerSplit, l + 1)

ASSUME ZoomTreeAssumption ==
    /\ IsFiniteSet(Flows) /\ LossyFlows \subseteq Flows
    /\ CounterMod \in Nat /\ MaxPackets \in [Flows -> Nat] /\ MaxCollisions \in Nat
    /\ MinCost \in Nat \X (Nat \ {0})
    \* The cells of a session do not overflow.
    /\ SumOf(MaxPackets) < CounterMod
    /\ \A a \in Attributes :
        /\ a.depth \in Nat \ {0, 1} /\ a.layerSplit \in Nat \ {0}
        /\ a.width \in Nat /\ a.width >= a.layerSplit
        /\ {a.pipeline, a.boost, a.reroute, a.relativeCost} \subseteq BOOLEAN
        /\ a.uniformThreshold \in Nat
        \* The boost reads max_cells[2]: a shallower tree has none.
        /\ a.pipeline /\ a.boost => a.depth >= 3
        /\ \A f \in Flows \cup {ControlFlow}, l \in 0 .. a.depth - 1 : Hash[f][l] \in Nat
        /\ \A f \in Flows, l \in 0 .. a.depth - 1 : CellBit[f][l] \in Nat
        /\ \A p \in [0 .. a.depth - 1 -> 0 .. a.width - 1] : RerouteBits(p) \subseteq Nat

nodeVars == <<sendMax, recvMax, sendCnt, recvCnt, bits>>
verdictVars == <<reroute, detected, collided>>
historyVars == <<sent, lost, streak>>
vars == <<attr, phase, seq, nodeVars, verdictVars, historyVars>>

NoCounts == [n \in Nodes |-> [c \in Cells |-> 0]]
NoBits == [n \in Nodes |-> [c \in Cells |-> {}]]
NoMaxima == [n \in Nodes |-> [k \in Levels |-> [i \in 1 .. LayerSplit |-> 0]]]
NoPackets == [f \in Flows |-> 0]

Init ==
    /\ attr \in Attributes
    /\ phase = "IDLE" /\ seq = 0
    /\ sendMax = NoMaxima /\ recvMax = NoMaxima
    /\ sendCnt = NoCounts /\ recvCnt = NoCounts /\ bits = NoBits
    /\ reroute = {} /\ detected = {} /\ collided = {}
    /\ sent = NoPackets /\ lost = NoPackets /\ streak = NoPackets

-----------------------------------------------------------------------------
(* Counting: a flow is counted in a node when, from the root down, its cell *)
(* is among the maxima.  The pipelined tree looks each level up in the      *)
(* maxima that were new when the levels below it started.                   *)

NoNode == NodesInTree

HashIndex(f, l) == Hash[f][l] % Width
PathOf(f) == [l \in Levels |-> HashIndex(f, l)]

HistoryIndex(n, l) == IF Pipeline THEN n - 1 - l ELSE 0

(* The node of level n in which flow f is counted, with the maxima max. *)
NodeOfLevel(max, f, n) ==
    LET node[l \in 0 .. n] ==
            IF l = 0 THEN 0
            ELSE LET up == node[l - 1]
                     hits == {i \in 1 .. LayerSplit :
                                max[up][HistoryIndex(n, l - 1)][i] = HashIndex(f, l - 1)}
                 IN IF up = NoNode \/ hits = {} THEN NoNode
                    ELSE up * LayerSplit + Min(hits)
    IN node[n]

CountedLevels == IF Pipeline THEN Levels ELSE {seq}

(* PipelinedPacketCounting and PacketCounting: the cells of flow f. *)
CellsOf(max, f) ==
    {<<NodeOfLevel(max, f, n), HashIndex(f, n)>> : n \in CountedLevels}
        \ ({NoNode} \X Cells)

PacketCounting(cnt, max, f) ==
    LET cells == CellsOf(max, f)
    IN [n \in Nodes |-> [c \in Cells |->
           IF <<n, c>> \in cells THEN (cnt[n][c] + 1) % CounterMod ELSE cnt[n][c]]]

SetCellBits(f) ==
    LET cells == CellsOf(sendMax, f)
    IN [n \in Nodes |-> [c \in Cells |->
           IF <<n, c>> \in cells
           THEN bits[n][c] \cup {CellBit[f][KArryTreeDepth(n)]} ELSE bits[n][c]]]

(* IsBloomFilterSet; the ingress drops a packet whose path is in the filter. *)
Rerouted(path) == Reroute /\ RerouteBits(path) \subseteq reroute

(* A packet of flow f passes the ingress, is counted by the egress of the   *)
(* sender, and by the ingress of the receiver unless the link loses it.     *)
Count(f, arrives) ==
    /\ phase = "COUNTING" /\ sent[f] < MaxPackets[f]
    /\ ~Rerouted(PathOf(f))
    /\ arrives \/ f \in LossyFlows
    /\ sendCnt' = PacketCounting(sendCnt, sendMax, f)
    /\ bits' = SetCellBits(f)
    /\ recvCnt' = IF arrives THEN PacketCounting(recvCnt, recvMax, f) ELSE recvCnt
    /\ sent' = [sent EXCEPT ![f] = @ + 1]
    /\ lost' = IF arrives THEN lost ELSE [lost EXCEPT ![f] = @ + 1]
    /\ UNCHANGED <<attr, phase, seq, sendMax, recvMax, verdictVars, streak>>

-----------------------------------------------------------------------------
(* A session starts: the START carries the sender's newest maxima.          *)

Shifted(history, newest) ==
    [k \in Levels |-> IF k = 0 THEN newest ELSE history[k - 1]]
Overwritten(history, newest) == [history EXCEPT ![0] = newest]
Updated(history, newest) ==
    IF Pipeline THEN Shifted(history, newest) ELSE Overwritten(history, newest)

(* PipelinedInitReceiverStep and InitReceiverStep; the maxima are taken over *)
(* from the first START of a session only (shift_history).                   *)
InitReceiverStepAlways(shift_history) ==
    /\ recvMax' = [n \in Nodes |-> Updated(recvMax[n], sendMax[n][0])]
    /\ recvCnt' = IF Pipeline \/ seq = 0 THEN NoCounts ELSE recvCnt
InitReceiverStep(shift_history) ==
    /\ recvMax' = IF shift_history
                  THEN [n \in Nodes |-> Updated(recvMax[n], sendMax[n][0])]
                  ELSE recvMax
    /\ recvCnt' = IF Pipeline \/ seq = 0 THEN NoCounts ELSE recvCnt

Start ==
    /\ phase = "IDLE"
    /\ phase' = "START_ACK"
    /\ InitReceiverStep(TRUE)
    /\ detected' = {} /\ collided' = {}
    /\ sent' = NoPackets /\ lost' = NoPackets
    /\ UNCHANGED <<attr, seq, sendMax, sendCnt, bits, reroute, streak>>

(* The acknowledgement was lost or is late, and the START is sent again. *)
RepeatStart ==
    /\ phase = "START_ACK"
    /\ InitReceiverStep(FALSE)
    /\ UNCHANGED <<attr, phase, seq, sendMax, sendCnt, bits, verdictVars, historyVars>>

(* Answers of the receiver pass the sender's ingress, with an all-zero flow *)
(* and this port as output port: the reroute filter drops them too.         *)
ControlPasses == ~Rerouted(PathOf(ControlFlow))

AckStart ==
    /\ phase = "START_ACK" /\ ControlPasses
    /\ phase' = "COUNTING"
    /\ UNCHANGED <<attr, seq, nodeVars, verdictVars, historyVars>>

Stop ==
    /\ phase = "COUNTING"
    /\ phase' = "WAIT_COUNTER_RECEIVE"
    /\ UNCHANGED <<attr, seq, nodeVars, verdictVars, historyVars>>

-----------------------------------------------------------------------------
(* The exchange: PipelinedCounterExchangeAlgorithm, CounterExchangeAlgorithm *)

Difference(n, c) == (sendCnt[n][c] - recvCnt[n][c]) % CounterMod

(* Costs are fractions; a cell without losses has cost 0 in both types. *)
Cost(n, c) ==
    IF RelativeCost /\ Difference(n, c) # 0
    THEN <<Difference(n, c), sendCnt[n][c]>> ELSE <<Difference(n, c), 1>>
Above(a, b) == a[1] * b[2] > b[1] * a[2]

(* std::sort by sortbysec; equal costs keep the order of the cells, as they *)
(* do for the up to 16 elements that libstdc++ sorts by insertion.          *)
SortedBefore(n, d, c) ==
    \/ Above(Cost(n, d), Cost(n, c))
    \/ d < c /\ ~Above(Cost(n, c), Cost(n, d))

(* The boost takes first, in that order, cells with losses that were no     *)
(* maximum of the two exchanges before, and then the others (backup).       *)
Preferred(n, c) ==
    /\ Pipeline /\ Boost /\ Difference(n, c) > 0
    /\ \A k \in {0, 1}, i \in 1 .. LayerSplit : sendMax[n][k][i] # c
TakenBefore(n, d, c) ==
    IF Preferred(n, d) <=> Preferred(n, c) THEN SortedBefore(n, d, c) ELSE Preferred(n, d)

Rank(n, c) == 1 + Cardinality({d \in Cells : TakenBefore(n, d, c)})
SortedCellsAscending(n) ==
    [r \in 1 .. Width |-> CHOOSE c \in Cells : Rank(n, c) = Width + 1 - r]
SortedCells(n) == [r \in 1 .. Width |-> CHOOSE c \in Cells : Rank(n, c) = r]

(* The new maxima of a node. *)
NewMaximaOneMore(n) ==
    LET sorted == SortedCells(n) IN [i \in 1 .. LayerSplit + 1 |-> sorted[i]]
NewMaximaCleared(n) == [i \in 1 .. LayerSplit |-> 0]
NewMaxima(n) ==
    LET sorted == SortedCells(n) IN [i \in 1 .. LayerSplit |-> sorted[i]]

(* hash_path: from cell c of a last-layer node n up through the maxima max, *)
(* which the exchange has updated for every node above n.                   *)
PathUpNewest(max, n, c) ==
    LET up[t \in Levels] == IF t = 0 THEN n ELSE (up[t - 1] - 1) \div LayerSplit
    IN [l \in Levels |->
           IF l = Depth - 1 THEN c
           ELSE LET t == Depth - 2 - l
                IN max[up[t + 1]][0][up[t] - LayerSplit * up[t + 1]]]
PathUp(max, n, c) ==
    LET up[t \in Levels] == IF t = 0 THEN n ELSE (up[t - 1] - 1) \div LayerSplit
    IN [l \in Levels |->
           IF l = Depth - 1 THEN c
           ELSE LET t == Depth - 2 - l
                IN max[up[t + 1]][IF Pipeline THEN t + 1 ELSE 0]
                      [up[t] - LayerSplit * up[t + 1]]]

(* The cells of the last layer that lost too much, and the ambiguous ones. *)
Faulty == {nc \in (LastLayerIndex .. NodesInTree - 1) \X Cells :
               Above(Cost(nc[1], nc[2]), MinCost)}
Ambiguous == {nc \in Faulty : Cardinality(bits[nc[1]][nc[2]]) > MaxCollisions}

UniformLoss ==
    /\ Pipeline /\ UniformThreshold > 0
    /\ Cardinality({c \in Cells : Difference(0, c) # 0}) >= UniformThreshold

SetBloomFilter(paths) == UNION {RerouteBits(p) : p \in paths}

ResetTree == Pipeline \/ seq = Depth - 1

(* History: f is the only flow that lost packets in this session. *)
SoleLoser(f) == \A g \in Flows : lost[g] > 0 <=> g = f

Exchange ==
    /\ phase = "WAIT_COUNTER_RECEIVE" /\ ControlPasses
    /\ sendMax' = [n \in Nodes |-> Updated(sendMax[n], NewMaxima(n))]
    /\ detected' = {PathUp(sendMax', nc[1], nc[2]) : nc \in Faulty \ Ambiguous}
    /\ collided' = {PathUp(sendMax', nc[1], nc[2]) : nc \in Ambiguous}
    /\ reroute' = reroute \cup SetBloomFilter(detected')
    /\ sendCnt' = IF ResetTree THEN NoCounts ELSE sendCnt
    /\ bits' = IF ResetTree THEN NoBits ELSE bits
    /\ phase' = IF UniformLoss THEN "ENDED" ELSE "IDLE"   \* Simulator::Stop
    /\ seq' = (seq + 1) % Depth
    /\ streak' = [f \in Flows |->
           IF ~SoleLoser(f) THEN 0
           ELSE IF ~Pipeline /\ seq = 0 THEN 1
           ELSE Min({Depth, streak[f] + 1})]
    /\ UNCHANGED <<attr, recvMax, recvCnt, sent, lost>>

Next ==
    \/ Start \/ RepeatStart \/ AckStart \/ Stop \/ Exchange
    \/ \E f \in Flows, arrives \in BOOLEAN : Count(f, arrives)

(* The machines of a session always have a timer that repeats what was not  *)
(* answered, so on a link that does not lose every message each session     *)
(* ends (FancyFSM).                                                         *)
Fairness == WF_vars(Start) /\ WF_vars(AckStart) /\ WF_vars(Stop) /\ WF_vars(Exchange)

Spec == Init /\ [][Next]_vars /\ Fairness

-----------------------------------------------------------------------------
(* Types: maxima are cells, histories are Depth long, counters stay below   *)
(* their modulus.                                                           *)
TypeOK ==
    /\ attr \in Attributes
    /\ phase \in {"IDLE", "START_ACK", "COUNTING", "WAIT_COUNTER_RECEIVE", "ENDED"}
    /\ seq \in Levels
    /\ {sendMax, recvMax} \subseteq [Nodes -> [Levels -> [1 .. LayerSplit -> Cells]]]
    /\ {sendCnt, recvCnt} \subseteq [Nodes -> [Cells -> 0 .. CounterMod - 1]]
    /\ bits \in [Nodes -> [Cells -> SUBSET Nat]]
    /\ reroute \in SUBSET Nat
    /\ detected \cup collided \in SUBSET [Levels -> Cells]
    /\ {sent, lost} \subseteq [Flows -> Nat]
    /\ \A f \in Flows : lost[f] <= sent[f] /\ sent[f] <= MaxPackets[f]
    /\ streak \in [Flows -> 0 .. Depth]

(* When the cells are compared, the difference of a cell is the number of   *)
(* packets that were lost, in this session, of the flows the sender counts  *)
(* in it: the two ends choose cells by their own copy of the maxima, which  *)
(* they update at different times, and a repeated START must not make them  *)
(* differ.                                                                  *)
DifferencesAreLosses ==
    phase = "WAIT_COUNTER_RECEIVE" =>
        LET cells == [f \in Flows |-> CellsOf(sendMax, f)]
        IN \A n \in Nodes, c \in Cells : KArryTreeDepth(n) \in CountedLevels =>
               Difference(n, c) =
                   SumOf([f \in {f \in Flows : <<n, c>> \in cells[f]} |-> lost[f]])

(* A path that the exchange reports is the path of a flow that lost a       *)
(* packet in the session: the way up, through maxima that were shifted      *)
(* since the session's packets were counted, finds the cells they went down *)
(* through, and no innocent flow is rerouted but for a filter's false hit.  *)
PathsBlameLosers ==
    phase \in {"IDLE", "ENDED"} =>
        \A p \in detected \cup collided :
            \E f \in LossyFlows : PathOf(f) = p /\ lost[f] > 0

(* A flow that is the only one to lose packets in Depth sessions in a row   *)
(* (in a tree without pipeline, in a round from the root down) is reported, *)
(* unless too many flows share its path, whatever the tree zoomed into      *)
(* before and whichever cells the boost avoids.                             *)
FoundWithinDepth ==
    phase \in {"IDLE", "ENDED"} /\ MinCost[1] = 0 =>
        \A f \in Flows :
            streak[f] = Depth /\ (Pipeline \/ seq = 0) =>
                PathOf(f) \in detected \cup collided

(* If in every session each lossy flow that is not rerouted yet loses a     *)
(* packet, then in the end all of them are rerouted, or a collision is      *)
(* recorded, or the simulation is stopped for uniform loss, or the filter   *)
(* drops the protocol's own messages and no session ends any more.          *)
AllFailuresRerouted ==
    (Reroute /\ [](phase = "WAIT_COUNTER_RECEIVE" =>
                     \A f \in LossyFlows : Rerouted(PathOf(f)) \/ lost[f] > 0))
        => <>(\/ \A f \in LossyFlows : Rerouted(PathOf(f))
              \/ collided # {} \/ phase = "ENDED" \/ ~ControlPasses)
=============================================================================
