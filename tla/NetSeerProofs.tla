--------------------------- MODULE NetSeerProofs ---------------------------
(***************************************************************************)
(* Proofs about NetSeer, for every size of the ring and of the cache, every*)
(* hash and every order of losses: a packet reported as lost was lost, and *)
(* no loss is forgotten.                                                   *)
(*                                                                         *)
(* The link is FIFO, so the numbers on it ascend from rNext (InOrder), and *)
(* a number from rNext on is either on the link or lost (Known).  A gap    *)
(* therefore holds lost packets only (NacksReal).  The last BufferSize     *)
(* packets are in the ring, each in its own cell (RingHolds), so that      *)
(* CheckPacketLosses misses a number only if it was overwritten.           *)
(***************************************************************************)
EXTENDS NetSeer, SumsProofs

InOrder ==
    /\ \A i \in 1 .. Len(fwd) :
           rNext <= fwd[i] /\ fwd[i] < sNext /\ fwd[i] \notin lost
    /\ \A i, j \in 1 .. Len(fwd) : i < j => fwd[i] < fwd[j]

Known ==
    /\ \A s \in Nat : rNext <= s /\ s < sNext =>
           s \in lost \/ \E i \in 1 .. Len(fwd) : fwd[i] = s
    /\ \A s \in lost : s < sNext

NacksReal ==
    /\ \A i \in 1 .. Len(bwd) : Gap(bwd[i]) \subseteq lost
    /\ Gap(loop) \subseteq lost

RingHolds ==
    \A s \in Nat : s < sNext /\ sNext <= s + BufferSize =>
        /\ ring[s % BufferSize].seq = s
        /\ ring[s % BufferSize].reported => s \in found

IInv ==
    /\ TypeOK /\ InOrder /\ Known /\ NacksReal /\ RingHolds
    /\ OnlyRealLosses /\ NoLossForgotten

-----------------------------------------------------------------------------
(* Sequences and gaps. *)

LEMMA TailFacts ==
    ASSUME NEW T, NEW q \in Seq(T), q # <<>>
    PROVE  /\ Len(q) \in Nat \ {0}
           /\ Head(q) = q[1] /\ Head(q) \in T
           /\ Tail(q) \in Seq(T)
           /\ Len(Tail(q)) = Len(q) - 1
           /\ \A i \in 1 .. Len(q) - 1 : Tail(q)[i] = q[i + 1]
  OBVIOUS

LEMMA AppendFacts ==
    ASSUME NEW T, NEW q \in Seq(T), NEW e \in T
    PROVE  /\ Len(q) \in Nat
           /\ Append(q, e) \in Seq(T)
           /\ Len(Append(q, e)) = Len(q) + 1
           /\ \A i \in 1 .. Len(q) : Append(q, e)[i] = q[i]
           /\ Append(q, e)[Len(q) + 1] = e
  OBVIOUS

LEMMA GapOfPair ==
    ASSUME NEW a \in Nat, NEW b \in Nat
    PROVE  Gap(<<a, b>>) = a .. b - 1
  BY DEF Gap

LEMMA PairParts ==
    ASSUME NEW p \in Nat \X Nat
    PROVE  /\ p[1] \in Nat /\ p[2] \in Nat /\ p = <<p[1], p[2]>>
           /\ Gap(p) = p[1] .. p[2] - 1
  BY DEF Gap

(* A cell of the ring is used again after exactly BufferSize packets. *)
LEMMA OwnCell ==
    ASSUME NEW s \in Nat, NEW t \in Nat, s < t, t < s + BufferSize
    PROVE  s % BufferSize # t % BufferSize
<1> SUFFICES ASSUME s % BufferSize = t % BufferSize
             PROVE  FALSE
  OBVIOUS
<1>1. BufferSize \in Nat /\ 0 < BufferSize
  BY NetSeerAssumption
<1> DEFINE b == BufferSize
           p == s \div b
           q == t \div b
<1>2. /\ p \in Int /\ q \in Int
      /\ s = b * p + (s % b) /\ t = b * q + (t % b)
  BY <1>1
<1>3. s % b \in Int /\ t % b \in Int
  BY <1>1
<1> HIDE DEF p, q, b
<1>4. b \in Int /\ 0 < b /\ t < s + b /\ s % b = t % b
  BY <1>1 DEF b
<1>5. b * q - b * p = b * (q - p)
  BY <1>2, <1>4
<1>6. b * p \in Int /\ b * q \in Int
  BY <1>2, <1>4
<1>7. 0 < b * (q - p) /\ b * (q - p) < b
  BY <1>2, <1>3, <1>4, <1>5, <1>6
<1>8. \A d \in Int : d <= 0 => b * d <= 0
  BY <1>4
<1>9. \A d \in Int : 1 <= d => b <= b * d
  BY <1>4
<1>10. q - p \in Int /\ (q - p <= 0 \/ 1 <= q - p)
  BY <1>2
<1>11. CASE q - p <= 0
  <2>1. b * (q - p) <= 0
    BY <1>8, <1>10, <1>11
  <2>2. b * (q - p) \in Int
    BY <1>4, <1>10
  <2> QED
    BY <1>7, <2>1, <2>2
<1>12. CASE 1 <= q - p
  <2>1. b <= b * (q - p)
    BY <1>9, <1>10, <1>12
  <2>2. b * (q - p) \in Int
    BY <1>4, <1>10
  <2> QED
    BY <1>4, <1>7, <2>1, <2>2
<1> QED
  BY <1>10, <1>11, <1>12

(* The cell of a number. *)
LEMMA CellType ==
    ASSUME NEW s \in Nat
    PROVE  s % BufferSize \in 0 .. BufferSize - 1
  BY NetSeerAssumption

-----------------------------------------------------------------------------
LEMMA IInvInit == Init => IInv
<1> SUFFICES ASSUME Init PROVE IInv
  OBVIOUS
<1> USE NetSeerAssumption
<1>1. TypeOK
  <2>1. /\ ring \in [0 .. BufferSize - 1 ->
                       [flow : Flows, seq : Nat, reported : BOOLEAN]]
        /\ cache \in [0 .. CacheSize - 1 -> [flow : Flows, count : Nat]]
        /\ numDrops \in [Flows -> Nat]
    BY DEF Init
  <2>2. fwd \in Seq(Nat) /\ bwd \in Seq(Nat \X Nat) /\ flowOf \in Seq(Flows)
    BY DEF Init
  <2>3. /\ sNext \in Nat /\ rNext \in 0 .. sNext /\ detected \in Nat
        /\ loop \in Nat \X Nat /\ Len(flowOf) = sNext
    BY DEF Init
  <2> QED
    BY <2>1, <2>2, <2>3 DEF Init, TypeOK
<1>2. InOrder /\ Known
  BY DEF Init, InOrder, Known
<1>3. NacksReal
  <2>1. Gap(loop) = {} /\ Len(bwd) = 0
    BY DEF Init, Gap
  <2> QED
    BY <2>1 DEF NacksReal
<1>4. RingHolds
  BY DEF Init, RingHolds
<1>5. OnlyRealLosses /\ NoLossForgotten
  BY DEF Init, OnlyRealLosses, NoLossForgotten
<1> QED
  BY <1>1, <1>2, <1>3, <1>4, <1>5 DEF IInv

(* The numbers and sequences of TypeOK, in the form the steps use them. *)
LEMMA TypeFacts ==
    ASSUME TypeOK
    PROVE  /\ sNext \in Nat /\ rNext \in Nat /\ rNext <= sNext
           /\ fwd \in Seq(Nat) /\ bwd \in Seq(Nat \X Nat)
           /\ Len(fwd) \in Nat /\ Len(bwd) \in Nat
           /\ loop \in Nat \X Nat
           /\ lost \subseteq Nat
           /\ BufferSize \in Nat /\ 0 < BufferSize
<1>1. sNext \in Nat /\ rNext \in Nat /\ rNext <= sNext
  BY DEF TypeOK
<1>2. /\ fwd \in Seq(Nat) /\ bwd \in Seq(Nat \X Nat) /\ loop \in Nat \X Nat
      /\ lost \subseteq Nat
  BY DEF TypeOK
<1>3. Len(fwd) \in Nat /\ Len(bwd) \in Nat
  BY <1>2
<1>4. BufferSize \in Nat /\ 0 < BufferSize
  BY NetSeerAssumption
<1> QED
  BY <1>1, <1>2, <1>3, <1>4

(* A finished loop has no gap left. *)
LEMMA DoneGap ==
    ASSUME TypeOK, EventDone
    PROVE  Gap(loop) = {}
<1>1. /\ loop[1] \in Nat /\ loop[2] \in Nat
      /\ Gap(loop) = loop[1] .. loop[2] - 1
  BY TypeFacts, PairParts
<1> QED
  BY <1>1 DEF EventDone

-----------------------------------------------------------------------------
(* One lemma per action: it preserves the invariant. *)

(* The new packet takes the cell of the one BufferSize before it. *)
LEMMA SendPacketStep ==
    ASSUME IInv, SendPacket
    PROVE  IInv'
<1>1. /\ TypeOK /\ InOrder /\ Known /\ NacksReal /\ RingHolds
      /\ OnlyRealLosses /\ NoLossForgotten
  BY DEF IInv
<1>2. PICK f \in Flows :
        /\ ring' = [ring EXCEPT ![sNext % BufferSize] =
                       [flow |-> f, seq |-> sNext, reported |-> FALSE]]
        /\ flowOf' = Append(flowOf, f)
  BY DEF SendPacket, SaveFlow
<1>3. /\ fwd' = Append(fwd, sNext) /\ sNext' = sNext + 1
      /\ UNCHANGED <<cache, detected, numDrops, loop, rNext, bwd, lost, found,
                     unasked>>
  BY DEF SendPacket
<1>4. /\ sNext \in Nat /\ rNext \in Nat /\ rNext <= sNext
      /\ fwd \in Seq(Nat) /\ lost \subseteq Nat
      /\ BufferSize \in Nat /\ 0 < BufferSize
  BY <1>1, TypeFacts
<1>5. /\ Len(fwd) \in Nat /\ fwd' \in Seq(Nat) /\ Len(fwd') = Len(fwd) + 1
      /\ \A i \in 1 .. Len(fwd) : fwd'[i] = fwd[i]
      /\ fwd'[Len(fwd) + 1] = sNext
  BY <1>3, <1>4, AppendFacts
<1>6. TypeOK'
  <2>1. /\ flowOf' \in Seq(Flows) /\ Len(flowOf') = sNext + 1
    BY <1>1, <1>2, AppendFacts DEF TypeOK
  <2>2. ring' \in [0 .. BufferSize - 1 ->
                      [flow : Flows, seq : Nat, reported : BOOLEAN]]
    BY <1>1, <1>2, <1>4 DEF TypeOK
  <2>3. sNext' \in Nat /\ rNext' \in 0 .. sNext'
    BY <1>3, <1>4
  <2> QED
    BY <1>1, <1>3, <1>5, <2>1, <2>2, <2>3 DEF TypeOK
<1>7. InOrder'
  <2>1. ASSUME NEW i \in 1 .. Len(fwd')
        PROVE  rNext' <= fwd'[i] /\ fwd'[i] < sNext' /\ fwd'[i] \notin lost'
    <3>1. CASE i \in 1 .. Len(fwd)
      <4>1. /\ fwd'[i] = fwd[i] /\ fwd[i] \in Nat
            /\ rNext <= fwd[i] /\ fwd[i] < sNext /\ fwd[i] \notin lost
        BY <1>1, <1>4, <1>5, <3>1 DEF InOrder
      <4> QED
        BY <1>3, <1>4, <4>1
    <3>2. CASE i = Len(fwd) + 1
      <4>1. fwd'[i] = sNext
        BY <1>5, <3>2
      <4>2. sNext \notin lost
        BY <1>1, <1>4 DEF Known
      <4> QED
        BY <1>3, <1>4, <4>1, <4>2
    <3> QED
      BY <1>5, <3>1, <3>2
  <2>2. ASSUME NEW i \in 1 .. Len(fwd'), NEW j \in 1 .. Len(fwd'), i < j
        PROVE  fwd'[i] < fwd'[j]
    <3>1. i \in 1 .. Len(fwd) /\ fwd'[i] = fwd[i] /\ fwd[i] < sNext
      BY <1>1, <1>5, <2>2 DEF InOrder
    <3>2. CASE j \in 1 .. Len(fwd)
      BY <1>1, <1>5, <2>2, <3>1, <3>2 DEF InOrder
    <3>3. CASE j = Len(fwd) + 1
      BY <1>5, <3>1, <3>3
    <3> QED
      BY <1>5, <3>2, <3>3
  <2> QED
    BY <2>1, <2>2 DEF InOrder
<1>8. Known'
  <2>1. ASSUME NEW s \in Nat, rNext' <= s, s < sNext'
        PROVE  s \in lost' \/ \E i \in 1 .. Len(fwd') : fwd'[i] = s
    <3>1. CASE s = sNext
      <4>1. Len(fwd) + 1 \in 1 .. Len(fwd')
        BY <1>5
      <4> QED
        BY <1>5, <3>1, <4>1
    <3>2. CASE s < sNext
      <4>1. s \in lost \/ \E i \in 1 .. Len(fwd) : fwd[i] = s
        BY <1>1, <1>3, <2>1, <3>2 DEF Known
      <4>2. ASSUME NEW i \in 1 .. Len(fwd), fwd[i] = s
            PROVE  i \in 1 .. Len(fwd') /\ fwd'[i] = s
        BY <1>5, <4>2
      <4> QED
        BY <1>3, <4>1, <4>2
    <3> QED
      BY <1>3, <1>4, <2>1, <3>1, <3>2
  <2>2. ASSUME NEW s \in lost' PROVE s < sNext'
    <3>1. s \in Nat /\ s < sNext
      BY <1>1, <1>3, <1>4 DEF Known
    <3> QED
      BY <1>3, <1>4, <3>1
  <2> QED
    BY <2>1, <2>2 DEF Known
<1>9. NacksReal'
  BY <1>1, <1>3 DEF NacksReal, Gap
<1>10. RingHolds'
  <2> SUFFICES ASSUME NEW s \in Nat, s < sNext', sNext' <= s + BufferSize
               PROVE  /\ ring'[s % BufferSize].seq = s
                      /\ ring'[s % BufferSize].reported => s \in found'
    BY DEF RingHolds
  <2>1. /\ s % BufferSize \in 0 .. BufferSize - 1
        /\ sNext % BufferSize \in 0 .. BufferSize - 1
    BY <1>4, CellType
  <2>2. ring \in [0 .. BufferSize - 1 ->
                     [flow : Flows, seq : Nat, reported : BOOLEAN]]
    BY <1>1 DEF TypeOK
  <2>3. CASE s = sNext
    BY <1>2, <2>1, <2>2, <2>3
  <2>4. CASE s < sNext
    <3>1. sNext < s + BufferSize
      BY <1>3, <1>4
    <3>2. s % BufferSize # sNext % BufferSize
      BY <1>4, <2>4, <3>1, OwnCell
    <3>3. ring'[s % BufferSize] = ring[s % BufferSize]
      BY <1>2, <2>1, <2>2, <3>2
    <3>4. sNext <= s + BufferSize
      BY <1>4, <3>1
    <3> QED
      BY <1>1, <1>3, <2>4, <3>3, <3>4 DEF RingHolds
  <2> QED
    BY <1>3, <1>4, <2>3, <2>4
<1>11. OnlyRealLosses'
  BY <1>1, <1>3 DEF OnlyRealLosses
<1>12. NoLossForgotten'
  <2> SUFFICES ASSUME NEW s \in lost, s < rNext
               PROVE  \/ s \in found \cup unasked
                      \/ s \in Gap(loop)
                      \/ \E i \in DOMAIN bwd : s \in Gap(bwd[i])
                      \/ s + BufferSize < sNext'
    BY <1>3 DEF NoLossForgotten, Gap
  <2>1. s + BufferSize < sNext => s + BufferSize < sNext'
    <3>1. s \in Nat
      BY <1>4
    <3> QED
      BY <1>3, <1>4, <3>1
  <2> QED
    BY <1>1, <2>1 DEF NoLossForgotten
<1> QED
  BY <1>6, <1>7, <1>8, <1>9, <1>10, <1>11, <1>12 DEF IInv

(***************************************************************************)
(* Taking the head off the link, for RecvPacket and LosePacket.            *)
(***************************************************************************)
LEMMA TakePacket ==
    ASSUME TypeOK, InOrder, fwd # <<>>
    PROVE  /\ Head(fwd) \in Nat /\ rNext <= Head(fwd) /\ Head(fwd) < sNext
           /\ Head(fwd) \notin lost
           /\ Tail(fwd) \in Seq(Nat)
           /\ Len(fwd) \in Nat /\ Len(Tail(fwd)) = Len(fwd) - 1
           /\ \A i \in 1 .. Len(fwd) - 1 :
                  /\ Tail(fwd)[i] = fwd[i + 1] /\ Tail(fwd)[i] \in Nat
                  /\ Head(fwd) < Tail(fwd)[i] /\ Tail(fwd)[i] < sNext
                  /\ Tail(fwd)[i] \notin lost
           /\ \A i, j \in 1 .. Len(fwd) - 1 :
                  i < j => Tail(fwd)[i] < Tail(fwd)[j]
           /\ \A i \in 1 .. Len(fwd) :
                  \/ fwd[i] = Head(fwd)
                  \/ \E j \in 1 .. Len(fwd) - 1 : Tail(fwd)[j] = fwd[i]
<1>1. fwd \in Seq(Nat)
  BY TypeFacts
<1>2. /\ Len(fwd) \in Nat \ {0}
      /\ Head(fwd) = fwd[1] /\ Head(fwd) \in Nat
      /\ Tail(fwd) \in Seq(Nat)
      /\ Len(Tail(fwd)) = Len(fwd) - 1
      /\ \A i \in 1 .. Len(fwd) - 1 : Tail(fwd)[i] = fwd[i + 1]
  BY <1>1, TailFacts
<1>3. rNext <= Head(fwd) /\ Head(fwd) < sNext /\ Head(fwd) \notin lost
  BY <1>2 DEF InOrder
<1>4. ASSUME NEW i \in 1 .. Len(fwd) - 1
      PROVE  /\ Tail(fwd)[i] = fwd[i + 1] /\ Tail(fwd)[i] \in Nat
             /\ Head(fwd) < Tail(fwd)[i] /\ Tail(fwd)[i] < sNext
             /\ Tail(fwd)[i] \notin lost
  <2>1. i + 1 \in 1 .. Len(fwd) /\ 1 \in 1 .. Len(fwd) /\ 1 < i + 1
    BY <1>2
  <2>2. fwd[i + 1] \in Nat
    BY <1>1, <2>1
  <2> QED
    BY <1>2, <2>1, <2>2 DEF InOrder
<1>5. ASSUME NEW i \in 1 .. Len(fwd) - 1, NEW j \in 1 .. Len(fwd) - 1, i < j
      PROVE  Tail(fwd)[i] < Tail(fwd)[j]
  <2>1. i + 1 \in 1 .. Len(fwd) /\ j + 1 \in 1 .. Len(fwd) /\ i + 1 < j + 1
    BY <1>2, <1>5
  <2> QED
    BY <1>2, <2>1 DEF InOrder
<1>6. ASSUME NEW i \in 1 .. Len(fwd)
      PROVE  \/ fwd[i] = Head(fwd)
             \/ \E j \in 1 .. Len(fwd) - 1 : Tail(fwd)[j] = fwd[i]
  <2>1. CASE i = 1
    BY <1>2, <2>1
  <2>2. CASE i # 1
    <3>1. i - 1 \in 1 .. Len(fwd) - 1 /\ (i - 1) + 1 = i
      BY <1>2, <2>2
    <3> QED
      BY <1>2, <3>1
  <2> QED
    BY <2>1, <2>2
<1> QED
  BY <1>2, <1>3, <1>4, <1>5, <1>6

(* Numbers below the head that were not received before are lost. *)
LEMMA RecvPacketStep ==
    ASSUME IInv, RecvPacket
    PROVE  IInv'
<1>1. /\ TypeOK /\ InOrder /\ Known /\ NacksReal /\ RingHolds
      /\ OnlyRealLosses /\ NoLossForgotten
  BY DEF IInv
<1>2. /\ EventDone /\ fwd # <<>> /\ fwd' = Tail(fwd) /\ rNext' = Head(fwd) + 1
      /\ bwd' = IF Head(fwd) # rNext THEN Append(bwd, <<rNext, Head(fwd)>>)
                                     ELSE bwd
      /\ UNCHANGED <<sNext, ring, cache, detected, numDrops, loop, flowOf, lost,
                     found, unasked>>
  BY DEF RecvPacket, ExpectAfter, NackOfGap, upstreamVars, historyVars
<1>3. /\ sNext \in Nat /\ rNext \in Nat /\ rNext <= sNext
      /\ bwd \in Seq(Nat \X Nat) /\ lost \subseteq Nat /\ Len(bwd) \in Nat
  BY <1>1, TypeFacts
<1>4. /\ Head(fwd) \in Nat /\ rNext <= Head(fwd) /\ Head(fwd) < sNext
      /\ Head(fwd) \notin lost
      /\ fwd' \in Seq(Nat)
      /\ Len(fwd) \in Nat /\ Len(fwd') = Len(fwd) - 1
      /\ \A i \in 1 .. Len(fwd) - 1 :
             /\ fwd'[i] \in Nat /\ Head(fwd) < fwd'[i] /\ fwd'[i] < sNext
             /\ fwd'[i] \notin lost
      /\ \A i, j \in 1 .. Len(fwd) - 1 : i < j => fwd'[i] < fwd'[j]
      /\ \A i \in 1 .. Len(fwd) :
             \/ fwd[i] = Head(fwd)
             \/ \E j \in 1 .. Len(fwd) - 1 : fwd'[j] = fwd[i]
  BY <1>1, <1>2, TakePacket
<1>5. <<rNext, Head(fwd)>> \in Nat \X Nat
  BY <1>3, <1>4
<1>6. /\ Append(bwd, <<rNext, Head(fwd)>>) \in Seq(Nat \X Nat)
      /\ Len(Append(bwd, <<rNext, Head(fwd)>>)) = Len(bwd) + 1
      /\ \A i \in 1 .. Len(bwd) : Append(bwd, <<rNext, Head(fwd)>>)[i] = bwd[i]
      /\ Append(bwd, <<rNext, Head(fwd)>>)[Len(bwd) + 1] = <<rNext, Head(fwd)>>
  BY <1>3, <1>5, AppendFacts
<1>7. /\ bwd' \in Seq(Nat \X Nat) /\ Len(bwd') \in Nat /\ Len(bwd) <= Len(bwd')
      /\ \A i \in 1 .. Len(bwd) : bwd'[i] = bwd[i]
      /\ \A i \in 1 .. Len(bwd') :
             i \in 1 .. Len(bwd) \/ bwd'[i] = <<rNext, Head(fwd)>>
  <2>1. CASE Head(fwd) # rNext
    BY <1>2, <1>3, <1>6, <2>1
  <2>2. CASE Head(fwd) = rNext
    BY <1>2, <1>3, <2>2
  <2> QED
    BY <2>1, <2>2
<1>8. Gap(<<rNext, Head(fwd)>>) = rNext .. Head(fwd) - 1
  BY <1>3, <1>4, GapOfPair
<1>9. ASSUME NEW s \in Nat, rNext <= s, s < Head(fwd)
      PROVE  s \in lost
  <2>1. s < sNext
    BY <1>3, <1>4, <1>9
  <2>2. ASSUME NEW i \in 1 .. Len(fwd) PROVE fwd[i] # s
    <3>1. CASE fwd[i] = Head(fwd)
      BY <1>4, <1>9, <3>1
    <3>2. ASSUME NEW j \in 1 .. Len(fwd) - 1, fwd'[j] = fwd[i]
          PROVE  fwd[i] # s
      <4>1. fwd'[j] \in Nat /\ Head(fwd) < fwd'[j]
        BY <1>4
      <4> QED
        BY <1>4, <1>9, <3>2, <4>1
    <3> QED
      BY <1>4, <3>1, <3>2
  <2> QED
    BY <1>1, <1>9, <2>1, <2>2 DEF Known
<1>10. TypeOK'
  <2>1. rNext' \in 0 .. sNext'
    BY <1>2, <1>3, <1>4
  <2> QED
    BY <1>1, <1>2, <1>4, <1>7, <2>1 DEF TypeOK
<1>11. InOrder'
  <2>1. \A i \in 1 .. Len(fwd') :
            rNext' <= fwd'[i] /\ fwd'[i] < sNext' /\ fwd'[i] \notin lost'
    BY <1>2, <1>3, <1>4
  <2>2. \A i, j \in 1 .. Len(fwd') : i < j => fwd'[i] < fwd'[j]
    BY <1>4
  <2> QED
    BY <2>1, <2>2 DEF InOrder
<1>12. Known'
  <2>1. ASSUME NEW s \in Nat, rNext' <= s, s < sNext'
        PROVE  s \in lost' \/ \E i \in 1 .. Len(fwd') : fwd'[i] = s
    <3>1. rNext <= s /\ s < sNext /\ s # Head(fwd)
      BY <1>2, <1>3, <1>4, <2>1
    <3>2. s \in lost \/ \E i \in 1 .. Len(fwd) : fwd[i] = s
      BY <1>1, <3>1 DEF Known
    <3>3. ASSUME NEW i \in 1 .. Len(fwd), fwd[i] = s
          PROVE  \E j \in 1 .. Len(fwd') : fwd'[j] = s
      BY <1>4, <3>1, <3>3
    <3> QED
      BY <1>2, <3>2, <3>3
  <2>2. \A s \in lost' : s < sNext'
    BY <1>1, <1>2 DEF Known
  <2> QED
    BY <2>1, <2>2 DEF Known
<1>13. NacksReal'
  <2>1. Gap(<<rNext, Head(fwd)>>) \subseteq lost
    BY <1>3, <1>4, <1>8, <1>9
  <2>2. ASSUME NEW i \in 1 .. Len(bwd')
        PROVE  Gap(bwd'[i]) \subseteq lost
    BY <1>1, <1>7, <2>1 DEF NacksReal
  <2>3. Gap(loop) \subseteq lost
    BY <1>1 DEF NacksReal
  <2> QED
    BY <1>2, <2>2, <2>3 DEF NacksReal, Gap
<1>14. RingHolds' /\ OnlyRealLosses'
  BY <1>1, <1>2 DEF RingHolds, OnlyRealLosses
<1>15. NoLossForgotten'
  <2> SUFFICES ASSUME NEW s \in lost, s < rNext'
               PROVE  \/ s \in found \cup unasked
                      \/ s \in Gap(loop)
                      \/ \E i \in DOMAIN bwd' : s \in Gap(bwd'[i])
                      \/ s + BufferSize < sNext
    BY <1>2 DEF NoLossForgotten, Gap
  <2>1. DOMAIN bwd = 1 .. Len(bwd) /\ DOMAIN bwd' = 1 .. Len(bwd') /\ s \in Nat
    BY <1>3, <1>7
  <2>2. CASE s < rNext
    <3>1. ASSUME NEW i \in 1 .. Len(bwd), s \in Gap(bwd[i])
          PROVE  i \in 1 .. Len(bwd') /\ s \in Gap(bwd'[i])
      <4>1. i \in 1 .. Len(bwd')
        BY <1>3, <1>7
      <4> QED
        BY <1>7, <3>1, <4>1
    <3> QED
      BY <1>1, <2>1, <2>2, <3>1 DEF NoLossForgotten
  <2>3. CASE ~(s < rNext)
    <3>1. s \in rNext .. Head(fwd) - 1
      BY <1>2, <1>3, <1>4, <2>1, <2>3
    <3>2. Head(fwd) # rNext
      BY <1>3, <1>4, <3>1
    <3>3. Len(bwd) + 1 \in 1 .. Len(bwd') /\ bwd'[Len(bwd) + 1] = <<rNext, Head(fwd)>>
      BY <1>2, <1>3, <1>6, <3>2
    <3> QED
      BY <1>8, <2>1, <3>1, <3>3
  <2> QED
    BY <2>2, <2>3
<1> QED
  BY <1>10, <1>11, <1>12, <1>13, <1>14, <1>15 DEF IInv

(* The gap of the NACK that arrives becomes the range of the loop. *)
LEMMA RecvNackStep ==
    ASSUME IInv, RecvNack
    PROVE  IInv'
<1>1. /\ TypeOK /\ InOrder /\ Known /\ NacksReal /\ RingHolds
      /\ OnlyRealLosses /\ NoLossForgotten
  BY DEF IInv
<1>2. /\ EventDone /\ bwd # <<>> /\ bwd' = Tail(bwd) /\ loop' = Head(bwd)
      /\ UNCHANGED <<sNext, rNext, fwd, ring, cache, detected, numDrops, flowOf,
                     lost, found, unasked>>
  BY DEF RecvNack, upstreamVars, historyVars
<1>3. bwd \in Seq(Nat \X Nat)
  BY <1>1, TypeFacts
<1>4. /\ Len(bwd) \in Nat \ {0}
      /\ Head(bwd) = bwd[1] /\ Head(bwd) \in Nat \X Nat
      /\ bwd' \in Seq(Nat \X Nat) /\ Len(bwd') = Len(bwd) - 1
      /\ \A i \in 1 .. Len(bwd) - 1 : bwd'[i] = bwd[i + 1]
  BY <1>2, <1>3, TailFacts
<1>5. TypeOK'
  BY <1>1, <1>2, <1>4 DEF TypeOK
<1>6. InOrder' /\ Known' /\ RingHolds' /\ OnlyRealLosses'
  BY <1>1, <1>2 DEF InOrder, Known, RingHolds, OnlyRealLosses
<1>7. NacksReal'
  <2>1. Gap(loop') \subseteq lost
    BY <1>1, <1>2, <1>4 DEF NacksReal
  <2>2. ASSUME NEW i \in 1 .. Len(bwd')
        PROVE  Gap(bwd'[i]) \subseteq lost
    <3>1. i + 1 \in 1 .. Len(bwd) /\ bwd'[i] = bwd[i + 1]
      BY <1>4
    <3> QED
      BY <1>1, <3>1 DEF NacksReal
  <2> QED
    BY <1>2, <2>1, <2>2 DEF NacksReal, Gap
<1>8. NoLossForgotten'
  <2> SUFFICES ASSUME NEW s \in lost, s < rNext
               PROVE  \/ s \in found \cup unasked
                      \/ s \in Gap(loop')
                      \/ \E i \in DOMAIN bwd' : s \in Gap(bwd'[i])
                      \/ s + BufferSize < sNext
    BY <1>2 DEF NoLossForgotten, Gap
  <2>1. DOMAIN bwd = 1 .. Len(bwd) /\ DOMAIN bwd' = 1 .. Len(bwd')
    BY <1>3, <1>4
  <2>2. Gap(loop) = {}
    BY <1>1, <1>2, DoneGap
  <2>3. ASSUME NEW i \in 1 .. Len(bwd), s \in Gap(bwd[i])
        PROVE  s \in Gap(loop') \/ \E j \in 1 .. Len(bwd') : s \in Gap(bwd'[j])
    <3>1. CASE i = 1
      BY <1>2, <1>4, <2>3, <3>1
    <3>2. CASE i # 1
      <4>1. i - 1 \in 1 .. Len(bwd') /\ bwd'[i - 1] = bwd[i]
        BY <1>4, <3>2
      <4> QED
        BY <2>3, <4>1
    <3> QED
      BY <3>1, <3>2
  <2> QED
    BY <1>1, <2>1, <2>2, <2>3 DEF NoLossForgotten
<1> QED
  BY <1>5, <1>6, <1>7, <1>8 DEF IInv

(***************************************************************************)
(* One iteration: the packet is in the ring and reported, was reported     *)
(* before, or has been overwritten.                                        *)
(***************************************************************************)
LEMMA CheckPacketLossesStep ==
    ASSUME IInv, CheckPacketLosses
    PROVE  IInv'
<1>1. /\ TypeOK /\ InOrder /\ Known /\ NacksReal /\ RingHolds
      /\ OnlyRealLosses /\ NoLossForgotten
  BY DEF IInv
<1> DEFINE t == loop[1]
<1>2. /\ t < loop[2] /\ loop' = <<t + 1, loop[2]>>
      /\ UNCHANGED <<sNext, rNext, fwd, bwd, flowOf, lost, unasked>>
  BY DEF CheckPacketLosses
<1>3. /\ sNext \in Nat /\ rNext \in Nat /\ loop \in Nat \X Nat
      /\ BufferSize \in Nat /\ 0 < BufferSize /\ lost \subseteq Nat
  BY <1>1, TypeFacts
<1>4. /\ t \in Nat /\ loop[2] \in Nat /\ Gap(loop) = t .. loop[2] - 1
  BY <1>3, PairParts
<1>5. loop' \in Nat \X Nat /\ Gap(loop') = t + 1 .. loop[2] - 1
  BY <1>2, <1>4, GapOfPair
<1>6. t \in Gap(loop) /\ Gap(loop) \subseteq Gap(loop') \cup {t}
      /\ Gap(loop') \subseteq Gap(loop)
  BY <1>2, <1>4, <1>5
<1>7. t % BufferSize \in 0 .. BufferSize - 1
  BY <1>4, CellType
<1>8. ring \in [0 .. BufferSize - 1 ->
                   [flow : Flows, seq : Nat, reported : BOOLEAN]]
  BY <1>1 DEF TypeOK
<1> HIDE DEF t
<1>9. NacksReal'
  <2>1. Gap(loop') \subseteq lost
    BY <1>1, <1>6 DEF NacksReal
  <2>2. \A i \in 1 .. Len(bwd) : Gap(bwd[i]) \subseteq lost
    BY <1>1 DEF NacksReal
  <2> QED
    BY <1>2, <2>1, <2>2 DEF NacksReal, Gap
<1>10. InOrder' /\ Known'
  BY <1>1, <1>2 DEF InOrder, Known
<1>11. ASSUME found \subseteq found', t \in found' \/ t + BufferSize < sNext
       PROVE  NoLossForgotten'
  <2> SUFFICES ASSUME NEW s \in lost, s < rNext
               PROVE  \/ s \in found' \cup unasked
                      \/ s \in Gap(loop')
                      \/ \E i \in DOMAIN bwd : s \in Gap(bwd[i])
                      \/ s + BufferSize < sNext
    BY <1>2 DEF NoLossForgotten, Gap
  <2>1. \/ s \in found \cup unasked
        \/ s \in Gap(loop)
        \/ \E i \in DOMAIN bwd : s \in Gap(bwd[i])
        \/ s + BufferSize < sNext
    BY <1>1 DEF NoLossForgotten
  <2> QED
    BY <1>6, <1>11, <2>1
<1>12. CASE InRing(t)
  <2>1. /\ ring' = [ring EXCEPT ![t % BufferSize].reported = TRUE]
        /\ detected' = detected + 1
        /\ ReportPacket(ring[t % BufferSize].flow)
        /\ found' = found \cup {t}
    BY <1>12 DEF CheckPacketLosses, t
  <2>2. ring[t % BufferSize].seq = t
    BY <1>12 DEF InRing
  <2>3. TypeOK'
    <3>1. ring' \in [0 .. BufferSize - 1 ->
                        [flow : Flows, seq : Nat, reported : BOOLEAN]]
      BY <1>7, <1>8, <2>1
    <3>2. ring[t % BufferSize].flow \in Flows
      BY <1>7, <1>8
    <3>3. ASSUME NEW f \in Flows, ReportPacket(f)
          PROVE  /\ cache' \in [0 .. CacheSize - 1 -> [flow : Flows, count : Nat]]
                 /\ numDrops' \in [Flows -> Nat]
      <4>1. /\ cache \in [0 .. CacheSize - 1 -> [flow : Flows, count : Nat]]
            /\ numDrops \in [Flows -> Nat]
        BY <1>1 DEF TypeOK
      <4>2. Hash[f] \in 0 .. CacheSize - 1
        BY NetSeerAssumption
      <4>3. cache[Hash[f]].count \in Nat /\ numDrops[f] \in Nat
        BY <4>1, <4>2
      <4>4. \E n, d \in Nat :
               /\ cache' = [cache EXCEPT ![Hash[f]] = [flow |-> f, count |-> n]]
               /\ numDrops' = [numDrops EXCEPT ![f] = d]
        <5> DEFINE same == cache[Hash[f]].flow = f
                   full == cache[Hash[f]].count + 1 >= EventCounter
                   n == IF same /\ ~full THEN cache[Hash[f]].count + 1 ELSE 0
                   d == IF ~same \/ full
                        THEN numDrops[f] + (cache[Hash[f]].count + 1)
                        ELSE numDrops[f]
        <5>1. n \in Nat /\ d \in Nat
          BY <4>3
        <5>2. cache' = [cache EXCEPT ![Hash[f]] = [flow |-> f, count |-> n]]
          BY <3>3, <4>1, <4>2 DEF ReportPacket
        <5>3. numDrops' = [numDrops EXCEPT ![f] = d]
          BY <3>3, <4>1 DEF ReportPacket, CountWithCurrent
        <5> QED
          BY <5>1, <5>2, <5>3
      <4> QED
        BY <4>1, <4>2, <4>4
    <3>4. /\ cache' \in [0 .. CacheSize - 1 -> [flow : Flows, count : Nat]]
          /\ numDrops' \in [Flows -> Nat]
      BY <2>1, <3>2, <3>3
    <3>5. detected' \in Nat /\ found' \subseteq Nat
      BY <1>1, <1>4, <2>1 DEF TypeOK
    <3> QED
      BY <1>1, <1>2, <1>5, <3>1, <3>4, <3>5 DEF TypeOK
  <2>4. RingHolds'
    <3> SUFFICES ASSUME NEW s \in Nat, s < sNext, sNext <= s + BufferSize
                 PROVE  /\ ring'[s % BufferSize].seq = s
                        /\ ring'[s % BufferSize].reported => s \in found'
      BY <1>2 DEF RingHolds
    <3>1. /\ ring[s % BufferSize].seq = s
          /\ ring[s % BufferSize].reported => s \in found
      BY <1>1 DEF RingHolds
    <3>2. s % BufferSize \in 0 .. BufferSize - 1
      BY CellType
    <3>3. CASE s % BufferSize = t % BufferSize
      <4>1. s = t
        BY <2>2, <3>1, <3>3
      <4>2. ring'[s % BufferSize].seq = ring[s % BufferSize].seq
        BY <1>8, <2>1, <3>2
      <4> QED
        BY <2>1, <3>1, <4>1, <4>2
    <3>4. CASE s % BufferSize # t % BufferSize
      <4>1. ring'[s % BufferSize] = ring[s % BufferSize]
        BY <1>8, <2>1, <3>2, <3>4
      <4> QED
        BY <2>1, <3>1, <4>1
    <3> QED
      BY <3>3, <3>4
  <2>5. OnlyRealLosses'
    BY <1>1, <1>2, <1>6, <2>1 DEF OnlyRealLosses, NacksReal
  <2>6. NoLossForgotten'
    BY <1>11, <2>1
  <2> QED
    BY <1>9, <1>10, <2>3, <2>4, <2>5, <2>6 DEF IInv
<1>13. CASE ~InRing(t)
  <2>1. UNCHANGED <<ring, cache, detected, numDrops, found>>
    BY <1>13 DEF CheckPacketLosses, upstreamVars, t
  <2>2. TypeOK'
    BY <1>1, <1>2, <1>5, <2>1 DEF TypeOK
  <2>3. RingHolds' /\ OnlyRealLosses'
    BY <1>1, <1>2, <2>1 DEF RingHolds, OnlyRealLosses
  <2>4. t \in found' \/ t + BufferSize < sNext
    <3>1. t < sNext
      BY <1>1, <1>6 DEF NacksReal, Known
    <3>2. CASE sNext <= t + BufferSize
      <4>1. /\ ring[t % BufferSize].seq = t
            /\ ring[t % BufferSize].reported => t \in found
        BY <1>1, <1>4, <3>1, <3>2 DEF RingHolds
      <4> QED
        BY <1>13, <2>1, <4>1 DEF InRing
    <3> QED
      BY <1>3, <1>4, <3>2
  <2>5. NoLossForgotten'
    BY <1>11, <2>1, <2>4
  <2> QED
    BY <1>9, <1>10, <2>2, <2>3, <2>5 DEF IInv
<1> QED
  BY <1>12, <1>13

(* The packet leaves the link for the set of the lost ones. *)
LEMMA LosePacketStep ==
    ASSUME IInv, LosePacket
    PROVE  IInv'
<1>1. /\ TypeOK /\ InOrder /\ Known /\ NacksReal /\ RingHolds
      /\ OnlyRealLosses /\ NoLossForgotten
  BY DEF IInv
<1>2. /\ fwd # <<>> /\ fwd' = Tail(fwd) /\ lost' = lost \cup {Head(fwd)}
      /\ UNCHANGED <<sNext, ring, cache, detected, numDrops, loop, rNext, bwd,
                     flowOf, found, unasked>>
  BY DEF LosePacket, upstreamVars
<1>3. sNext \in Nat /\ rNext \in Nat /\ lost \subseteq Nat
  BY <1>1, TypeFacts
<1>4. /\ Head(fwd) \in Nat /\ rNext <= Head(fwd) /\ Head(fwd) < sNext
      /\ fwd' \in Seq(Nat)
      /\ Len(fwd) \in Nat /\ Len(fwd') = Len(fwd) - 1
      /\ \A i \in 1 .. Len(fwd) - 1 :
             /\ fwd'[i] \in Nat /\ Head(fwd) < fwd'[i] /\ fwd'[i] < sNext
             /\ fwd'[i] \notin lost
      /\ \A i, j \in 1 .. Len(fwd) - 1 : i < j => fwd'[i] < fwd'[j]
      /\ \A i \in 1 .. Len(fwd) :
             \/ fwd[i] = Head(fwd)
             \/ \E j \in 1 .. Len(fwd) - 1 : fwd'[j] = fwd[i]
  BY <1>1, <1>2, TakePacket
<1>5. TypeOK'
  <2>1. lost' \subseteq Nat
    BY <1>2, <1>3, <1>4
  <2> QED
    BY <1>1, <1>2, <1>4, <2>1 DEF TypeOK
<1>6. InOrder'
  <2>1. ASSUME NEW i \in 1 .. Len(fwd')
        PROVE  rNext' <= fwd'[i] /\ fwd'[i] < sNext' /\ fwd'[i] \notin lost'
    <3>1. /\ fwd'[i] \in Nat /\ Head(fwd) < fwd'[i] /\ fwd'[i] < sNext
          /\ fwd'[i] \notin lost
      BY <1>4
    <3>2. rNext <= fwd'[i] /\ fwd'[i] # Head(fwd)
      BY <1>3, <1>4, <3>1
    <3> QED
      BY <1>2, <3>1, <3>2
  <2>2. \A i, j \in 1 .. Len(fwd') : i < j => fwd'[i] < fwd'[j]
    BY <1>4
  <2> QED
    BY <2>1, <2>2 DEF InOrder
<1>7. Known'
  <2>1. ASSUME NEW s \in Nat, rNext <= s, s < sNext
        PROVE  s \in lost' \/ \E i \in 1 .. Len(fwd') : fwd'[i] = s
    <3>1. s \in lost \/ \E i \in 1 .. Len(fwd) : fwd[i] = s
      BY <1>1, <2>1 DEF Known
    <3>2. ASSUME NEW i \in 1 .. Len(fwd), fwd[i] = s
          PROVE  s = Head(fwd) \/ \E j \in 1 .. Len(fwd') : fwd'[j] = s
      BY <1>4, <3>2
    <3> QED
      BY <1>2, <3>1, <3>2
  <2>2. \A s \in lost' : s < sNext
    BY <1>1, <1>2, <1>4 DEF Known
  <2> QED
    BY <1>2, <2>1, <2>2 DEF Known
<1>8. NacksReal' /\ RingHolds' /\ OnlyRealLosses'
  BY <1>1, <1>2 DEF NacksReal, RingHolds, OnlyRealLosses, Gap
<1>9. NoLossForgotten'
  <2>1. ASSUME NEW s \in lost', s < rNext
        PROVE  s \in lost
    BY <1>2, <1>3, <1>4, <2>1
  <2> QED
    BY <1>1, <1>2, <2>1 DEF NoLossForgotten, Gap
<1> QED
  BY <1>5, <1>6, <1>7, <1>8, <1>9 DEF IInv

(* The gap of a lost NACK is remembered in unasked. *)
LEMMA LoseNackStep ==
    ASSUME IInv, LoseNack
    PROVE  IInv'
<1>1. /\ TypeOK /\ InOrder /\ Known /\ NacksReal /\ RingHolds
      /\ OnlyRealLosses /\ NoLossForgotten
  BY DEF IInv
<1>2. /\ bwd # <<>> /\ bwd' = Tail(bwd)
      /\ unasked' = unasked \cup Gap(Head(bwd))
      /\ UNCHANGED <<sNext, rNext, fwd, ring, cache, detected, numDrops, flowOf,
                     loop, lost, found>>
  BY DEF LoseNack, upstreamVars
<1>3. bwd \in Seq(Nat \X Nat) /\ lost \subseteq Nat
  BY <1>1, TypeFacts
<1>4. /\ Len(bwd) \in Nat \ {0}
      /\ Head(bwd) = bwd[1] /\ Head(bwd) \in Nat \X Nat
      /\ bwd' \in Seq(Nat \X Nat) /\ Len(bwd') = Len(bwd) - 1
      /\ \A i \in 1 .. Len(bwd) - 1 : bwd'[i] = bwd[i + 1]
  BY <1>2, <1>3, TailFacts
<1>5. Gap(Head(bwd)) \subseteq lost
  BY <1>1, <1>4 DEF NacksReal
<1>6. TypeOK'
  <2>1. unasked' \subseteq Nat
    BY <1>1, <1>2, <1>3, <1>5 DEF TypeOK
  <2> QED
    BY <1>1, <1>2, <1>4, <2>1 DEF TypeOK
<1>7. InOrder' /\ Known' /\ RingHolds' /\ OnlyRealLosses'
  BY <1>1, <1>2 DEF InOrder, Known, RingHolds, OnlyRealLosses
<1>8. NacksReal'
  <2>1. ASSUME NEW i \in 1 .. Len(bwd')
        PROVE  Gap(bwd'[i]) \subseteq lost
    <3>1. i + 1 \in 1 .. Len(bwd) /\ bwd'[i] = bwd[i + 1]
      BY <1>4
    <3> QED
      BY <1>1, <3>1 DEF NacksReal
  <2>2. Gap(loop) \subseteq lost
    BY <1>1 DEF NacksReal
  <2> QED
    BY <1>2, <2>1, <2>2 DEF NacksReal, Gap
<1>9. NoLossForgotten'
  <2> SUFFICES ASSUME NEW s \in lost, s < rNext
               PROVE  \/ s \in found \cup unasked'
                      \/ s \in Gap(loop)
                      \/ \E i \in DOMAIN bwd' : s \in Gap(bwd'[i])
                      \/ s + BufferSize < sNext
    BY <1>2 DEF NoLossForgotten, Gap
  <2>1. DOMAIN bwd = 1 .. Len(bwd) /\ DOMAIN bwd' = 1 .. Len(bwd')
    BY <1>3, <1>4
  <2>2. ASSUME NEW i \in 1 .. Len(bwd), s \in Gap(bwd[i])
        PROVE  s \in unasked' \/ \E j \in 1 .. Len(bwd') : s \in Gap(bwd'[j])
    <3>1. CASE i = 1
      BY <1>2, <1>4, <2>2, <3>1
    <3>2. CASE i # 1
      <4>1. i - 1 \in 1 .. Len(bwd') /\ bwd'[i - 1] = bwd[i]
        BY <1>4, <3>2
      <4> QED
        BY <2>2, <4>1
    <3> QED
      BY <3>1, <3>2
  <2> QED
    BY <1>1, <1>2, <2>1, <2>2 DEF NoLossForgotten
<1> QED
  BY <1>6, <1>7, <1>8, <1>9 DEF IInv

(* The invariant is inductive. *)
LEMMA IInvStep == IInv /\ [Next]_vars => IInv'
<1> SUFFICES ASSUME IInv, [Next]_vars PROVE IInv'
  OBVIOUS
<1>1. CASE UNCHANGED vars
  <2>1. UNCHANGED <<sNext, ring, cache, detected, numDrops, loop, rNext, fwd,
                    bwd, flowOf, lost, found, unasked>>
    BY <1>1 DEF vars, upstreamVars, historyVars
  <2>2. TypeOK' /\ InOrder' /\ Known'
    BY <2>1 DEF IInv, TypeOK, InOrder, Known
  <2>3. NacksReal' /\ RingHolds'
    BY <2>1 DEF IInv, NacksReal, RingHolds, Gap
  <2>4. OnlyRealLosses' /\ NoLossForgotten'
    BY <2>1 DEF IInv, OnlyRealLosses, NoLossForgotten, Gap
  <2> QED
    BY <2>2, <2>3, <2>4 DEF IInv
<1> QED
  BY <1>1, SendPacketStep, RecvPacketStep, RecvNackStep, CheckPacketLossesStep,
     LosePacketStep, LoseNackStep DEF Next

LEMMA IInvAlways == Spec => []IInv
BY IInvInit, IInvStep, PTL DEF Spec

-----------------------------------------------------------------------------
(* The ports of NetSeer keep their types, and rNext never passes sNext. *)
THEOREM TypeCorrect == Spec => []TypeOK
<1>1. IInv => TypeOK
  BY DEF IInv
<1> QED
  BY <1>1, IInvAlways, PTL

(***************************************************************************)
(* CheckPacketLosses reports lost packets only, however the ring wraps and *)
(* however many NACKs are on their way.                                    *)
(***************************************************************************)
THEOREM OnlyRealLossesCorrect == Spec => []OnlyRealLosses
<1>1. IInv => OnlyRealLosses
  BY DEF IInv
<1> QED
  BY <1>1, IInvAlways, PTL

(***************************************************************************)
(* A loss that a later packet revealed is reported or about to be, unless  *)
(* its NACK was lost or BufferSize packets followed it.                    *)
(***************************************************************************)
THEOREM NoLossForgottenCorrect == Spec => []NoLossForgotten
<1>1. IInv => NoLossForgotten
  BY DEF IInv
<1> QED
  BY <1>1, IInvAlways, PTL

-----------------------------------------------------------------------------
(***************************************************************************)
(* The event cache.  A cell of the ring that still has its number has the  *)
(* flow of that packet, and the flag of a packet that was found, so that a *)
(* packet is found once and under its own flow (RingTrue).  ReportPacket   *)
(* then moves one loss into the cell of the flow, or from the cell and     *)
(* with it into the events of the flow.                                    *)
(***************************************************************************)
FoundSent == IsFiniteSet(found) /\ \A s \in found : s < sNext

RingTrue ==
    \A s \in Nat : s < sNext /\ ring[s % BufferSize].seq = s =>
        /\ ring[s % BufferSize].flow = flowOf[s + 1]
        /\ s \in found => ring[s % BufferSize].reported

CInv == FoundSent /\ RingTrue /\ EventsConserveLosses

LEMMA CellsFinite ==
    ASSUME NEW c
    PROVE  IsFiniteSet(FlowsOfCell(c)) /\ FlowsOfCell(c) \subseteq Flows
<1>1. FlowsOfCell(c) \subseteq Flows
  BY DEF FlowsOfCell
<1> QED
  BY <1>1, FS_Subset, NetSeerAssumption

LEMMA CInvInit == Init => CInv
<1> SUFFICES ASSUME Init PROVE CInv
  OBVIOUS
<1>1. found = {} /\ IsFiniteSet(found) /\ Cardinality(found) = 0
  BY FS_EmptySet DEF Init
<1>2. FoundSent /\ RingTrue
  BY <1>1 DEF FoundSent, RingTrue, Init
<1>3. ASSUME NEW c \in 0 .. CacheSize - 1
      PROVE  SumOf([f \in FlowsOfCell(c) |-> numDrops[f]]) + cache[c].count
                 = FoundOf(FlowsOfCell(c))
  <2> DEFINE d == [f \in FlowsOfCell(c) |-> numDrops[f]]
  <2>1. d \in [FlowsOfCell(c) -> Nat] /\ \A f \in FlowsOfCell(c) : d[f] = 0
    BY CellsFinite DEF Init
  <2> HIDE DEF d
  <2>2. SumOf(d) = 0
    BY <2>1, SumZero
  <2>3. {s \in found : flowOf[s + 1] \in FlowsOfCell(c)} = {}
    BY <1>1
  <2>4. FoundOf(FlowsOfCell(c)) = 0
    BY <2>3, FS_EmptySet DEF FoundOf
  <2>5. cache[c].count = 0
    BY DEF Init
  <2> QED
    BY <2>2, <2>4, <2>5 DEF d
<1>4. EventsConserveLosses
  BY <1>1, <1>3 DEF EventsConserveLosses, Init
<1> QED
  BY <1>2, <1>4 DEF CInv

(* Whatever neither sends a packet nor finds one. *)
LEMMA CInvKept ==
    ASSUME CInv, UNCHANGED <<sNext, ring, cache, detected, numDrops, flowOf, found>>
    PROVE  CInv'
<1>1. FoundSent' /\ RingTrue'
  BY DEF CInv, FoundSent, RingTrue
<1>2. EventsConserveLosses'
  BY DEF CInv, EventsConserveLosses, FoundOf, FlowsOfCell
<1> QED
  BY <1>1, <1>2 DEF CInv

(* A new packet takes its cell and is not found yet. *)
LEMMA SendPacketConserves ==
    ASSUME IInv, CInv, SendPacket PROVE CInv'
<1>0. /\ sNext \in Nat /\ flowOf \in Seq(Flows) /\ Len(flowOf) = sNext
      /\ ring \in [0 .. BufferSize - 1 -> [flow : Flows, seq : Nat, reported : BOOLEAN]]
      /\ found \subseteq Nat
  BY DEF IInv, TypeOK
<1>1. PICK f \in Flows : SaveFlow(f) /\ flowOf' = Append(flowOf, f)
  BY DEF SendPacket
<1>2. sNext' = sNext + 1 /\ UNCHANGED <<cache, detected, numDrops, found>>
  BY DEF SendPacket
<1>3. /\ \A i \in 1 .. sNext : flowOf'[i] = flowOf[i]
      /\ flowOf'[sNext + 1] = f
  BY <1>0, <1>1, AppendFacts
<1>4. FoundSent'
  BY <1>0, <1>2 DEF CInv, FoundSent
<1>5. \A s \in found : flowOf'[s + 1] = flowOf[s + 1]
  BY <1>0, <1>3 DEF CInv, FoundSent
<1>6. RingTrue'
  <2> SUFFICES ASSUME NEW s \in Nat, s < sNext + 1, ring'[s % BufferSize].seq = s
               PROVE  /\ ring'[s % BufferSize].flow = flowOf'[s + 1]
                      /\ s \in found => ring'[s % BufferSize].reported
    BY <1>2 DEF RingTrue
  <2>0. s % BufferSize \in 0 .. BufferSize - 1 /\ sNext % BufferSize \in 0 .. BufferSize - 1
    BY <1>0, CellType
  <2>1. ring' = [ring EXCEPT ![sNext % BufferSize] = [flow |-> f, seq |-> sNext, reported |-> FALSE]]
    BY <1>1 DEF SaveFlow
  <2>2. CASE s = sNext
    <3>1. ring'[s % BufferSize].flow = f
      BY <1>0, <2>0, <2>1, <2>2
    <3>2. s \notin found
      BY <1>0, <2>2 DEF CInv, FoundSent
    <3> QED
      BY <1>3, <2>2, <3>1, <3>2
  <2>3. CASE s # sNext
    <3>1. s % BufferSize # sNext % BufferSize
      BY <1>0, <2>0, <2>1, <2>3
    <3>2. ring'[s % BufferSize] = ring[s % BufferSize]
      BY <1>0, <2>0, <2>1, <3>1
    <3>3. s < sNext /\ flowOf'[s + 1] = flowOf[s + 1]
      BY <1>0, <1>3, <2>3
    <3> QED
      BY <3>2, <3>3 DEF CInv, RingTrue
  <2> QED
    BY <2>2, <2>3
<1>7. EventsConserveLosses'
  <2>1. ASSUME NEW c PROVE FoundOf(FlowsOfCell(c))' = FoundOf(FlowsOfCell(c))
    <3>1. {s \in found : flowOf'[s + 1] \in FlowsOfCell(c)}
            = {s \in found : flowOf[s + 1] \in FlowsOfCell(c)}
      BY <1>5
    <3> QED
      BY <1>2, <3>1 DEF FoundOf, FlowsOfCell
  <2> QED
    BY <1>2, <2>1 DEF CInv, EventsConserveLosses, FlowsOfCell
<1> QED
  BY <1>4, <1>6, <1>7 DEF CInv

(* One loss of flow f moves through the cache. *)
LEMMA ReportPacketConserves ==
    ASSUME TypeOK, NEW f \in Flows, NEW c \in 0 .. CacheSize - 1, ReportPacket(f)
    PROVE  SumOf([g \in FlowsOfCell(c) |-> numDrops'[g]]) + cache'[c].count
             = SumOf([g \in FlowsOfCell(c) |-> numDrops[g]]) + cache[c].count
                 + (IF Hash[f] = c THEN 1 ELSE 0)
<1> DEFINE d == [g \in FlowsOfCell(c) |-> numDrops[g]]
           e == [g \in FlowsOfCell(c) |-> numDrops'[g]]
           h == Hash[f]
           same == cache[h].flow = f
           full == cache[h].count + 1 >= EventCounter
           more == IF ~same \/ full THEN cache[h].count + 1 ELSE 0
<1>1. h \in 0 .. CacheSize - 1
  BY NetSeerAssumption
<1>2. numDrops \in [Flows -> Nat] /\ cache \in [0 .. CacheSize - 1 -> [flow : Flows, count : Nat]]
  BY DEF TypeOK
<1>3. cache[h].count \in Nat /\ cache[c].count \in Nat
  BY <1>1, <1>2
<1>4. IsFiniteSet(FlowsOfCell(c)) /\ FlowsOfCell(c) \subseteq Flows
  BY CellsFinite
<1>5. d \in [FlowsOfCell(c) -> Nat]
  BY <1>2, <1>4
<1>6. /\ cache' = [cache EXCEPT ![h] =
                     [flow |-> f, count |-> IF same /\ ~full THEN cache[h].count + 1 ELSE 0]]
      /\ numDrops' = [numDrops EXCEPT ![f] = numDrops[f] + more]
  <2>1. more \in Nat
    BY <1>3
  <2>2. cache' = [cache EXCEPT ![h] =
                     [flow |-> f, count |-> IF same /\ ~full THEN cache[h].count + 1 ELSE 0]]
    BY DEF ReportPacket
  <2>3. numDrops' = [numDrops EXCEPT ![f] = IF ~same \/ full THEN numDrops[f] + (cache[h].count + 1)
                                            ELSE numDrops[f]]
    BY DEF ReportPacket, CountWithCurrent
  <2>4. numDrops[f] \in Nat
    BY <1>2
  <2>5. (IF ~same \/ full THEN numDrops[f] + (cache[h].count + 1) ELSE numDrops[f])
           = numDrops[f] + more
    BY <1>3, <2>4
  <2> QED
    BY <2>2, <2>3, <2>5
<1>7. more \in Nat
  BY <1>3
<1>8. /\ cache'[h].count = IF same /\ ~full THEN cache[h].count + 1 ELSE 0
      /\ c # h => cache'[c] = cache[c]
  BY <1>1, <1>2, <1>6
<1>9. cache'[h].count + more = cache[h].count + 1
  BY <1>3, <1>8
<1> HIDE DEF same, full, more
<1>10. numDrops' \in [Flows -> Nat] /\ numDrops'[f] = numDrops[f] + more
       /\ \A g \in Flows \ {f} : numDrops'[g] = numDrops[g]
  BY <1>2, <1>6, <1>7
<1>11. e \in [FlowsOfCell(c) -> Nat]
  BY <1>4, <1>10
<1>12. SumOf(d) \in Nat
  BY <1>4, <1>5, UnitsFinite
<1>13. CASE h = c
  <2>1. f \in FlowsOfCell(c)
    BY <1>13 DEF FlowsOfCell
  <2>2. e[f] = d[f] + more /\ \A g \in FlowsOfCell(c) \ {f} : e[g] = d[g]
    BY <1>4, <1>10, <2>1
  <2>3. d[f] \in Nat
    BY <1>5, <2>1
  <2> HIDE DEF d, e
  <2>4. SumOf(e) = SumOf(d) + e[f] - d[f]
    BY <1>4, <1>5, <1>11, <2>1, <2>2, SumChange
  <2>5. SumOf(e) = SumOf(d) + more
    BY <1>7, <1>12, <2>2, <2>3, <2>4
  <2>6. cache'[h].count \in Nat
    BY <1>3, <1>8
  <2>7. SumOf(e) + cache'[h].count = SumOf(d) + cache[h].count + 1
    BY <1>3, <1>7, <1>9, <1>12, <2>5, <2>6
  <2> QED
    BY <1>13, <2>7 DEF d, e
<1>14. CASE h # c
  <2>1. f \notin FlowsOfCell(c)
    BY <1>14 DEF FlowsOfCell
  <2>2. e = d
    BY <1>4, <1>10, <2>1
  <2>3. cache'[c].count = cache[c].count
    BY <1>8, <1>14
  <2> HIDE DEF d, e
  <2>4. SumOf(e) + cache'[c].count = SumOf(d) + cache[c].count + 0
    BY <1>3, <1>12, <2>2, <2>3
  <2> QED
    BY <1>14, <2>4 DEF d, e
<1> QED
  BY <1>13, <1>14

LEMMA CheckPacketLossesConserves ==
    ASSUME IInv, CInv, CheckPacketLosses PROVE CInv'
<1> DEFINE t == loop[1]
           r == t % BufferSize
<1>0. /\ sNext \in Nat /\ flowOf \in Seq(Flows) /\ Len(flowOf) = sNext
      /\ ring \in [0 .. BufferSize - 1 -> [flow : Flows, seq : Nat, reported : BOOLEAN]]
      /\ found \subseteq Nat /\ detected \in Nat
      /\ loop \in Nat \X Nat /\ TypeOK
  BY DEF IInv, TypeOK
<1>1. t < loop[2] /\ UNCHANGED <<sNext, flowOf>>
  BY DEF CheckPacketLosses
<1>2. t \in Nat /\ r \in 0 .. BufferSize - 1
  BY <1>0, PairParts, CellType
<1>3. t < sNext
  <2>1. t \in Gap(loop)
    BY <1>0, <1>1, PairParts
  <2> QED
    BY <2>1 DEF IInv, NacksReal, Known
<1>a. CASE ~InRing(t)
  <2>1. UNCHANGED <<ring, cache, detected, numDrops, found>>
    BY <1>a DEF CheckPacketLosses, upstreamVars
  <2> QED
    BY <1>1, <2>1, CInvKept
<1>b. CASE InRing(t)
  <2>1. /\ ring' = [ring EXCEPT ![r].reported = TRUE] /\ detected' = detected + 1
        /\ ReportPacket(ring[r].flow) /\ found' = found \cup {t}
    BY <1>b DEF CheckPacketLosses
  <2>2. ring[r].seq = t /\ ~ring[r].reported
    BY <1>b DEF InRing
  <2>3. PICK f \in Flows : f = ring[r].flow
    BY <1>0, <1>2
  <2>4. f = flowOf[t + 1] /\ t \notin found
    BY <1>2, <1>3, <2>2, <2>3 DEF CInv, RingTrue
  <2>5. IsFiniteSet(found) /\ IsFiniteSet(found') /\ Cardinality(found') = Cardinality(found) + 1
    BY <2>1, <2>4, FS_AddElement DEF CInv, FoundSent
  <2>6. FoundSent'
    BY <1>1, <1>3, <2>1, <2>5 DEF CInv, FoundSent
  <2>7. RingTrue'
    <3> SUFFICES ASSUME NEW s \in Nat, s < sNext, ring'[s % BufferSize].seq = s
                 PROVE  /\ ring'[s % BufferSize].flow = flowOf[s + 1]
                        /\ s \in found' => ring'[s % BufferSize].reported
      BY <1>1 DEF RingTrue
    <3>0. s % BufferSize \in 0 .. BufferSize - 1
      BY CellType
    <3>1. CASE s % BufferSize = r
      <4>1. ring'[r].flow = ring[r].flow /\ ring'[r].seq = t /\ ring'[r].reported
        BY <1>0, <1>2, <2>1, <2>2
      <4>2. s = t
        BY <3>1, <4>1
      <4> QED
        BY <2>3, <2>4, <4>1, <4>2
    <3>2. CASE s % BufferSize # r
      <4>1. ring'[s % BufferSize] = ring[s % BufferSize]
        BY <1>0, <1>2, <2>1, <3>0, <3>2
      <4>2. s # t
        BY <3>2
      <4> QED
        BY <2>1, <4>1, <4>2 DEF CInv, RingTrue
    <3> QED
      BY <3>1, <3>2
  <2>8. ASSUME NEW c \in 0 .. CacheSize - 1
        PROVE  SumOf([g \in FlowsOfCell(c) |-> numDrops'[g]]) + cache'[c].count
                  = FoundOf(FlowsOfCell(c))'
    <3> DEFINE old == {s \in found : flowOf[s + 1] \in FlowsOfCell(c)}
               new == {s \in found' : flowOf[s + 1] \in FlowsOfCell(c)}
    <3>1. FoundOf(FlowsOfCell(c)) = Cardinality(old) /\ FoundOf(FlowsOfCell(c))' = Cardinality(new)
      BY <1>1 DEF FoundOf, FlowsOfCell
    <3>2. IsFiniteSet(old) /\ t \notin old
      BY <2>4, <2>5, FS_Subset
    <3>3. Hash[f] = c => new = old \cup {t}
      BY <2>1, <2>4 DEF FlowsOfCell
    <3>4. Hash[f] # c => new = old
      BY <2>1, <2>4 DEF FlowsOfCell
    <3>5. Cardinality(old) \in Nat
      BY <3>2, FS_CardinalityType
    <3> HIDE DEF old, new
    <3>6. Cardinality(new) = Cardinality(old) + (IF Hash[f] = c THEN 1 ELSE 0)
      BY <3>2, <3>3, <3>4, <3>5, FS_AddElement
    <3>7. SumOf([g \in FlowsOfCell(c) |-> numDrops'[g]]) + cache'[c].count
             = SumOf([g \in FlowsOfCell(c) |-> numDrops[g]]) + cache[c].count
                 + (IF Hash[f] = c THEN 1 ELSE 0)
      BY <1>0, <2>1, <2>3, ReportPacketConserves
    <3>8. SumOf([g \in FlowsOfCell(c) |-> numDrops[g]]) + cache[c].count = Cardinality(old)
      BY <3>1 DEF CInv, EventsConserveLosses
    <3> QED
      BY <3>1, <3>6, <3>7, <3>8
  <2>9. detected' = Cardinality(found')
    BY <2>1, <2>5 DEF CInv, EventsConserveLosses
  <2>10. EventsConserveLosses'
    BY <2>8, <2>9 DEF EventsConserveLosses, FlowsOfCell
  <2> QED
    BY <2>6, <2>7, <2>10 DEF CInv
<1> QED
  BY <1>a, <1>b

(***************************************************************************)
(* The event cache of NetSeer neither loses nor invents losses, whatever   *)
(* the hash and however flows evict each other: ReportPacket's events and  *)
(* the count left in a cell add up to the losses found among its flows.    *)
(***************************************************************************)
THEOREM EventsAlwaysConserve == Spec => []EventsConserveLosses
<1>1. Init => CInv
  BY CInvInit
<1>2. IInv /\ CInv /\ [Next]_vars => CInv'
  <2> SUFFICES ASSUME IInv, CInv, [Next]_vars PROVE CInv'
    OBVIOUS
  <2>1. CASE RecvPacket \/ RecvNack \/ LosePacket \/ LoseNack \/ UNCHANGED vars
    BY <2>1, CInvKept DEF RecvPacket, RecvNack, LosePacket, LoseNack, vars, upstreamVars, historyVars
  <2> QED
    BY <2>1, SendPacketConserves, CheckPacketLossesConserves DEF Next
<1>3. CInv => EventsConserveLosses
  BY DEF CInv
<1> QED
  BY <1>1, <1>2, <1>3, IInvAlways, PTL DEF Spec
=============================================================================
