--------------------------- MODULE FancyFSMProofs ---------------------------
(***************************************************************************)
(* Proofs about the counting protocol: type correctness, and the safety of *)
(* the dedicated and tree machines whatever the link loses.                *)
(***************************************************************************)
EXTENDS FancyFSM, TLAPS

(* What the head and the tail of a non-empty channel are. *)
LEMMA TailOfChannel ==
    ASSUME NEW chan \in Seq(Message), chan # <<>>
    PROVE  /\ Len(chan) \in Nat \ {0}
           /\ Head(chan) = chan[1] /\ Head(chan) \in Message
           /\ Tail(chan) \in Seq(Message)
           /\ Len(Tail(chan)) = Len(chan) - 1
           /\ \A i \in 1 .. Len(chan) - 1 : Tail(chan)[i] = chan[i + 1]
           /\ \A i \in 1 .. Len(chan) : chan[i] \in Message
  OBVIOUS

(* What sending a message does to a channel. *)
LEMMA AppendToChannel ==
    ASSUME NEW chan \in Seq(Message), NEW m \in Message
    PROVE  /\ Len(chan) \in Nat
           /\ Append(chan, m) \in Seq(Message)
           /\ Len(Append(chan, m)) = Len(chan) + 1
           /\ \A i \in 1 .. Len(chan) : Append(chan, m)[i] = chan[i]
           /\ Append(chan, m)[Len(chan) + 1] = m
  OBVIOUS

(* A header's sequence number fits its field. *)
LEMMA HeaderSeqType == TypeOK => HeaderSeq \in 0 .. SeqMod - 1
  BY ConstantsAssumption DEF TypeOK, HeaderSeq

LEMMA DropsType ==
    ASSUME NEW c \in Nat, NEW remote \in Nat
    PROVE  (c - remote) % Word \in Nat
  BY ConstantsAssumption

LEMMA ShiftType ==
    ASSUME NEW T, NEW hist \in [1 .. HistDepth -> T], NEW m \in T
    PROVE  Shift(hist, m) \in [1 .. HistDepth -> T]
  BY ConstantsAssumption DEF Shift

-----------------------------------------------------------------------------
(* Every step keeps the types, one step of the proof for each action. *)
LEMMA TypeStep == TypeOK /\ [Next]_vars => TypeOK'
<1> SUFFICES ASSUME TypeOK, [Next]_vars PROVE TypeOK'
  OBVIOUS
<1> USE ConstantsAssumption
<1> USE DEF TypeOK
<1>h. HeaderSeq \in 0 .. SeqMod - 1
  BY HeaderSeqType
<1>m. \A t \in MessageTypes, q \in 0 .. SeqMod - 1, v \in Nat :
        Msg(t, q, v) \in Message
  BY DEF Msg, Message
<1>1. CASE SendStart
  <2>1. sMax[1] \in Nat
    <3>1. 1 \in 1 .. HistDepth
      OBVIOUS
    <3>2. sMax[1] \in Maxima
      BY <3>1
    <3> QED
      BY <3>2
  <2>2. Msg("START", HeaderSeq, sMax[1]) \in Message
    BY <1>h, <1>m, <2>1 DEF MessageTypes
  <2>3. fwd' \in Seq(Message)
    BY <1>1, <2>2, AppendToChannel DEF SendStart
  <2> QED
    BY <1>1, <2>3 DEF SendStart, receiverVars, verdictVars, historyVars
<1>2. CASE SendStop
  <2>1. Msg("STOP", HeaderSeq, 0) \in Message
    BY <1>h, <1>m DEF MessageTypes
  <2>2. fwd' \in Seq(Message)
    BY <1>2, <2>1, AppendToChannel DEF SendStop
  <2> QED
    BY <1>2, <2>2 DEF SendStop, receiverVars, verdictVars, historyVars
<1>3. CASE SendPacket
  <2>1. /\ Msg("DATA", HeaderSeq, sCounter + 1) \in Message
        /\ Msg("PLAIN", 0, 0) \in Message
    BY <1>h, <1>m DEF MessageTypes
  <2>2. /\ Append(fwd, Msg("DATA", HeaderSeq, sCounter + 1)) \in Seq(Message)
        /\ Append(fwd, Msg("PLAIN", 0, 0)) \in Seq(Message)
    BY <2>1, AppendToChannel
  <2>3. fwd' \in Seq(Message)
    BY <1>3, <2>2, Zenon DEF SendPacket
  <2>4. sCounter + 1 \in Nat
    OBVIOUS
  <2> QED
    BY <1>3, <2>3, <2>4 DEF SendPacket, receiverVars, verdictVars, historyVars
<1>4. CASE RecvStart
  <2>1. Head(fwd) \in Message /\ Tail(fwd) \in Seq(Message)
    BY <1>4, TailOfChannel DEF RecvStart, HeadIs
  <2>2. Head(fwd).seq \in 0 .. SeqMod - 1 /\ Head(fwd).val \in Nat
    BY <2>1 DEF Message
  <2>3. Msg("SACK", Head(fwd).seq, 0) \in Message
    BY <1>m, <2>2 DEF MessageTypes
  <2>4. Append(bwd, Msg("SACK", Head(fwd).seq, 0)) \in Seq(Message)
    BY <2>3, AppendToChannel
  <2>5. Shift(rMax, Head(fwd).val) \in [1 .. HistDepth -> Nat]
    BY <2>2, ShiftType
  <2>6. /\ rSEQ' \in 0 .. SeqMod - 1 /\ rCounter' \in Nat
        /\ rState' \in {"IDLE", "COUNTING", "WAIT_COUNTER_SEND", "COUNTER_ACK"}
    BY <1>4, <2>2 DEF RecvStart, ResetCounter, AdoptSession
  <2> QED
    BY <1>4, <2>1, <2>4, <2>5, <2>6
    DEF RecvStart, StartAccepted, ShiftsHistory, senderVars, verdictVars,
        historyVars
<1>5. CASE RecvStop
  <2>1. Tail(fwd) \in Seq(Message)
    BY <1>5, TailOfChannel DEF RecvStop, HeadIs
  <2>2. rOrphans' \in Nat
    BY <1>5 DEF RecvStop, ScheduleCounter
  <2>3. rEvent' \in BOOLEAN
    BY <1>5 DEF RecvStop, ScheduleCounter
  <2> QED
    BY <1>5, <2>1, <2>2, <2>3 DEF RecvStop, senderVars, verdictVars, historyVars
<1>6. CASE RecvCounterAck
  <2>1. Tail(fwd) \in Seq(Message)
    BY <1>6, TailOfChannel DEF RecvCounterAck, HeadIs
  <2> QED
    BY <1>6, <2>1
    DEF RecvCounterAck, CancelCounter, senderVars, verdictVars, historyVars
<1>7. CASE RecvPacket
  <2>1. Tail(fwd) \in Seq(Message)
    BY <1>7, TailOfChannel DEF RecvPacket, HeadIs
  <2> QED
    BY <1>7, <2>1 DEF RecvPacket, senderVars, verdictVars, historyVars
<1>8. CASE SendGreyCounter
  <2>1. Msg("COUNTER", rSEQ, rCounter) \in Message
    BY <1>m DEF MessageTypes
  <2>2. bwd' \in Seq(Message)
    BY <1>8, <2>1, AppendToChannel DEF SendGreyCounter
  <2> QED
    BY <1>8, <2>2
    DEF SendGreyCounter, OrphanPending, senderVars, verdictVars, historyVars
<1>9. CASE RecvStartAck
  <2>1. Tail(bwd) \in Seq(Message)
    BY <1>9, TailOfChannel DEF RecvStartAck, HeadIs
  <2> QED
    BY <1>9, <2>1
    DEF RecvStartAck, ScheduleStop, receiverVars, verdictVars, historyVars
<1>10. CASE RecvCounter
  <2>1. Head(bwd) \in Message /\ Tail(bwd) \in Seq(Message)
    BY <1>10, TailOfChannel DEF RecvCounter, HeadIs
  <2>2. Head(bwd).seq \in 0 .. SeqMod - 1 /\ Head(bwd).val \in Nat
    BY <2>1 DEF Message
  <2>3. Msg("CACK", Head(bwd).seq, 0) \in Message
    BY <1>m, <2>2 DEF MessageTypes
  <2>4. fwd' \in Seq(Message)
    BY <1>10, <2>3, AppendToChannel DEF RecvCounter
  <2>5. CASE CounterAccepted /\ Exchange
    <3>1. report' \in Nat
      BY <2>2, <2>5, DropsType DEF Exchange, Drops
    <3>2. \A m \in Maxima : Shift(sMax, m) \in [1 .. HistDepth -> Maxima]
      BY ShiftType
    <3>3. failures' \in Nat /\ flagged' \in BOOLEAN
      BY <2>5 DEF Exchange
    <3> QED
      BY <1>10, <2>1, <2>4, <2>5, <3>1, <3>2, <3>3
      DEF RecvCounter, Exchange, receiverVars
  <2>6. CASE ~CounterAccepted
    BY <1>10, <2>1, <2>4, <2>6
    DEF RecvCounter, receiverVars, senderVars, verdictVars, historyVars
  <2> QED
    BY <1>10, <2>5, <2>6 DEF RecvCounter
<1>11. CASE LoseForward
  <2>1. Tail(fwd) \in Seq(Message)
    BY <1>11, TailOfChannel DEF LoseForward
  <2>2. lost' \in Nat
    BY <1>11 DEF LoseForward, historyVars
  <2>3. everLost' \in BOOLEAN
    BY <1>11 DEF LoseForward, historyVars
  <2> QED
    BY <1>11, <2>1, <2>2, <2>3
    DEF LoseForward, receiverVars, senderVars, verdictVars, historyVars
<1>12. CASE LoseBackward
  <2>1. Tail(bwd) \in Seq(Message)
    BY <1>12, TailOfChannel DEF LoseBackward
  <2> QED
    BY <1>12, <2>1
    DEF LoseBackward, receiverVars, senderVars, verdictVars, historyVars
<1>13. CASE UNCHANGED vars
  BY <1>13
  DEF vars, receiverVars, senderVars, verdictVars, historyVars
<1> QED
  BY <1>1, <1>2, <1>3, <1>4, <1>5, <1>6, <1>7, <1>8, <1>9, <1>10, <1>11,
     <1>12, <1>13 DEF Next

LEMMA InitType == Init => TypeOK
<1> SUFFICES ASSUME Init PROVE TypeOK
  OBVIOUS
<1>1. 0 \in 0 .. SeqMod - 1
  BY ConstantsAssumption
<1>2. [i \in 1 .. HistDepth |-> 0] \in [1 .. HistDepth -> Maxima]
  BY ConstantsAssumption
<1>3. [i \in 1 .. HistDepth |-> 0] \in [1 .. HistDepth -> Nat]
  OBVIOUS
<1>4. 0 \in Nat
  OBVIOUS
<1>5. <<>> \in Seq(Message)
  OBVIOUS
<1> QED
  BY <1>1, <1>2, <1>3, <1>4, <1>5, Zenon DEF Init, TypeOK

(* The fields of both ends' GreyInfo and the link always have their types. *)
THEOREM TypeCorrect == Spec => []TypeOK
  BY InitType, TypeStep, PTL DEF Spec

-----------------------------------------------------------------------------
(* Facts about the messages of a channel that the invariant is made of. *)

(* The session numbers are at least lo and at most hi. *)
Within(chan, lo, hi) ==
    \A i \in 1 .. Len(chan) : lo <= chan[i].seq /\ chan[i].seq <= hi

(* They do not decrease from the oldest message to the newest. *)
Sorted(chan) ==
    \A i, j \in 1 .. Len(chan) : i < j => chan[i].seq <= chan[j].seq

(* The counters of session q are at most c. *)
CountersAtMost(chan, q, c) ==
    \A i \in 1 .. Len(chan) :
        chan[i].type = "COUNTER" /\ chan[i].seq = q => chan[i].val <= c

(* The ranks of the packets of session q lie above lo and up to hi. *)
RanksWithin(chan, q, lo, hi) ==
    \A i \in 1 .. Len(chan) :
        chan[i].type = "DATA" /\ chan[i].seq = q =>
            lo < chan[i].val /\ chan[i].val <= hi

(* They increase from the oldest packet to the newest. *)
RanksIncrease(chan, q) ==
    \A i, j \in 1 .. Len(chan) :
        /\ i < j
        /\ chan[i].type = "DATA" /\ chan[i].seq = q
        /\ chan[j].type = "DATA" /\ chan[j].seq = q
        => chan[i].val < chan[j].val

NoPlain(chan) == \A i \in 1 .. Len(chan) : chan[i].type # "PLAIN"

(* Taking the head off a channel keeps all of them. *)
LEMMA TailFacts ==
    ASSUME NEW chan \in Seq(Message), chan # <<>>,
           NEW lo \in Int, NEW hi \in Int, NEW q \in Int
    PROVE  /\ Within(chan, lo, hi) => Within(Tail(chan), lo, hi)
           /\ Sorted(chan) => Sorted(Tail(chan))
           /\ CountersAtMost(chan, q, hi) => CountersAtMost(Tail(chan), q, hi)
           /\ RanksWithin(chan, q, lo, hi) => RanksWithin(Tail(chan), q, lo, hi)
           /\ RanksIncrease(chan, q) => RanksIncrease(Tail(chan), q)
           /\ NoPlain(chan) => NoPlain(Tail(chan))
  BY TailOfChannel
  DEF Within, Sorted, CountersAtMost, RanksWithin, RanksIncrease, NoPlain

(***************************************************************************)
(* In a sorted channel the head has the least session number, and in one   *)
(* whose ranks increase a packet at the head has the least rank.           *)
(***************************************************************************)
LEMMA HeadFacts ==
    ASSUME NEW chan \in Seq(Message), chan # <<>>,
           NEW lo \in Int, NEW hi \in Int, NEW q \in Int
    PROVE  /\ Within(chan, lo, hi) => lo <= Head(chan).seq /\ Head(chan).seq <= hi
           /\ Within(chan, lo, hi) /\ Sorted(chan) =>
                  Within(Tail(chan), Head(chan).seq, hi)
           /\ RanksWithin(chan, q, lo, hi) /\ RanksIncrease(chan, q)
                  /\ Head(chan).type = "DATA" /\ Head(chan).seq = q =>
                  /\ lo < Head(chan).val /\ Head(chan).val <= hi
                  /\ RanksWithin(Tail(chan), q, Head(chan).val, hi)
  BY TailOfChannel DEF Within, Sorted, RanksWithin, RanksIncrease

(* Every position of a channel after a send is an old one or the new one. *)
LEMMA AppendCases ==
    ASSUME NEW chan \in Seq(Message), NEW m \in Message
    PROVE  \A i \in 1 .. Len(Append(chan, m)) :
              \/ i \in 1 .. Len(chan) /\ Append(chan, m)[i] = chan[i]
              \/ i = Len(chan) + 1 /\ Append(chan, m)[i] = m
  BY AppendToChannel

(* What must hold of a message for its sending to keep each fact. *)
LEMMA AppendFacts ==
    ASSUME NEW chan \in Seq(Message), NEW m \in Message,
           NEW lo \in Int, NEW hi \in Int, NEW q \in Int
    PROVE  /\ Within(chan, lo, hi) /\ lo <= m.seq /\ m.seq <= hi =>
                  Within(Append(chan, m), lo, hi)
           /\ Sorted(chan) /\ Within(chan, lo, m.seq) => Sorted(Append(chan, m))
           /\ CountersAtMost(chan, q, hi)
                  /\ (m.type = "COUNTER" /\ m.seq = q => m.val <= hi) =>
                  CountersAtMost(Append(chan, m), q, hi)
           /\ RanksWithin(chan, q, lo, hi)
                  /\ (m.type = "DATA" /\ m.seq = q => lo < m.val /\ m.val <= hi)
                  => RanksWithin(Append(chan, m), q, lo, hi)
           /\ RanksIncrease(chan, q)
                  /\ (m.type = "DATA" /\ m.seq = q =>
                          RanksWithin(chan, q, lo, m.val - 1)) =>
                  RanksIncrease(Append(chan, m), q)
           /\ NoPlain(chan) /\ m.type # "PLAIN" => NoPlain(Append(chan, m))
<1> DEFINE c == Append(chan, m)
<1>1. \A i \in 1 .. Len(c) : \/ i \in 1 .. Len(chan) /\ c[i] = chan[i]
                             \/ i = Len(chan) + 1 /\ c[i] = m
  BY AppendCases
<1>2. Len(chan) \in Nat
  OBVIOUS
<1>3. \A i, j \in 1 .. Len(c) : i < j => i \in 1 .. Len(chan) /\ c[i] = chan[i]
  BY <1>1, <1>2, AppendToChannel
<1> HIDE DEF c
<1>4. Within(chan, lo, hi) /\ lo <= m.seq /\ m.seq <= hi => Within(c, lo, hi)
  BY <1>1 DEF Within
<1>5. Sorted(chan) /\ Within(chan, lo, m.seq) => Sorted(c)
  BY <1>1, <1>3 DEF Sorted, Within
<1>6. CountersAtMost(chan, q, hi)
        /\ (m.type = "COUNTER" /\ m.seq = q => m.val <= hi)
        => CountersAtMost(c, q, hi)
  BY <1>1 DEF CountersAtMost
<1>7. RanksWithin(chan, q, lo, hi)
        /\ (m.type = "DATA" /\ m.seq = q => lo < m.val /\ m.val <= hi)
        => RanksWithin(c, q, lo, hi)
  BY <1>1 DEF RanksWithin
<1>8. RanksIncrease(chan, q)
        /\ (m.type = "DATA" /\ m.seq = q => RanksWithin(chan, q, lo, m.val - 1))
        => RanksIncrease(c, q)
  <2>0. \A i \in 1 .. Len(chan) : chan[i] \in Message
    OBVIOUS
  <2>1. \A i \in 1 .. Len(chan) : chan[i].val \in Nat
    BY <2>0 DEF Message
  <2>2. m.val \in Nat
    BY DEF Message
  <2> QED
    BY <1>1, <1>3, <2>1, <2>2 DEF RanksIncrease, RanksWithin
<1>9. NoPlain(chan) /\ m.type # "PLAIN" => NoPlain(c)
  BY <1>1 DEF NoPlain
<1> QED
  BY <1>4, <1>5, <1>6, <1>7, <1>8, <1>9 DEF c

(***************************************************************************)
(* Why the two ends agree.  Read round the link, from the receiver through *)
(* its replies to the sender and back through the sender's messages, the   *)
(* session numbers never increase, and they span at most two sessions:     *)
(*                                                                         *)
(*     sSEQ >= fwd (newest ... oldest) >= rSEQ                             *)
(*     rSEQ >= bwd (newest ... oldest) >= sSEQ - 1                         *)
(*                                                                         *)
(* A START ack for sSEQ can then only be there if rSEQ = sSEQ, and nothing *)
(* older than rSEQ can still reach the receiver.                           *)
(***************************************************************************)
RingOrder ==
    /\ sSEQ - 1 <= rSEQ /\ rSEQ <= sSEQ
    /\ Within(fwd, rSEQ, sSEQ) /\ Sorted(fwd)
    /\ Within(bwd, sSEQ - 1, rSEQ) /\ Sorted(bwd)

(***************************************************************************)
(* Until the sender announces its session nobody else is in it.            *)
(***************************************************************************)
IdleBehind ==
    sState = "IDLE" =>
        \/ rSEQ < sSEQ /\ \A i \in 1 .. Len(fwd) : fwd[i].seq < sSEQ
        \/ sSEQ = 0 /\ Len(fwd) = 0 /\ Len(bwd) = 0 /\ ~rEvent /\ rOrphans = 0

(***************************************************************************)
(* Within the sender's session the receiver's counter, the counters it has *)
(* sent and the ranks of the packets in flight are ordered.                *)
(***************************************************************************)
CountsOrdered ==
    /\ rSEQ = sSEQ => rCounter <= sCounter
    /\ CountersAtMost(bwd, sSEQ, sCounter)
    /\ RanksWithin(fwd, sSEQ, IF rSEQ = sSEQ THEN rCounter ELSE 0, sCounter)
    /\ RanksIncrease(fwd, sSEQ)

(***************************************************************************)
(* The sender's event goes with its state; it counts only in a session the *)
(* receiver is in, and only while the session number fits the header.      *)
(***************************************************************************)
SenderInStep ==
    /\ sState \in {"IDLE", "START_ACK"} => sEvent = "START" /\ sCounter = 0
    /\ sState \in {"COUNTING", "WAIT_COUNTER_RECEIVE"} =>
          sEvent = "STOP" /\ sSEQ < SeqMod /\ rSEQ = sSEQ

IInv ==
    /\ TypeOK
    /\ SenderInStep
    /\ NoPlain(fwd)
    /\ sSEQ < SeqMod => RingOrder /\ IdleBehind /\ CountsOrdered


(* The arithmetic content of TypeOK, without its Boolean variables. *)
LEMMA TypeFacts ==
    ASSUME TypeOK
    PROVE  /\ sSEQ \in Nat /\ rSEQ \in 0 .. SeqMod - 1
           /\ sCounter \in Nat /\ rCounter \in Nat /\ rOrphans \in Nat
           /\ Len(fwd) \in Nat /\ Len(bwd) \in Nat
           /\ fwd \in Seq(Message) /\ bwd \in Seq(Message)
           /\ \A i \in 1 .. Len(fwd) :
                 fwd[i].seq \in 0 .. SeqMod - 1 /\ fwd[i].val \in Nat
           /\ \A i \in 1 .. Len(bwd) :
                 bwd[i].seq \in 0 .. SeqMod - 1 /\ bwd[i].val \in Nat
  <1>1. \A i \in 1 .. Len(fwd) : fwd[i] \in Message
    BY DEF TypeOK
  <1>2. \A i \in 1 .. Len(bwd) : bwd[i] \in Message
    BY DEF TypeOK
  <1> QED
    BY <1>1, <1>2 DEF TypeOK, Message

(* Below the width of the field the header carries the session number. *)
LEMMA HeaderSeqExact ==
    ASSUME sSEQ \in Nat, sSEQ < SeqMod PROVE HeaderSeq = sSEQ
  BY ConstantsAssumption DEF HeaderSeq

LEMMA IInvInit == Kind # "wildcard" /\ Init => IInv
<1> SUFFICES ASSUME Init PROVE IInv
  OBVIOUS
<1>1. TypeOK
  BY InitType
<1>2. Len(fwd) = 0 /\ Len(bwd) = 0
  BY DEF Init
<1>3. SenderInStep /\ NoPlain(fwd)
  BY <1>2 DEF Init, SenderInStep, NoPlain
<1>4. RingOrder
  BY <1>2 DEF Init, RingOrder, Within, Sorted
<1>5. CountsOrdered
  BY <1>2
  DEF Init, CountsOrdered, CountersAtMost, RanksWithin, RanksIncrease
<1>6. IdleBehind
  BY <1>2 DEF Init, IdleBehind
<1> QED
  BY <1>1, <1>3, <1>4, <1>5, <1>6 DEF IInv

-----------------------------------------------------------------------------
(***************************************************************************)
(* The steps that only take a message off the link: nothing else changes,  *)
(* and every part of the invariant survives the loss of a message.         *)
(***************************************************************************)
LEMMA Numbers ==
    ASSUME IInv
    PROVE  /\ sSEQ \in Nat /\ rSEQ \in Nat /\ rSEQ < SeqMod
           /\ sCounter \in Nat /\ rCounter \in Nat /\ rOrphans \in Nat
           /\ sSEQ - 1 \in Int /\ SeqMod \in Nat
           /\ (IF rSEQ = sSEQ THEN rCounter ELSE 0) \in Nat
           /\ fwd \in Seq(Message) /\ bwd \in Seq(Message)
           /\ Len(fwd) \in Nat /\ Len(bwd) \in Nat
  BY TypeFacts, ConstantsAssumption DEF IInv

LEMMA TakeForward ==
    ASSUME IInv, fwd # <<>>, fwd' = Tail(fwd), TypeOK',
           UNCHANGED <<sState, sSEQ, sCounter, sEvent, rSEQ, rCounter, bwd>>
    PROVE  IInv'
<1>n. /\ sSEQ \in Int /\ rSEQ \in Int /\ sCounter \in Int
      /\ (IF rSEQ = sSEQ THEN rCounter ELSE 0) \in Int
      /\ fwd \in Seq(Message)
  BY Numbers
<1>1. SenderInStep'
  BY DEF IInv, SenderInStep
<1>2. NoPlain(fwd)'
  BY <1>n, TailFacts DEF IInv
<1>3. RingOrder => RingOrder'
  BY <1>n, TailFacts DEF RingOrder
<1>4. IdleBehind => IdleBehind'
  BY <1>n, TailOfChannel DEF IdleBehind
<1>5. CountsOrdered => CountsOrdered'
  BY <1>n, TailFacts DEF CountsOrdered
<1> QED
  BY <1>1, <1>2, <1>3, <1>4, <1>5 DEF IInv

LEMMA TakeBackward ==
    ASSUME IInv, bwd # <<>>, bwd' = Tail(bwd), TypeOK',
           UNCHANGED <<senderVars, receiverVars, fwd>>
    PROVE  IInv'
<1>n. /\ sSEQ - 1 \in Int /\ sSEQ \in Int /\ rSEQ \in Int /\ sCounter \in Int
      /\ bwd \in Seq(Message)
  BY Numbers
<1> USE DEF senderVars, receiverVars
<1>1. SenderInStep' /\ NoPlain(fwd)'
  BY DEF IInv, SenderInStep
<1>2. RingOrder => RingOrder'
  BY <1>n, TailFacts DEF RingOrder
<1>3. IdleBehind => IdleBehind'
  BY <1>n, TailOfChannel DEF IdleBehind
<1>4. CountsOrdered => CountsOrdered'
  BY <1>n, TailFacts DEF CountsOrdered
<1> QED
  BY <1>1, <1>2, <1>3, <1>4 DEF IInv

-----------------------------------------------------------------------------
(* What the sender sends is the newest message of the newest session. *)

LEMMA RingGrows ==
    ASSUME IInv, RingOrder, NEW m \in Message, m.seq = sSEQ,
           fwd' = Append(fwd, m), UNCHANGED <<sSEQ, rSEQ, bwd>>
    PROVE  RingOrder'
<1>n. sSEQ \in Int /\ rSEQ \in Int /\ fwd \in Seq(Message)
  BY Numbers
<1>1. Within(fwd, rSEQ, sSEQ) /\ Sorted(fwd) /\ rSEQ <= m.seq /\ m.seq <= sSEQ
  BY <1>n DEF RingOrder
<1>2. Within(fwd', rSEQ, sSEQ)
  BY <1>n, <1>1, AppendFacts
<1>3. Sorted(fwd')
  BY <1>n, <1>1, AppendFacts
<1> QED
  BY <1>2, <1>3 DEF RingOrder

LEMMA SendStartStep ==
    ASSUME Kind # "wildcard", IInv, SendStart, TypeOK' PROVE IInv'
<1>n. /\ sSEQ \in Nat /\ rSEQ \in Int /\ sCounter \in Int
      /\ (IF rSEQ = sSEQ THEN rCounter ELSE 0) \in Int
      /\ fwd \in Seq(Message)
  BY Numbers
<1>s. /\ sState' = "START_ACK" /\ sEvent' = "START"
      /\ sCounter = 0 /\ sCounter' = 0
  BY DEF SendStart, IInv, SenderInStep, TypeOK
<1>u. UNCHANGED <<sSEQ, rSEQ, rCounter, bwd>>
  BY DEF SendStart, receiverVars
<1> DEFINE m == Msg("START", HeaderSeq, sMax[1])
<1>m. m \in Message /\ m.type = "START"
  <2>1. 1 \in 1 .. HistDepth
    BY ConstantsAssumption
  <2>2. sMax[1] \in Maxima
    BY <2>1 DEF IInv, TypeOK
  <2> QED
    BY <2>2, HeaderSeqType, ConstantsAssumption
    DEF IInv, Msg, Message, MessageTypes
<1>h. sSEQ < SeqMod => m.seq = sSEQ
  BY <1>n, HeaderSeqExact DEF Msg
<1>f. fwd' = Append(fwd, m)
  BY DEF SendStart
<1> HIDE DEF m
<1>1. SenderInStep'
  BY <1>s DEF SenderInStep
<1>2. NoPlain(fwd)'
  BY <1>n, <1>f, <1>m, AppendFacts DEF IInv
<1>3. sSEQ < SeqMod /\ RingOrder => RingOrder'
  BY <1>f, <1>m, <1>h, <1>u, RingGrows
<1>4. IdleBehind'
  BY <1>s DEF IdleBehind
<1>5. CountsOrdered => CountsOrdered'
  BY <1>n, <1>f, <1>m, <1>s, <1>u, AppendFacts DEF CountsOrdered
<1> QED
  BY <1>1, <1>2, <1>3, <1>4, <1>5, <1>u DEF IInv

LEMMA SendStopStep ==
    ASSUME Kind # "wildcard", IInv, SendStop, TypeOK' PROVE IInv'
<1>n. /\ sSEQ \in Nat /\ rSEQ \in Int /\ sCounter \in Int
      /\ (IF rSEQ = sSEQ THEN rCounter ELSE 0) \in Int
      /\ fwd \in Seq(Message)
  BY Numbers
<1>s. /\ sState' = "WAIT_COUNTER_RECEIVE" /\ sEvent' = "STOP"
      /\ sSEQ < SeqMod /\ rSEQ = sSEQ
  BY DEF SendStop, IInv, SenderInStep, TypeOK
<1>u. UNCHANGED <<sSEQ, sCounter, rSEQ, rCounter, bwd>>
  BY DEF SendStop, receiverVars
<1> DEFINE m == Msg("STOP", HeaderSeq, 0)
<1>m. m \in Message /\ m.type = "STOP" /\ m.seq = sSEQ
  BY <1>n, <1>s, HeaderSeqType, HeaderSeqExact
  DEF IInv, Msg, Message, MessageTypes
<1>f. fwd' = Append(fwd, m)
  BY DEF SendStop
<1> HIDE DEF m
<1>1. SenderInStep'
  BY <1>s, <1>u DEF SenderInStep
<1>2. NoPlain(fwd)'
  BY <1>n, <1>f, <1>m, AppendFacts DEF IInv
<1>3. RingOrder => RingOrder'
  BY <1>f, <1>m, <1>u, RingGrows
<1>4. IdleBehind'
  BY <1>s DEF IdleBehind
<1>5. CountsOrdered => CountsOrdered'
  BY <1>n, <1>f, <1>m, <1>u, AppendFacts DEF CountsOrdered
<1> QED
  BY <1>1, <1>2, <1>3, <1>4, <1>5, <1>u DEF IInv

(* A packet's rank is above that of every packet of its session before it. *)
LEMMA SendPacketStep ==
    ASSUME Kind # "wildcard", IInv, SendPacket, TypeOK' PROVE IInv'
<1>n. /\ sSEQ \in Nat /\ rSEQ \in Int /\ sCounter \in Nat
      /\ sCounter + 1 \in Int /\ rCounter \in Int
      /\ fwd \in Seq(Message) /\ bwd \in Seq(Message)
  BY Numbers
<1>s. /\ sState = "COUNTING" /\ sState' = "COUNTING" /\ sEvent' = "STOP"
      /\ sCounter' = sCounter + 1
      /\ sSEQ < SeqMod /\ rSEQ = sSEQ
  BY DEF SendPacket, IInv, SenderInStep
<1>u. UNCHANGED <<sSEQ, rSEQ, rCounter, bwd>>
  BY DEF SendPacket, receiverVars
<1> DEFINE m == Msg("DATA", HeaderSeq, sCounter + 1)
<1>m. /\ m \in Message /\ m.type = "DATA" /\ m.seq = sSEQ
      /\ m.val = sCounter + 1
  BY <1>n, <1>s, HeaderSeqType, HeaderSeqExact
  DEF IInv, Msg, Message, MessageTypes
<1>f. fwd' = Append(fwd, m)
  BY <1>s DEF SendPacket
<1> HIDE DEF m
<1>1. SenderInStep'
  BY <1>s, <1>u DEF SenderInStep
<1>2. NoPlain(fwd)'
  BY <1>n, <1>f, <1>m, AppendFacts DEF IInv
<1>3. RingOrder => RingOrder'
  BY <1>f, <1>m, <1>u, RingGrows
<1>4. IdleBehind'
  BY <1>s DEF IdleBehind
<1>5. ASSUME CountsOrdered PROVE CountsOrdered'
  <2>1. rCounter' <= sCounter'
    BY <1>5, <1>n, <1>s, <1>u DEF CountsOrdered
  <2>2. CountersAtMost(bwd, sSEQ, sCounter + 1)
    <3>1. \A i \in 1 .. Len(bwd) : bwd[i].val \in Nat
      BY TypeFacts DEF IInv
    <3> QED
      BY <1>5, <1>n, <3>1 DEF CountsOrdered, CountersAtMost
  <2>3. RanksWithin(fwd, sSEQ, rCounter, sCounter)
    BY <1>5, <1>s DEF CountsOrdered
  <2>4. RanksWithin(fwd, sSEQ, rCounter, sCounter + 1)
    <3>1. \A i \in 1 .. Len(fwd) : fwd[i].val \in Nat
      BY TypeFacts DEF IInv
    <3> QED
      BY <2>3, <1>n, <3>1 DEF RanksWithin
  <2>5. RanksWithin(Append(fwd, m), sSEQ, rCounter, sCounter + 1)
    BY <1>5, <2>1, <2>4, <1>n, <1>m, <1>s, <1>u, AppendFacts DEF CountsOrdered
  <2>6. RanksIncrease(Append(fwd, m), sSEQ)
    <3>1. m.val - 1 = sCounter
      BY <1>n, <1>m
    <3> QED
      BY <1>5, <2>3, <3>1, <1>n, <1>m, AppendFacts DEF CountsOrdered
  <2> QED
    BY <2>1, <2>2, <2>5, <2>6, <1>s, <1>u, <1>f DEF CountsOrdered
<1> QED
  BY <1>1, <1>2, <1>3, <1>4, <1>5, <1>u DEF IInv

-----------------------------------------------------------------------------
(* The receiver follows the sender's messages in the order they were sent. *)

LEMMA MessageFields ==
    \A m \in Message : m.seq \in Int /\ m.seq \in 0 .. SeqMod - 1 /\ m.val \in Int
<1>1. 0 .. SeqMod - 1 \subseteq Int
  BY ConstantsAssumption
<1> QED
  BY <1>1 DEF Message

(* A range that holds still holds when it is made wider. *)
LEMMA WidenTop ==
    ASSUME NEW chan \in Seq(Message), NEW lo \in Int, NEW hi \in Int,
           NEW top \in Int, Within(chan, lo, hi), hi <= top
    PROVE  Within(chan, lo, top)
<1>1. \A i \in 1 .. Len(chan) : chan[i] \in Message
  OBVIOUS
<1> QED
  BY <1>1, MessageFields DEF Within

LEMMA WidenRanks ==
    ASSUME NEW chan \in Seq(Message), NEW q \in Int, NEW lo \in Int,
           NEW hi \in Int, NEW low \in Int,
           RanksWithin(chan, q, lo, hi), low <= lo
    PROVE  RanksWithin(chan, q, low, hi)
<1>1. \A i \in 1 .. Len(chan) : chan[i] \in Message
  OBVIOUS
<1> QED
  BY <1>1, MessageFields DEF RanksWithin

(* A repeated or new START brings the receiver to the START's session. *)
LEMMA RecvStartStep ==
    ASSUME Kind # "wildcard", IInv, RecvStart, TypeOK' PROVE IInv'
<1>f. fwd # <<>> /\ fwd' = Tail(fwd) /\ Head(fwd).type = "START"
  BY DEF RecvStart, HeadIs
<1>u. UNCHANGED <<sState, sSEQ, sCounter, sEvent, rEvent, rOrphans>>
  BY DEF RecvStart, senderVars
<1>a. CASE ~StartAccepted
  <2>1. UNCHANGED <<rSEQ, rCounter, bwd>>
    BY <1>a DEF RecvStart
  <2> QED
    BY <1>f, <1>u, <2>1, TakeForward
<1>b. CASE StartAccepted
  <2> DEFINE q == Head(fwd).seq
             m == Msg("SACK", q, 0)
  <2>r. rSEQ' = q /\ rCounter' = 0 /\ bwd' = Append(bwd, m)
    BY <1>b DEF RecvStart, ResetCounter, AdoptSession
  <2>n. /\ sSEQ \in Nat /\ sSEQ - 1 \in Int /\ rSEQ \in Nat
        /\ sCounter \in Nat /\ rCounter \in Nat
        /\ (IF rSEQ = sSEQ THEN rCounter ELSE 0) \in Nat
        /\ fwd \in Seq(Message) /\ bwd \in Seq(Message)
        /\ Len(fwd) \in Nat \ {0}
    BY Numbers, <1>f, TailOfChannel
  <2>i. /\ sSEQ \in Int /\ rSEQ \in Int /\ sCounter \in Int /\ 0 \in Int
        /\ (IF rSEQ = sSEQ THEN rCounter ELSE 0) \in Int
        /\ 0 <= (IF rSEQ = sSEQ THEN rCounter ELSE 0)
    BY <2>n
  <2>q. q \in 0 .. SeqMod - 1 /\ q \in Int
    BY <1>f, <2>n, TailOfChannel, MessageFields
  <2>m. m \in Message /\ m.type = "SACK" /\ m.seq = q
    BY <2>q DEF Msg, Message, MessageTypes
  <2> HIDE DEF m
  <2>w. RingOrder => rSEQ <= q /\ q <= sSEQ
    BY <1>f, <2>n, <2>i, HeadFacts DEF RingOrder
  <2> HIDE DEF q
  <2>1. SenderInStep'
    BY <1>u, <2>r, <2>w, <2>n, <2>q DEF IInv, SenderInStep
  <2>2. NoPlain(fwd)'
    BY <1>f, <2>n, <2>i, TailFacts DEF IInv
  <2>3. ASSUME RingOrder PROVE RingOrder'
    <3>1. sSEQ - 1 <= q /\ q <= sSEQ
      BY <2>3, <2>w, <2>n, <2>q DEF RingOrder
    <3>2. Within(fwd', q, sSEQ) /\ Sorted(fwd')
      BY <2>3, <1>f, <2>n, <2>i, HeadFacts, TailFacts DEF RingOrder, q
    <3>3. Within(bwd, sSEQ - 1, q)
      BY <2>3, <2>w, <2>n, <2>q, <2>i, WidenTop DEF RingOrder
    <3>4. Within(bwd', sSEQ - 1, q)
      <4>1. sSEQ - 1 <= m.seq /\ m.seq <= q
        BY <3>1, <2>m, <2>q
      <4> QED
        BY <4>1, <3>3, <2>r, <2>m, <2>n, <2>q, <2>i, AppendFacts
    <3>5. Sorted(bwd')
      BY <2>3, <3>3, <2>r, <2>m, <2>n, <2>q, <2>i, AppendFacts DEF RingOrder
    <3> QED
      BY <3>1, <3>2, <3>4, <3>5, <1>u, <2>r DEF RingOrder
  <2>4. ASSUME IdleBehind PROVE IdleBehind'
    <3> SUFFICES ASSUME sState = "IDLE"
                 PROVE  rSEQ' < sSEQ /\ \A i \in 1 .. Len(fwd') : fwd'[i].seq < sSEQ
      BY <1>u DEF IdleBehind
    <3>1. \A i \in 1 .. Len(fwd) : fwd[i].seq < sSEQ
      BY <2>4, <2>n DEF IdleBehind
    <3>2. q < sSEQ
      BY <3>1, <2>n, <1>f, TailOfChannel DEF q
    <3> QED
      BY <3>1, <3>2, <2>n, <2>r, <1>f, TailOfChannel
  <2>5. ASSUME CountsOrdered PROVE CountsOrdered'
    <3>1. CountersAtMost(bwd', sSEQ, sCounter)
      BY <2>5, <2>n, <2>r, <2>m, <2>i, AppendFacts DEF CountsOrdered
    <3>2. RanksWithin(fwd', sSEQ, IF rSEQ = sSEQ THEN rCounter ELSE 0, sCounter)
      BY <2>5, <2>n, <1>f, TailFacts DEF CountsOrdered
    <3>3. RanksWithin(fwd', sSEQ, 0, sCounter)
      BY <3>2, <2>n, <1>f, <2>i, TailOfChannel, WidenRanks
    <3>4. RanksIncrease(fwd', sSEQ)
      BY <2>5, <2>n, <1>f, TailFacts DEF CountsOrdered
    <3> QED
      BY <3>1, <3>3, <3>4, <1>u, <2>r, <2>n DEF CountsOrdered
  <2> QED
    BY <2>1, <2>2, <2>3, <2>4, <2>5, <1>u DEF IInv
<1> QED
  BY <1>a, <1>b

(* The rank of a packet that is counted is above what was counted before. *)
LEMMA RecvPacketStep ==
    ASSUME Kind # "wildcard", IInv, RecvPacket, TypeOK' PROVE IInv'
<1>n. /\ sSEQ \in Nat /\ rSEQ \in Nat /\ sCounter \in Nat /\ rCounter \in Nat
      /\ fwd \in Seq(Message) /\ bwd \in Seq(Message)
  BY Numbers
<1>i. /\ sSEQ \in Int /\ rSEQ \in Int /\ sCounter \in Int /\ rCounter \in Int
      /\ rCounter + 1 \in Int /\ 0 \in Int
  BY <1>n
<1>f. fwd # <<>> /\ fwd' = Tail(fwd)
  BY DEF RecvPacket, HeadIs
<1>d. Head(fwd).type = "DATA" /\ Head(fwd).val \in Int
  <2>1. Head(fwd) = fwd[1] /\ 1 \in 1 .. Len(fwd)
    BY <1>n, <1>f, TailOfChannel
  <2>2. Head(fwd).val \in Int
    BY <1>n, <1>f, TailOfChannel, MessageFields
  <2> QED
    BY <2>1, <2>2 DEF RecvPacket, HeadIs, IInv, NoPlain
<1>u. UNCHANGED <<sState, sSEQ, sCounter, sEvent, rSEQ, rEvent, rOrphans, bwd>>
  BY DEF RecvPacket, senderVars
<1>a. CASE ~Counts(Head(fwd))
  <2>1. UNCHANGED rCounter
    BY <1>a DEF RecvPacket
  <2> QED
    BY <1>f, <1>u, <2>1, TakeForward
<1>b. CASE Counts(Head(fwd))
  <2>r. rCounter' = rCounter + 1 /\ Head(fwd).seq = rSEQ
    BY <1>b DEF RecvPacket, Counts
  <2>1. SenderInStep'
    BY <1>u DEF IInv, SenderInStep
  <2>2. NoPlain(fwd)'
    BY <1>f, <1>n, <1>i, TailFacts DEF IInv
  <2>3. RingOrder => RingOrder'
    BY <1>n, <1>f, <1>u, <1>i, TailFacts DEF RingOrder
  <2>4. IdleBehind => IdleBehind'
    BY <1>n, <1>f, <1>u, TailOfChannel DEF IdleBehind
  <2>5. ASSUME CountsOrdered PROVE CountsOrdered'
    <3>1. RanksIncrease(fwd', sSEQ)
      BY <2>5, <1>n, <1>f, <1>i, TailFacts DEF CountsOrdered
    <3>2. CASE rSEQ # sSEQ
      <4>1. RanksWithin(fwd, sSEQ, 0, sCounter)
        BY <3>2, <2>5 DEF CountsOrdered
      <4>2. RanksWithin(fwd', sSEQ, 0, sCounter)
        BY <4>1, <1>n, <1>f, <1>i, TailFacts
      <4> QED
        BY <2>5, <3>1, <3>2, <4>2, <1>u DEF CountsOrdered
    <3>3. CASE rSEQ = sSEQ
      <4>1. RanksWithin(fwd, sSEQ, rCounter, sCounter)
        BY <3>3, <2>5 DEF CountsOrdered
      <4>2. /\ rCounter < Head(fwd).val /\ Head(fwd).val <= sCounter
            /\ RanksWithin(fwd', sSEQ, Head(fwd).val, sCounter)
        BY <4>1, <2>5, <2>r, <3>3, <1>n, <1>f, <1>d, <1>i, HeadFacts
        DEF CountsOrdered
      <4>3. rCounter + 1 <= Head(fwd).val /\ rCounter + 1 <= sCounter
        BY <4>2, <1>n, <1>d
      <4>4. RanksWithin(fwd', sSEQ, rCounter + 1, sCounter)
        BY <4>2, <4>3, <1>n, <1>f, <1>d, <1>i, TailOfChannel, WidenRanks
      <4> QED
        BY <2>5, <3>1, <3>3, <4>3, <4>4, <1>u, <2>r DEF CountsOrdered
    <3> QED
      BY <3>2, <3>3
  <2> QED
    BY <2>1, <2>2, <2>3, <2>4, <2>5, <1>u DEF IInv
<1> QED
  BY <1>a, <1>b

(* A counter is of the receiver's session, which is at most the sender's. *)
LEMMA SendGreyCounterStep ==
    ASSUME Kind # "wildcard", IInv, SendGreyCounter, TypeOK' PROVE IInv'
<1>n. /\ sSEQ \in Int /\ sSEQ - 1 \in Int /\ rSEQ \in Int
      /\ sCounter \in Int /\ rCounter \in Nat /\ rOrphans \in Nat
      /\ fwd \in Seq(Message) /\ bwd \in Seq(Message)
  BY Numbers
<1>u. UNCHANGED <<sState, sSEQ, sCounter, sEvent, rSEQ, rCounter, fwd>>
  BY DEF SendGreyCounter, senderVars
<1>p. rEvent \/ rOrphans # 0
  BY <1>n DEF SendGreyCounter, OrphanPending
<1> DEFINE m == Msg("COUNTER", rSEQ, rCounter)
<1>m. /\ m \in Message /\ m.type = "COUNTER" /\ m.seq = rSEQ
      /\ m.val = rCounter
  BY <1>n DEF IInv, TypeOK, Msg, Message, MessageTypes
<1>f. bwd' = Append(bwd, m)
  BY DEF SendGreyCounter
<1> HIDE DEF m
<1>1. SenderInStep' /\ NoPlain(fwd)'
  BY <1>u DEF IInv, SenderInStep
<1>2. ASSUME RingOrder PROVE RingOrder'
  <2>1. Within(bwd, sSEQ - 1, rSEQ) /\ Sorted(bwd)
    BY <1>2 DEF RingOrder
  <2>2. sSEQ - 1 <= m.seq /\ m.seq <= rSEQ
    BY <1>2, <1>n, <1>m DEF RingOrder
  <2>3. Within(bwd', sSEQ - 1, rSEQ)
    BY <2>1, <2>2, <1>n, <1>m, <1>f, AppendFacts
  <2>4. Sorted(bwd')
    BY <2>1, <1>n, <1>m, <1>f, AppendFacts
  <2> QED
    BY <1>2, <2>3, <2>4, <1>u DEF RingOrder
<1>3. IdleBehind => IdleBehind'
  BY <1>u, <1>p, Zenon DEF IdleBehind
<1>4. ASSUME CountsOrdered PROVE CountsOrdered'
  <2>1. CountersAtMost(bwd', sSEQ, sCounter)
    BY <1>4, <1>n, <1>m, <1>f, AppendFacts DEF CountsOrdered
  <2> QED
    BY <1>4, <2>1, <1>u DEF CountsOrdered
<1> QED
  BY <1>1, <1>2, <1>3, <1>4, <1>u DEF IInv

-----------------------------------------------------------------------------
(* The sender's state machine. *)

(* An acknowledgement of START for sSEQ: the receiver is in that session. *)
LEMMA RecvStartAckStep ==
    ASSUME Kind # "wildcard", IInv, RecvStartAck, TypeOK' PROVE IInv'
<1>n. /\ sSEQ \in Nat /\ sSEQ - 1 \in Int /\ sSEQ \in Int /\ rSEQ \in Int
      /\ sCounter \in Int /\ bwd \in Seq(Message)
  BY Numbers
<1>f. bwd # <<>> /\ bwd' = Tail(bwd)
  BY DEF RecvStartAck, HeadIs
<1>u. UNCHANGED <<sSEQ, sCounter, sMax, receiverVars, fwd>>
  BY DEF RecvStartAck
<1>a. CASE ~StartAckAccepted
  <2>1. UNCHANGED senderVars
    BY <1>a, <1>u DEF RecvStartAck, senderVars
  <2> QED
    BY <1>f, <1>u, <2>1, TakeBackward
<1>b. CASE StartAckAccepted
  <2>s. sState' = "COUNTING" /\ sEvent' = "STOP" /\ sSEQ = Head(bwd).seq
    BY <1>b DEF RecvStartAck, StartAckAccepted, ScheduleStop
  <2>q. sSEQ < SeqMod
    <3>1. Head(bwd) \in Message
      BY <1>n, <1>f, TailOfChannel
    <3>2. sSEQ \in 0 .. SeqMod - 1
      BY <3>1, <2>s, MessageFields
    <3> QED
      BY <3>2, <1>n, ConstantsAssumption
  <2>o. RingOrder
    BY <2>q DEF IInv
  <2>r. rSEQ = sSEQ
    <3>1. sSEQ <= rSEQ
      BY <2>o, <2>s, <1>n, <1>f, HeadFacts DEF RingOrder
    <3> QED
      BY <3>1, <2>o, <1>n DEF RingOrder
  <2>1. SenderInStep'
    BY <2>s, <2>q, <2>r, <1>u DEF SenderInStep, receiverVars
  <2>2. NoPlain(fwd)'
    BY <1>u DEF IInv
  <2>3. RingOrder'
    BY <2>o, <1>n, <1>f, <1>u, TailFacts DEF RingOrder, receiverVars
  <2>4. IdleBehind'
    BY <2>s DEF IdleBehind
  <2>5. CountsOrdered => CountsOrdered'
    BY <1>n, <1>f, <1>u, TailFacts DEF CountsOrdered, receiverVars
  <2> QED
    BY <2>1, <2>2, <2>3, <2>4, <2>5, <1>u DEF IInv
<1> QED
  BY <1>a, <1>b

(* No message of a channel is of a session beyond the channel's range. *)
LEMMA NothingBeyond ==
    ASSUME NEW chan \in Seq(Message), NEW lo \in Int, NEW hi \in Int,
           NEW q \in Int, Within(chan, lo, hi), hi < q
    PROVE  /\ CountersAtMost(chan, q, 0)
           /\ RanksWithin(chan, q, 0, 0)
           /\ RanksIncrease(chan, q)
           /\ \A i \in 1 .. Len(chan) : chan[i].seq < q
<1>1. \A i \in 1 .. Len(chan) : chan[i] \in Message
  OBVIOUS
<1>2. \A i \in 1 .. Len(chan) : chan[i].seq < q /\ chan[i].seq # q
  BY <1>1, MessageFields DEF Within
<1> QED
  BY <1>2 DEF CountersAtMost, RanksWithin, RanksIncrease

(***************************************************************************)
(* The counter of the session ends it: the acknowledgement is the last     *)
(* message of that session, and the new one has no message at all.         *)
(***************************************************************************)
LEMMA ExchangeStep ==
    ASSUME Kind # "wildcard", IInv, RecvCounter, CounterAccepted, TypeOK'
    PROVE  IInv'
<1>n. /\ sSEQ \in Nat /\ sSEQ - 1 \in Int /\ sSEQ \in Int /\ rSEQ \in Int
      /\ sSEQ + 1 \in Int /\ sCounter \in Int
      /\ fwd \in Seq(Message) /\ bwd \in Seq(Message)
  BY Numbers
<1>f. bwd # <<>> /\ bwd' = Tail(bwd) /\ UNCHANGED receiverVars
  BY DEF RecvCounter, HeadIs
<1> DEFINE m == Msg("CACK", Head(bwd).seq, 0)
<1>s. /\ sSEQ = Head(bwd).seq /\ sSEQ < SeqMod /\ rSEQ = sSEQ
      /\ sState' = "IDLE" /\ sEvent' = "START" /\ sCounter' = 0
      /\ sSEQ' = sSEQ + 1 /\ fwd' = Append(fwd, m)
      /\ rSEQ' = rSEQ /\ rCounter' = rCounter
  BY <1>f
  DEF RecvCounter, CounterAccepted, Exchange, IInv, SenderInStep, receiverVars
<1>m. m \in Message /\ m.type = "CACK" /\ m.seq = sSEQ
  <2>1. sSEQ \in 0 .. SeqMod - 1
    BY <1>n, <1>s, ConstantsAssumption
  <2> QED
    BY <1>s, <2>1 DEF Msg, Message, MessageTypes
<1> HIDE DEF m
<1>v. sSEQ \in Int /\ sSEQ' = sSEQ + 1 /\ rSEQ' = sSEQ
  BY <1>n, <1>s
<1>o. RingOrder
  BY <1>s DEF IInv
<1>1. SenderInStep'
  BY <1>s DEF SenderInStep
<1>2. NoPlain(fwd)'
  BY <1>n, <1>s, <1>m, AppendFacts DEF IInv
<1>w. Within(fwd', sSEQ, sSEQ) /\ Sorted(fwd')
  <2>1. Within(fwd, sSEQ, sSEQ) /\ Sorted(fwd)
    BY <1>o, <1>s DEF RingOrder
  <2>2. sSEQ <= m.seq /\ m.seq <= sSEQ
    BY <1>n, <1>m
  <2>3. Within(Append(fwd, m), sSEQ, sSEQ)
    BY <2>1, <2>2, <1>n, <1>m, AppendFacts
  <2>4. Sorted(Append(fwd, m))
    BY <2>1, <1>n, <1>m, AppendFacts
  <2> QED
    BY <2>3, <2>4, <1>s
<1>x. Within(bwd', sSEQ, sSEQ) /\ Sorted(bwd')
  BY <1>o, <1>n, <1>f, <1>s, HeadFacts, TailFacts DEF RingOrder
<1>c. fwd' \in Seq(Message) /\ bwd' \in Seq(Message)
  BY TypeFacts DEF TypeOK
<1>3. RingOrder'
  <2>1. Within(fwd', sSEQ, sSEQ + 1)
    BY <1>w, <1>c, <1>n, WidenTop
  <2>2. sSEQ' - 1 = sSEQ
    BY <1>v
  <2>3. sSEQ' - 1 <= rSEQ' /\ rSEQ' <= sSEQ'
    BY <1>v
  <2>4. Within(fwd', rSEQ', sSEQ') /\ Within(bwd', sSEQ' - 1, rSEQ')
    BY <2>1, <2>2, <1>x, <1>s
  <2> QED
    BY <2>3, <2>4, <1>w, <1>x DEF RingOrder
<1>l. sSEQ < sSEQ + 1
  BY <1>n
<1>4. IdleBehind'
  <2>1. \A i \in 1 .. Len(fwd') : fwd'[i].seq < sSEQ + 1
    BY <1>w, <1>c, <1>n, <1>l, NothingBeyond
  <2>2. rSEQ' < sSEQ'
    BY <1>v
  <2> QED
    BY <2>1, <2>2, <1>s DEF IdleBehind
<1>5. CountsOrdered'
  <2>1. CountersAtMost(bwd', sSEQ + 1, 0)
    BY <1>x, <1>c, <1>n, <1>l, NothingBeyond
  <2>2. RanksWithin(fwd', sSEQ + 1, 0, 0) /\ RanksIncrease(fwd', sSEQ + 1)
    BY <1>w, <1>c, <1>n, <1>l, NothingBeyond
  <2>3. rSEQ' # sSEQ'
    BY <1>v
  <2> QED
    BY <2>1, <2>2, <2>3, <1>s DEF CountsOrdered
<1> QED
  BY <1>1, <1>2, <1>3, <1>4, <1>5 DEF IInv

(***************************************************************************)
(* In IDLE a counter that still arrives is of the session before: so is    *)
(* its acknowledgement, and so is everything the sender has in flight.     *)
(***************************************************************************)
LEMMA ReackStep ==
    ASSUME Kind # "wildcard", IInv, RecvCounter, ~CounterAccepted,
           ReacksCounter, TypeOK'
    PROVE  IInv'
<1>n. /\ sSEQ \in Nat /\ sSEQ - 1 \in Int /\ sSEQ \in Int /\ rSEQ \in Int
      /\ sCounter \in Int /\ (IF rSEQ = sSEQ THEN rCounter ELSE 0) \in Int
      /\ fwd \in Seq(Message) /\ bwd \in Seq(Message) /\ Len(bwd) # 0
  BY Numbers, TailOfChannel DEF RecvCounter, HeadIs
<1>f. bwd # <<>> /\ bwd' = Tail(bwd)
  BY DEF RecvCounter, HeadIs
<1>u. UNCHANGED <<sState, sSEQ, sCounter, sEvent, rSEQ, rCounter, rEvent, rOrphans>>
  BY DEF RecvCounter, senderVars, receiverVars
<1> DEFINE m == Msg("CACK", Head(bwd).seq, 0)
<1>s. sState = "IDLE" /\ fwd' = Append(fwd, m)
  BY DEF RecvCounter, ReacksCounter
<1>m. m \in Message /\ m.type = "CACK" /\ m.seq = Head(bwd).seq
  <2>1. Head(bwd) \in Message
    BY <1>n, <1>f, TailOfChannel
  <2>2. Head(bwd).seq \in 0 .. SeqMod - 1
    BY <2>1, MessageFields
  <2> QED
    BY <2>2 DEF Msg, Message, MessageTypes
<1>k. m.seq \in Int
  BY <1>m, MessageFields
<1> HIDE DEF m
<1>1. SenderInStep'
  BY <1>u DEF IInv, SenderInStep
<1>2. NoPlain(fwd)'
  BY <1>n, <1>m, <1>s, AppendFacts DEF IInv
<1>3. ASSUME sSEQ < SeqMod PROVE RingOrder' /\ IdleBehind' /\ CountsOrdered'
  <2>o. RingOrder /\ IdleBehind /\ CountsOrdered
    BY <1>3 DEF IInv
  <2>b. rSEQ < sSEQ /\ \A i \in 1 .. Len(fwd) : fwd[i].seq < sSEQ
    BY <2>o, <1>s, <1>n DEF IdleBehind
  <2>r. rSEQ = sSEQ - 1
    BY <2>o, <2>b, <1>n DEF RingOrder
  <2>q. m.seq = rSEQ
    <3>1. sSEQ - 1 <= m.seq /\ m.seq <= rSEQ
      BY <2>o, <1>m, <1>n, <1>f, HeadFacts DEF RingOrder
    <3> QED
      BY <3>1, <2>r, <1>n, <1>k
  <2>w. Within(fwd, rSEQ, rSEQ)
    <3>1. \A i \in 1 .. Len(fwd) : fwd[i] \in Message
      BY <1>n
    <3>2. \A i \in 1 .. Len(fwd) : fwd[i].seq \in Int
      BY <3>1, MessageFields
    <3> QED
      BY <2>o, <2>b, <2>r, <3>2, <1>n DEF RingOrder, Within
  <2>1. RingOrder'
    <3>1. rSEQ <= m.seq /\ m.seq <= sSEQ
      BY <2>q, <2>b, <1>n
    <3>2. Within(Append(fwd, m), rSEQ, sSEQ)
      BY <3>1, <2>o, <1>n, <1>m, AppendFacts DEF RingOrder
    <3>3. Sorted(Append(fwd, m))
      BY <2>o, <2>w, <2>q, <1>n, <1>m, AppendFacts DEF RingOrder
    <3>4. Within(bwd', sSEQ - 1, rSEQ) /\ Sorted(bwd')
      BY <2>o, <1>n, <1>f, TailFacts DEF RingOrder
    <3> QED
      BY <2>o, <3>2, <3>3, <3>4, <1>s, <1>u DEF RingOrder
  <2>2. IdleBehind'
    <3>1. \A i \in 1 .. Len(fwd') : fwd'[i].seq < sSEQ
      BY <2>b, <2>q, <1>s, <1>n, <1>m, AppendCases
    <3> QED
      BY <3>1, <2>b, <1>u DEF IdleBehind
  <2>3. CountsOrdered'
    <3>1. CountersAtMost(bwd', sSEQ, sCounter)
      BY <2>o, <1>n, <1>f, TailFacts DEF CountsOrdered
    <3>2. RanksWithin(fwd', sSEQ, IF rSEQ = sSEQ THEN rCounter ELSE 0, sCounter)
      BY <2>o, <1>n, <1>m, <1>s, AppendFacts DEF CountsOrdered
    <3>3. RanksIncrease(fwd', sSEQ)
      BY <2>o, <1>n, <1>m, <1>s, AppendFacts DEF CountsOrdered
    <3> QED
      BY <2>o, <3>1, <3>2, <3>3, <1>u DEF CountsOrdered
  <2> QED
    BY <2>1, <2>2, <2>3
<1> QED
  BY <1>1, <1>2, <1>3, <1>u DEF IInv

-----------------------------------------------------------------------------
(* Every step keeps the invariant: one case per action. *)
LEMMA IInvStep == Kind # "wildcard" /\ IInv /\ [Next]_vars => IInv'
<1> SUFFICES ASSUME Kind # "wildcard", IInv, [Next]_vars PROVE IInv'
  OBVIOUS
<1>t. TypeOK'
  BY TypeStep DEF IInv
<1>1. CASE SendStart
  BY <1>1, <1>t, SendStartStep
<1>2. CASE SendStop
  BY <1>2, <1>t, SendStopStep
<1>3. CASE SendPacket
  BY <1>3, <1>t, SendPacketStep
<1>4. CASE RecvStart
  BY <1>4, <1>t, RecvStartStep
<1>5. CASE RecvStop
  BY <1>5, <1>t, TakeForward DEF RecvStop, HeadIs, senderVars
<1>6. CASE RecvCounterAck
  BY <1>6, <1>t, TakeForward DEF RecvCounterAck, HeadIs, senderVars
<1>7. CASE RecvPacket
  BY <1>7, <1>t, RecvPacketStep
<1>8. CASE SendGreyCounter
  BY <1>8, <1>t, SendGreyCounterStep
<1>9. CASE RecvStartAck
  BY <1>9, <1>t, RecvStartAckStep
<1>10. CASE RecvCounter
  <2>1. CASE CounterAccepted
    BY <1>10, <2>1, <1>t, ExchangeStep
  <2>2. CASE ~CounterAccepted /\ ReacksCounter
    BY <1>10, <2>2, <1>t, ReackStep
  <2>3. CASE ~CounterAccepted /\ ~ReacksCounter
    BY <1>10, <2>3, <1>t, TakeBackward DEF RecvCounter, HeadIs
  <2> QED
    BY <2>1, <2>2, <2>3
<1>11. CASE LoseForward
  BY <1>11, <1>t, TakeForward DEF LoseForward, senderVars, receiverVars
<1>12. CASE LoseBackward
  BY <1>12, <1>t, TakeBackward DEF LoseBackward
<1>13. CASE UNCHANGED vars
  <2>1. UNCHANGED <<sState, sSEQ, sCounter, sEvent, rSEQ, rCounter, rEvent,
                    rOrphans, fwd, bwd>>
    BY <1>13 DEF vars, senderVars, receiverVars
  <2> QED
    BY <2>1, <1>t
    DEF IInv, SenderInStep, RingOrder, IdleBehind, CountsOrdered
<1> QED
  BY <1>1, <1>2, <1>3, <1>4, <1>5, <1>6, <1>7, <1>8, <1>9, <1>10, <1>11,
     <1>12, <1>13 DEF Next

LEMMA IInvAlways == Kind # "wildcard" => (Spec => []IInv)
<1> SUFFICES ASSUME Kind # "wildcard" PROVE Spec => []IInv
  OBVIOUS
<1>1. Init => IInv
  BY IInvInit
<1>2. IInv /\ [Next]_vars => IInv'
  BY IInvStep
<1> QED
  BY <1>1, <1>2, PTL DEF Spec

(***************************************************************************)
(* From the moment the sender of a dedicated or tree id counts until it    *)
(* has compared the counters, the receiver is in the same session: for     *)
(* every kind of loss, any number of sessions, packets and repeated        *)
(* messages, and a session number that overflows its header field.         *)
(***************************************************************************)
THEOREM HandshakeCorrect == Kind # "wildcard" => (Spec => []SessionsAgree)
<1>1. IInv => SessionsAgree
  BY DEF IInv, SenderInStep, SessionsAgree
<1> QED
  BY <1>1, IInvAlways, PTL

(***************************************************************************)
(* The unsigned subtraction local_counter - remote_counter of a dedicated  *)
(* or tree id never wraps: no counter in flight for the session exceeds    *)
(* what the sender counted, whatever is lost.                              *)
(***************************************************************************)
THEOREM NoUnderflowCorrect == Kind # "wildcard" => (Spec => []NoUnderflow)
<1>1. IInv => NoUnderflow
  <2> SUFFICES ASSUME IInv, NEW i \in DOMAIN bwd,
                      bwd[i].type = "COUNTER", bwd[i].seq = sSEQ
               PROVE  bwd[i].val <= sCounter
    BY DEF NoUnderflow
  <2>1. i \in 1 .. Len(bwd)
    BY Numbers
  <2>2. sSEQ < SeqMod
    <3>1. bwd[i] \in Message
      BY <2>1, Numbers
    <3>2. sSEQ \in 0 .. SeqMod - 1
      BY <3>1, MessageFields
    <3> QED
      BY <3>2, Numbers
  <2> QED
    BY <2>1, <2>2 DEF IInv, CountsOrdered, CountersAtMost
<1> QED
  BY <1>1, IInvAlways, PTL

-----------------------------------------------------------------------------
(***************************************************************************)
(* The SendGreyCounter events.  A session adds one when its STOP is taken, *)
(* and after that it is over at the receiver: the link keeps the STARTs of *)
(* a session ahead of its STOPs, and the sender repeats only the STOP, so  *)
(* that nothing brings the receiver back to COUNTING in that session.      *)
(***************************************************************************)
NoStartOf(chan, q) == \A i \in 1 .. Len(chan) : chan[i].type = "START" => chan[i].seq # q

NoStopOf(chan, q) == \A i \in 1 .. Len(chan) : chan[i].type = "STOP" => chan[i].seq # q

StopsLast ==
    \A i, j \in 1 .. Len(fwd) :
        i < j /\ fwd[i].type = "STOP" /\ fwd[j].type = "START" => fwd[i].seq # fwd[j].seq

StopOrder == StopsLast /\ (sState # "WAIT_COUNTER_RECEIVE" => NoStopOf(fwd, sSEQ))

OverAtReceiver ==
    /\ rState # "COUNTING"
    /\ NoStartOf(fwd, rSEQ)
    /\ sSEQ = rSEQ => sState = "WAIT_COUNTER_RECEIVE"

OnePerSession ==
    \/ PendingCounters <= rSEQ
    \/ PendingCounters <= rSEQ + 1 /\ OverAtReceiver

PInv == sSEQ < SeqMod => StopOrder /\ OnePerSession

LEMMA PendingType == TypeOK => PendingCounters \in Nat
  BY DEF TypeOK, PendingCounters

(* What is left on the link when its oldest message has gone. *)
LEMMA StopOrderTaken ==
    ASSUME IInv, fwd # <<>>, fwd' = Tail(fwd), UNCHANGED <<sSEQ, sState>>
    PROVE  /\ StopOrder => StopOrder'
           /\ \A q \in Int : NoStartOf(fwd, q) => NoStartOf(fwd', q)
           /\ StopsLast /\ Head(fwd).type = "STOP" => NoStartOf(fwd', Head(fwd).seq)
<1>1. /\ Len(fwd) \in Nat \ {0} /\ Len(fwd') = Len(fwd) - 1 /\ Head(fwd) = fwd[1]
      /\ \A i \in 1 .. Len(fwd) - 1 : fwd'[i] = fwd[i + 1]
  BY Numbers, TailOfChannel
<1>2. \A i \in 1 .. Len(fwd') :
         i + 1 \in 1 .. Len(fwd) /\ fwd'[i] = fwd[i + 1] /\ 1 < i + 1
  BY <1>1
<1>3. \A i, j \in 1 .. Len(fwd') : i < j => i + 1 < j + 1
  BY <1>1
<1>4. 1 \in 1 .. Len(fwd)
  BY <1>1
<1>5. StopsLast => StopsLast'
  BY <1>2, <1>3 DEF StopsLast
<1>6. NoStopOf(fwd, sSEQ) => NoStopOf(fwd', sSEQ)
  BY <1>2 DEF NoStopOf
<1>7. \A q \in Int : NoStartOf(fwd, q) => NoStartOf(fwd', q)
  BY <1>2 DEF NoStartOf
<1>8. StopsLast /\ Head(fwd).type = "STOP" => NoStartOf(fwd', Head(fwd).seq)
  BY <1>1, <1>2, <1>4 DEF StopsLast, NoStartOf
<1> QED
  BY <1>5, <1>6, <1>7, <1>8 DEF StopOrder

(* What a message that is sent may disturb. *)
LEMMA StopOrderSent ==
    ASSUME IInv, NEW x \in Message, fwd' = Append(fwd, x), NEW q \in Int
    PROVE  /\ StopsLast /\ (x.type = "START" => NoStopOf(fwd, x.seq)) => StopsLast'
           /\ NoStopOf(fwd, q) /\ (x.type = "STOP" => x.seq # q) => NoStopOf(fwd', q)
           /\ NoStartOf(fwd, q) /\ (x.type = "START" => x.seq # q) => NoStartOf(fwd', q)
<1>0. fwd \in Seq(Message) /\ Len(fwd) \in Nat
  BY Numbers
<1>1. \A i \in 1 .. Len(fwd') : \/ i \in 1 .. Len(fwd) /\ fwd'[i] = fwd[i]
                                \/ i = Len(fwd) + 1 /\ fwd'[i] = x
  BY <1>0, AppendCases
<1>2. Len(fwd') = Len(fwd) + 1
  BY <1>0, AppendToChannel
<1>3. \A i, j \in 1 .. Len(fwd') : i < j => i \in 1 .. Len(fwd) /\ fwd'[i] = fwd[i]
  BY <1>0, <1>1, <1>2
<1>4. StopsLast /\ (x.type = "START" => NoStopOf(fwd, x.seq)) => StopsLast'
  BY <1>1, <1>3 DEF StopsLast, NoStopOf
<1>5. NoStopOf(fwd, q) /\ (x.type = "STOP" => x.seq # q) => NoStopOf(fwd', q)
  BY <1>1 DEF NoStopOf
<1>6. NoStartOf(fwd, q) /\ (x.type = "START" => x.seq # q) => NoStartOf(fwd', q)
  BY <1>1 DEF NoStartOf
<1> QED
  BY <1>4, <1>5, <1>6

(* The sender repeats a message, or sends a packet. *)
LEMMA SendingKeepsPending ==
    ASSUME Kind # "wildcard", IInv, PInv, SendStart \/ SendStop \/ SendPacket
    PROVE  PInv'
<1> SUFFICES ASSUME sSEQ < SeqMod PROVE StopOrder' /\ OnePerSession'
  BY DEF PInv, SendStart, SendStop, SendPacket
<1>0. /\ sSEQ \in Nat /\ rSEQ \in Nat /\ sSEQ \in Int /\ rSEQ \in Int
      /\ HeaderSeq = sSEQ /\ HeaderSeq \in 0 .. SeqMod - 1
  BY Numbers, HeaderSeqExact, HeaderSeqType DEF IInv
<1>1. UNCHANGED <<sSEQ, rSEQ, rState>> /\ PendingCounters' = PendingCounters
  BY DEF SendStart, SendStop, SendPacket, receiverVars, PendingCounters
<1>2. StopOrder /\ OnePerSession
  BY DEF PInv
<1>3. CASE SendStart
  <2>1. sState \in {"IDLE", "START_ACK"} /\ sState' = "START_ACK"
    BY <1>3 DEF SendStart, IInv, SenderInStep, TypeOK
  <2>2. Msg("START", HeaderSeq, sMax[1]) \in Message
    <3>1. 1 \in 1 .. HistDepth
      BY ConstantsAssumption
    <3>2. sMax[1] \in Maxima
      BY <3>1 DEF IInv, TypeOK
    <3> QED
      BY <1>0, <3>2, ConstantsAssumption DEF Msg, Message, MessageTypes
  <2>3. PICK x \in Message : fwd' = Append(fwd, x) /\ x.type = "START" /\ x.seq = sSEQ
    BY <1>0, <1>3, <2>2 DEF SendStart, Msg
  <2>4. NoStopOf(fwd, sSEQ)
    BY <1>2, <2>1 DEF StopOrder
  <2>5. StopsLast'
    BY <1>0, <1>2, <2>3, <2>4, StopOrderSent DEF StopOrder
  <2>6. NoStopOf(fwd', sSEQ)
    BY <1>0, <2>3, <2>4, StopOrderSent
  <2>7. OverAtReceiver => OverAtReceiver'
    <3> SUFFICES ASSUME OverAtReceiver PROVE OverAtReceiver'
      OBVIOUS
    <3>1. sSEQ # rSEQ
      BY <2>1 DEF OverAtReceiver
    <3>2. NoStartOf(fwd', rSEQ)
      BY <1>0, <2>3, <3>1, StopOrderSent DEF OverAtReceiver
    <3> QED
      BY <1>1, <3>1, <3>2 DEF OverAtReceiver, NoStartOf
  <2> QED
    BY <1>1, <1>2, <2>5, <2>6, <2>7 DEF StopOrder, OnePerSession, NoStopOf
<1>4. CASE SendStop \/ SendPacket
  <2>1. PICK x \in Message :
           /\ fwd' = Append(fwd, x) /\ x.type \in {"STOP", "DATA"}
           /\ x.type = "STOP" => sState' = "WAIT_COUNTER_RECEIVE"
    <3>1. CASE SendStop
      <4>1. Msg("STOP", HeaderSeq, 0) \in Message
        BY <1>0 DEF Msg, Message, MessageTypes
      <4> QED
        BY <3>1, <4>1 DEF SendStop, Msg
    <3>2. CASE SendPacket
      <4>1. Msg("DATA", HeaderSeq, sCounter + 1) \in Message
        BY <1>0, Numbers DEF Msg, Message, MessageTypes
      <4> QED
        BY <3>2, <4>1 DEF SendPacket, Msg
    <3> QED
      BY <1>4, <3>1, <3>2
  <2>2. sState' = sState \/ sState' = "WAIT_COUNTER_RECEIVE"
    BY <1>4 DEF SendStop, SendPacket
  <2>3. StopsLast'
    BY <1>0, <1>2, <2>1, StopOrderSent DEF StopOrder
  <2>4. sState' # "WAIT_COUNTER_RECEIVE" => NoStopOf(fwd', sSEQ)
    BY <1>0, <1>2, <2>1, <2>2, StopOrderSent DEF StopOrder
  <2>5. NoStartOf(fwd, rSEQ) => NoStartOf(fwd', rSEQ)
    BY <1>0, <2>1, StopOrderSent
  <2>6. OverAtReceiver => OverAtReceiver'
    BY <1>1, <2>2, <2>5 DEF OverAtReceiver, NoStartOf
  <2> QED
    BY <1>1, <1>2, <2>3, <2>4, <2>6 DEF StopOrder, OnePerSession, NoStopOf
<1> QED
  BY <1>3, <1>4

(* The receiver takes a message, or the link loses one. *)
LEMMA TakingKeepsPending ==
    ASSUME Kind # "wildcard", IInv, PInv,
           RecvStart \/ RecvStop \/ RecvCounterAck \/ RecvPacket \/ LoseForward
    PROVE  PInv'
<1>1. fwd # <<>> /\ fwd' = Tail(fwd) /\ UNCHANGED <<sSEQ, sState>>
  BY DEF RecvStart, RecvStop, RecvCounterAck, RecvPacket, LoseForward, HeadIs, senderVars
<1> SUFFICES ASSUME sSEQ < SeqMod PROVE StopOrder' /\ OnePerSession'
  BY <1>1 DEF PInv
<1>0. /\ sSEQ \in Int /\ rSEQ \in Int /\ fwd \in Seq(Message)
      /\ Head(fwd).seq \in Int /\ PendingCounters \in Int
  <2>1. Head(fwd).seq \in Nat
    BY <1>1, Numbers, TailOfChannel, MessageFields
  <2> QED
    BY <2>1, Numbers, PendingType DEF IInv
<1>2. StopOrder /\ OnePerSession /\ Within(fwd, rSEQ, sSEQ)
  BY DEF PInv, IInv, RingOrder
<1>3. StopOrder' /\ (NoStartOf(fwd, rSEQ) => NoStartOf(fwd', rSEQ))
  BY <1>0, <1>1, <1>2, StopOrderTaken
<1>4. ASSUME UNCHANGED rSEQ, rState' = "COUNTING" => rState = "COUNTING",
             PendingCounters' <= PendingCounters, PendingCounters' \in Int
      PROVE  OnePerSession'
  <2>1. OverAtReceiver => OverAtReceiver'
    BY <1>1, <1>3, <1>4 DEF OverAtReceiver, NoStartOf
  <2> QED
    BY <1>0, <1>2, <1>4, <2>1 DEF OnePerSession
<1>5. CASE RecvStart /\ StartAccepted
  <2>1. rSEQ' = Head(fwd).seq /\ PendingCounters' = PendingCounters
    BY <1>5 DEF RecvStart, AdoptSession, PendingCounters
  <2>2. rSEQ <= Head(fwd).seq
    BY <1>0, <1>1, <1>2, HeadFacts
  <2>3. OverAtReceiver => Head(fwd).seq # rSEQ
    <3>1. 1 \in 1 .. Len(fwd) /\ fwd[1] = Head(fwd)
      BY <1>0, <1>1, TailOfChannel
    <3> QED
      BY <1>5, <3>1 DEF RecvStart, HeadIs, OverAtReceiver, NoStartOf
  <2>4. PendingCounters <= Head(fwd).seq
    BY <1>0, <1>2, <2>2, <2>3 DEF OnePerSession
  <2> QED
    BY <1>3, <2>1, <2>4 DEF OnePerSession
<1>6. CASE RecvStop /\ StopAccepted
  <2>1. /\ UNCHANGED rSEQ /\ rState' = "WAIT_COUNTER_SEND" /\ Head(fwd).seq = rSEQ
        /\ Head(fwd).type = "STOP" /\ rState = "COUNTING"
    BY <1>6 DEF RecvStop, StopAccepted, HeadIs
  <2>2. PendingCounters' = PendingCounters + 1
    <3>1. rOrphans \in Nat
      BY Numbers
    <3>2. rEvent' = TRUE /\ rOrphans' = IF rEvent THEN rOrphans + 1 ELSE rOrphans
      BY <1>6 DEF RecvStop, ScheduleCounter
    <3> QED
      BY <3>1, <3>2 DEF PendingCounters
  <2>3. PendingCounters <= rSEQ
    BY <1>2, <2>1 DEF OnePerSession, OverAtReceiver
  <2>4. NoStartOf(fwd', rSEQ)
    <3>1. NoStartOf(fwd', Head(fwd).seq)
      BY <1>1, <1>2, <2>1, StopOrderTaken DEF StopOrder
    <3> QED
      BY <2>1, <3>1 DEF NoStartOf
  <2>5. sSEQ = rSEQ => sState = "WAIT_COUNTER_RECEIVE"
    <3>1. 1 \in 1 .. Len(fwd) /\ fwd[1] = Head(fwd)
      BY <1>0, <1>1, TailOfChannel
    <3> QED
      BY <1>2, <2>1, <3>1 DEF StopOrder, NoStopOf
  <2>6. OverAtReceiver'
    BY <1>1, <2>1, <2>4, <2>5 DEF OverAtReceiver, NoStartOf
  <2>7. PendingCounters' <= rSEQ' + 1
    BY <1>0, <2>1, <2>2, <2>3
  <2> QED
    BY <1>3, <2>6, <2>7 DEF OnePerSession
<1>7. CASE RecvCounterAck /\ CounterAckAccepted
  <2>1. UNCHANGED <<rSEQ, rOrphans>> /\ rState' = "IDLE" /\ rEvent' = FALSE
    BY <1>7 DEF RecvCounterAck, CancelCounter
  <2>2. PendingCounters' <= PendingCounters /\ PendingCounters' \in Int
    BY <2>1, Numbers DEF PendingCounters
  <2> QED
    BY <1>3, <1>4, <2>1, <2>2
<1>8. CASE \/ RecvStart /\ ~StartAccepted
           \/ RecvStop /\ ~StopAccepted
           \/ RecvCounterAck /\ ~CounterAckAccepted
           \/ RecvPacket \/ LoseForward
  <2>1. UNCHANGED <<rSEQ, rState, rEvent, rOrphans>>
    BY <1>8 DEF RecvStart, RecvStop, RecvCounterAck, RecvPacket, LoseForward, receiverVars
  <2>2. PendingCounters' = PendingCounters
    BY <2>1 DEF PendingCounters
  <2> QED
    BY <1>0, <1>3, <1>4, <2>1, <2>2
<1> QED
  BY <1>5, <1>6, <1>7, <1>8

(* A new session has no message on the link yet, and the old one is over. *)
LEMMA RecvCounterKeepsPending ==
    ASSUME Kind # "wildcard", IInv, PInv, RecvCounter PROVE PInv'
<1> SUFFICES ASSUME sSEQ' < SeqMod PROVE StopOrder' /\ OnePerSession'
  BY DEF PInv
<1>0. /\ sSEQ \in Nat /\ rSEQ \in Int /\ SeqMod \in Nat
      /\ fwd \in Seq(Message) /\ bwd \in Seq(Message)
  BY Numbers
<1>1. bwd # <<>> /\ UNCHANGED <<rSEQ, rState>> /\ PendingCounters' = PendingCounters
  BY DEF RecvCounter, HeadIs, receiverVars, PendingCounters
<1>2. Msg("CACK", Head(bwd).seq, 0) \in Message
  <2>1. Head(bwd) \in Message
    BY <1>0, <1>1, TailOfChannel
  <2> QED
    BY <2>1, MessageFields DEF Msg, Message, MessageTypes
<1>3. sSEQ' = sSEQ \/ sSEQ' = sSEQ + 1
  BY DEF RecvCounter, Exchange, senderVars
<1>4. StopOrder /\ OnePerSession /\ RingOrder
  BY <1>0, <1>3 DEF PInv, IInv
<1>5. CASE CounterAccepted
  <2>1. sSEQ' = sSEQ + 1 /\ sState' = "IDLE"
    BY <1>5 DEF RecvCounter, Exchange
  <2>2. PICK x \in Message : fwd' = Append(fwd, x) /\ x.type = "CACK"
    BY <1>2, <1>5 DEF RecvCounter, Msg
  <2>3. StopsLast' /\ (NoStartOf(fwd, rSEQ) => NoStartOf(fwd', rSEQ))
    BY <1>0, <1>4, <2>2, StopOrderSent DEF StopOrder
  <2>4. NoStopOf(fwd', sSEQ + 1)
    <3>1. NoStopOf(fwd, sSEQ + 1)
      <4> SUFFICES ASSUME NEW i \in 1 .. Len(fwd) PROVE fwd[i].seq # sSEQ + 1
        BY DEF NoStopOf
      <4>1. fwd[i].seq <= sSEQ /\ fwd[i].seq \in Int
        BY <1>4, TypeFacts DEF RingOrder, Within, IInv
      <4> QED
        BY <1>0, <4>1
    <3>2. sSEQ + 1 \in Int
      BY <1>0
    <3> QED
      BY <2>2, <3>1, <3>2, StopOrderSent
  <2>5. OverAtReceiver => OverAtReceiver'
    <3>1. sSEQ' # rSEQ
      BY <1>0, <1>4, <2>1 DEF RingOrder
    <3> QED
      BY <1>1, <2>3, <3>1 DEF OverAtReceiver
  <2> QED
    BY <1>1, <1>4, <2>1, <2>3, <2>4, <2>5 DEF StopOrder, OnePerSession
<1>6. CASE ~CounterAccepted /\ ReacksCounter
  <2>1. UNCHANGED <<sSEQ, sState>>
    BY <1>6 DEF RecvCounter, senderVars
  <2>2. PICK x \in Message : fwd' = Append(fwd, x) /\ x.type = "CACK"
    BY <1>2, <1>6 DEF RecvCounter, Msg
  <2>3. /\ StopsLast'
        /\ NoStartOf(fwd, rSEQ) => NoStartOf(fwd', rSEQ)
        /\ NoStopOf(fwd, sSEQ) => NoStopOf(fwd', sSEQ)
    BY <1>0, <1>4, <2>2, StopOrderSent DEF StopOrder
  <2>4. OverAtReceiver => OverAtReceiver'
    BY <1>1, <2>1, <2>3 DEF OverAtReceiver
  <2> QED
    BY <1>1, <1>4, <2>1, <2>3, <2>4 DEF StopOrder, OnePerSession
<1>7. CASE ~CounterAccepted /\ ~ReacksCounter
  <2>1. UNCHANGED <<fwd, sSEQ, sState>>
    BY <1>7 DEF RecvCounter, senderVars
  <2> QED
    BY <1>1, <1>4, <2>1 DEF StopOrder, StopsLast, OnePerSession, OverAtReceiver
<1> QED
  BY <1>5, <1>6, <1>7

LEMMA PInvStep == Kind # "wildcard" /\ IInv /\ PInv /\ [Next]_vars => PInv'
<1> SUFFICES ASSUME Kind # "wildcard", IInv, PInv, [Next]_vars PROVE PInv'
  OBVIOUS
<1>0. rOrphans \in Nat
  BY Numbers
<1>1. CASE SendStart \/ SendStop \/ SendPacket
  BY <1>1, SendingKeepsPending
<1>2. CASE RecvStart \/ RecvStop \/ RecvCounterAck \/ RecvPacket \/ LoseForward
  BY <1>2, TakingKeepsPending
<1>3. CASE RecvCounter
  BY <1>3, RecvCounterKeepsPending
<1>4. CASE SendGreyCounter
  <2>1. UNCHANGED <<fwd, sSEQ, sState, rSEQ>> /\ rState' = "COUNTER_ACK"
    BY <1>4 DEF SendGreyCounter, senderVars
  <2>2. PendingCounters' = PendingCounters
    <3>1. /\ rEvent' = TRUE
          /\ \/ rEvent /\ rOrphans' = rOrphans
             \/ rOrphans' = IF rEvent THEN rOrphans ELSE rOrphans - 1
      BY <1>4 DEF SendGreyCounter
    <3> QED
      BY <1>0, <3>1 DEF PendingCounters
  <2> QED
    BY <2>1, <2>2 DEF PInv, StopOrder, StopsLast, OnePerSession, OverAtReceiver
<1>5. CASE RecvStartAck
  <2>1. UNCHANGED <<fwd, sSEQ, rSEQ, rState>> /\ PendingCounters' = PendingCounters
    BY <1>5 DEF RecvStartAck, receiverVars, PendingCounters
  <2>2. \/ UNCHANGED sState
        \/ sState = "START_ACK" /\ sState' = "COUNTING"
    BY <1>5 DEF RecvStartAck, StartAckAccepted
  <2> QED
    BY <2>1, <2>2 DEF PInv, StopOrder, StopsLast, OnePerSession, OverAtReceiver
<1>6. CASE LoseBackward \/ UNCHANGED vars
  <2>1. UNCHANGED <<fwd, sSEQ, sState, rSEQ, rState, rEvent, rOrphans>>
    BY <1>6 DEF LoseBackward, vars, senderVars, receiverVars
  <2>2. PendingCounters' = PendingCounters
    BY <2>1 DEF PendingCounters
  <2> QED
    BY <2>1, <2>2 DEF PInv, StopOrder, StopsLast, OnePerSession, OverAtReceiver
<1> QED
  BY <1>1, <1>2, <1>3, <1>4, <1>5, <1>6 DEF Next

(***************************************************************************)
(* Whatever the link loses and however often STOP is repeated, a session   *)
(* of a dedicated or tree id leaves at most one chain of SendGreyCounter   *)
(* events behind, although Schedule overwrites currentEvent[id].           *)
(***************************************************************************)
THEOREM EventsAlwaysBounded == Kind # "wildcard" => (Spec => []EventsBounded)
<1> SUFFICES ASSUME Kind # "wildcard" PROVE Spec => []EventsBounded
  OBVIOUS
<1>1. Init => PInv
  <2> SUFFICES ASSUME Init PROVE PInv
    OBVIOUS
  <2>1. Len(fwd) = 0 /\ PendingCounters = 0 /\ rSEQ = 0
    BY DEF Init, PendingCounters
  <2> QED
    BY <2>1 DEF PInv, StopOrder, StopsLast, NoStopOf, OnePerSession
<1>2. IInv /\ PInv /\ [Next]_vars => PInv'
  BY PInvStep
<1>3. IInv /\ PInv => EventsBounded
  <2> SUFFICES ASSUME IInv, PInv, sSEQ < SeqMod PROVE PendingCounters <= rSEQ + 1
    BY DEF EventsBounded
  <2>1. PendingCounters \in Nat /\ rSEQ \in Nat
    BY Numbers, PendingType DEF IInv
  <2> QED
    BY <2>1 DEF PInv, OnePerSession
<1>4. Spec => []IInv
  BY IInvAlways
<1> QED
  BY <1>1, <1>2, <1>3, <1>4, PTL DEF Spec
=============================================================================
