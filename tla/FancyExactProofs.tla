------------------------- MODULE FancyExactProofs -------------------------
(***************************************************************************)
(* Proofs about the counting protocol when the acknowledgement of the      *)
(* COUNTER always arrives, and the STOP of a wildcard id: every session    *)
(* reports exactly what the link lost in it, so that the protocol          *)
(* implements LossMeter.  If that acknowledgement may be lost none of this *)
(* holds (StaleTimerFalseAlarm): the SendGreyCounter event that nothing    *)
(* cancels then ends a later session too early.  If a wildcard STOP may be *)
(* lost (WildcardLostStop), packets are counted that are of no session.    *)
(***************************************************************************)
EXTENDS FancyFSMProofs

(* The messages that the link must deliver.  It may lose every other. *)
SignalsArrive ==
    /\ "CACK" \notin Lossy
    /\ Kind = "wildcard" => "STOP" \notin Lossy

(* The order of the messages of one session on the link to the receiver. *)
Stage(m) ==
    IF m.type = "START" THEN 1 ELSE IF m.type = "DATA" THEN 2
    ELSE IF m.type = "STOP" THEN 3 ELSE 4

(* The latest message the sender may have sent in its session. *)
SenderStage ==
    IF sState = "IDLE" THEN 0 ELSE IF sState = "START_ACK" THEN 1
    ELSE IF sState = "COUNTING" THEN 2 ELSE 3

(* The earliest message the receiver may still get in its session. *)
ReceiverStage ==
    IF rState \in {"WAIT_COUNTER_SEND", "COUNTER_ACK"} THEN 3
    ELSE IF rState = "COUNTING" /\ rCounter > 0 THEN 2 ELSE 1

(* What the receiver has counted in the sender's session. *)
Counted == IF rSEQ = HeaderSeq THEN rCounter ELSE 0

(* The receiver has taken the START of the sender's session. *)
Joined == rSEQ = HeaderSeq /\ rState # "IDLE"

(* Only the wildcard machine counts before the receiver has joined. *)
SenderPhase ==
    /\ sState \in {"IDLE", "START_ACK"} => sEvent = "START" /\ sCounter = 0
    /\ sState \in {"COUNTING", "WAIT_COUNTER_RECEIVE"} =>
          sEvent = "STOP" /\ (Kind # "wildcard" => sSEQ = HeaderSeq /\ Joined)
    /\ Kind = "wildcard" => sState # "START_ACK"

ReceiverPhase ==
    /\ rSEQ # HeaderSeq => rState \in {"IDLE", "COUNTER_ACK"}
    /\ rSEQ = HeaderSeq /\ rState \in {"WAIT_COUNTER_SEND", "COUNTER_ACK"}
          => sState = "WAIT_COUNTER_RECEIVE"
    /\ rSEQ = HeaderSeq /\ rState = "IDLE" => rCounter = 0
    /\ Joined => sState # "IDLE"

(* The one SendGreyCounter event is pending exactly when it should be. *)
EventPhase ==
    rOrphans = 0 /\ (rEvent <=> rState \in {"WAIT_COUNTER_SEND", "COUNTER_ACK"})

(* A receiver that waits in a session the sender has left will be told. *)
AckComing ==
    rState = "COUNTER_ACK" /\ rSEQ # HeaderSeq =>
        \E i \in 1 .. Len(fwd) : fwd[i].type = "CACK"

(***************************************************************************)
(* A message to the receiver is of the sender's session, or the end (STOP, *)
(* acknowledgement) of the one before, which the receiver is then still    *)
(* in; or a packet the wildcard machine does not count.                    *)
(***************************************************************************)
SessionMsg(m) ==
    /\ m.type \in {"START", "DATA", "STOP", "CACK"}
    /\ m.seq = rSEQ \/ m.seq = HeaderSeq
    /\ m.type \in {"START", "DATA"} => m.seq = HeaderSeq
    /\ m.type = "CACK" => m.seq # HeaderSeq
    /\ m.seq = HeaderSeq => Stage(m) <= SenderStage
    /\ rSEQ = HeaderSeq => ReceiverStage <= Stage(m)
    /\ m.type = "DATA" => Counted + lost < m.val /\ m.val <= sCounter
    /\ m.type = "START" /\ Kind = "tree" => m.val = sMax[1]

FwdMsg(m) == SessionMsg(m) \/ (m.type = "PLAIN" /\ Kind = "wildcard")

(* The message a is ahead of b. *)
FwdPair(a, b) ==
    a.type # "PLAIN" /\ b.type # "PLAIN" =>
        /\ a.seq = HeaderSeq => b.seq = HeaderSeq /\ Stage(a) <= Stage(b)
        /\ a.type = "DATA" /\ b.type = "DATA" => a.val < b.val

FwdFacts == \A i \in 1 .. Len(fwd) : FwdMsg(fwd[i])
FwdOrder == \A i, j \in 1 .. Len(fwd) : i < j => FwdPair(fwd[i], fwd[j])

(* A counter of the session is final: it and the losses are all packets. *)
BwdMsg(m) ==
    /\ m.seq = HeaderSeq => rSEQ = HeaderSeq /\ rState # "IDLE"
    /\ m.seq = HeaderSeq /\ m.type = "COUNTER" =>
          rState = "COUNTER_ACK" /\ m.val + lost = sCounter
    /\ sState = "IDLE" => m.seq = rSEQ /\ m.seq # HeaderSeq

BwdPair(a, b) == a.seq = HeaderSeq => b.seq = HeaderSeq

BwdFacts == \A i \in 1 .. Len(bwd) : BwdMsg(bwd[i])
BwdOrder == \A i, j \in 1 .. Len(bwd) : i < j => BwdPair(bwd[i], bwd[j])

(***************************************************************************)
(* The wildcard machine sends its START once: if the link loses it the     *)
(* receiver never joins, and the session has no end.                       *)
(***************************************************************************)
AwaitsStart == sState # "IDLE" /\ ~Joined
StartOnLink == \E i \in 1 .. Len(fwd) : fwd[i].type = "START"
Stranded == Kind = "wildcard" /\ AwaitsStart /\ ~StartOnLink

(* The packets of the session: counted, lost, or on the link. *)
OnLink(k) == \E i \in 1 .. Len(fwd) : fwd[i].type = "DATA" /\ fwd[i].val = k
AllCounted ==
    /\ Counted + lost <= sCounter
    /\ Stranded \/ \A k \in Nat : Counted + lost < k /\ k <= sCounter => OnLink(k)

(***************************************************************************)
(* The wildcard machine tags no packet, so that the order of START, STOP   *)
(* and packets has to tell them apart: a STOP that has still to close the  *)
(* session at the receiver is on the link, and a packet that is not        *)
(* counted has the START behind it or the STOP ahead of it.                *)
(***************************************************************************)
AwaitsStop == sState = "WAIT_COUNTER_RECEIVE" /\ (Joined => rState = "COUNTING")
IsStop(m) == m.type = "STOP" /\ m.seq = HeaderSeq
StopOnLink == \E i \in 1 .. Len(fwd) : IsStop(fwd[i])
Outside(j) ==
    \/ rState # "COUNTING" /\ \A i \in 1 .. j - 1 : fwd[i].type # "START"
    \/ \E i \in 1 .. j - 1 : IsStop(fwd[i])
WildcardOrder ==
    Kind = "wildcard" =>
        /\ AwaitsStop => StopOnLink \/ Stranded
        /\ \A j \in 1 .. Len(fwd) : fwd[j].type = "PLAIN" => Outside(j)

(***************************************************************************)
(* The receiver has the sender's history of maxima once it has taken the   *)
(* session's START; before, it is one shift behind.                        *)
(***************************************************************************)
Histories ==
    Kind = "tree" =>
        /\ rSEQ = HeaderSeq => rMax = sMax
        /\ rSEQ # HeaderSeq \/ rState = "IDLE" => sMax = Shift(rMax, sMax[1])

Verdict == (lost > 0 => everLost) /\ (flagged => everLost)

EInv ==
    /\ TypeOK /\ SenderPhase /\ ReceiverPhase /\ EventPhase /\ AckComing
    /\ FwdFacts /\ FwdOrder /\ BwdFacts /\ BwdOrder
    /\ AllCounted /\ WildcardOrder /\ Histories /\ Verdict

-----------------------------------------------------------------------------
(* What sending and taking a message do to the facts about a channel. *)

LEMMA FwdTaken ==
    ASSUME TypeOK, FwdFacts, FwdOrder, fwd # <<>>, fwd' = Tail(fwd), HeaderSeq' = HeaderSeq,
           \A m \in Message : FwdMsg(m) /\ FwdPair(Head(fwd), m) => FwdMsg(m)'
    PROVE  FwdFacts' /\ FwdOrder'
<1>1. fwd \in Seq(Message)
  BY DEF TypeOK
<1>2. /\ Len(fwd) \in Nat \ {0} /\ Head(fwd) = fwd[1]
      /\ Len(fwd') = Len(fwd) - 1
      /\ \A i \in 1 .. Len(fwd) - 1 : fwd'[i] = fwd[i + 1]
      /\ \A i \in 1 .. Len(fwd) : fwd[i] \in Message
  BY <1>1, TailOfChannel
<1>3. ASSUME NEW i \in 1 .. Len(fwd')
      PROVE  i + 1 \in 1 .. Len(fwd) /\ 1 < i + 1 /\ 1 \in 1 .. Len(fwd) /\ fwd'[i] = fwd[i + 1]
  BY <1>2
<1>4. FwdFacts'
  <2> SUFFICES ASSUME NEW i \in 1 .. Len(fwd')
               PROVE  FwdMsg(fwd[i])'
    BY DEF FwdFacts
  <2>1. PICK m \in Message : m = fwd[i + 1]
    BY <1>2, <1>3
  <2>2. FwdMsg(m) /\ FwdPair(Head(fwd), m)
    BY <1>2, <1>3, <2>1 DEF FwdFacts, FwdOrder
  <2>3. FwdMsg(m)'
    BY <2>2
  <2>4. m = fwd'[i]
    BY <1>3, <2>1
  <2> QED
    BY <2>3, <2>4 DEF FwdMsg, SessionMsg, Stage
<1>5. FwdOrder'
  <2> SUFFICES ASSUME NEW i \in 1 .. Len(fwd'), NEW j \in 1 .. Len(fwd'), i < j
               PROVE  FwdPair(fwd[i], fwd[j])'
    BY DEF FwdOrder
  <2>1. i + 1 < j + 1
    BY <1>2
  <2>2. FwdPair(fwd[i + 1], fwd[j + 1])
    BY <1>3, <2>1 DEF FwdOrder
  <2>3. fwd'[i] = fwd[i + 1] /\ fwd'[j] = fwd[j + 1]
    BY <1>3
  <2> QED
    BY <2>2, <2>3 DEF FwdPair, Stage
<1> QED
  BY <1>4, <1>5

LEMMA FwdSent ==
    ASSUME TypeOK, FwdFacts, FwdOrder, NEW x \in Message, fwd' = Append(fwd, x),
           HeaderSeq' = HeaderSeq, FwdMsg(x)',
           \A m \in Message : FwdMsg(m) => FwdMsg(m)' /\ FwdPair(m, x)
    PROVE  FwdFacts' /\ FwdOrder'
<1>1. fwd \in Seq(Message)
  BY DEF TypeOK
<1>2. \A i \in 1 .. Len(fwd') : \/ i \in 1 .. Len(fwd) /\ fwd'[i] = fwd[i]
                                \/ i = Len(fwd) + 1 /\ fwd'[i] = x
  BY <1>1, AppendCases
<1>3. Len(fwd) \in Nat /\ \A i \in 1 .. Len(fwd) : fwd[i] \in Message
  BY <1>1
<1>4. ASSUME NEW i \in 1 .. Len(fwd)
      PROVE  \E m \in Message : m = fwd[i] /\ FwdMsg(m) /\ FwdMsg(m)' /\ FwdPair(m, x)
  BY <1>3 DEF FwdFacts
<1>5. FwdFacts'
  <2> SUFFICES ASSUME NEW i \in 1 .. Len(fwd')
               PROVE  FwdMsg(fwd[i])'
    BY DEF FwdFacts
  <2>1. PICK m \in Message : m = fwd'[i] /\ FwdMsg(m)'
    BY <1>2, <1>4
  <2> QED
    BY <2>1 DEF FwdMsg, SessionMsg, Stage
<1>6. FwdOrder'
  <2> SUFFICES ASSUME NEW i \in 1 .. Len(fwd'), NEW j \in 1 .. Len(fwd'), i < j
               PROVE  FwdPair(fwd[i], fwd[j])'
    BY DEF FwdOrder
  <2>1. i \in 1 .. Len(fwd) /\ fwd'[i] = fwd[i]
    BY <1>1, <1>2, <1>3, AppendToChannel
  <2>2. FwdPair(fwd'[i], fwd'[j])
    BY <1>2, <1>4, <2>1 DEF FwdOrder
  <2> QED
    BY <2>2 DEF FwdPair, Stage
<1> QED
  BY <1>5, <1>6

LEMMA FwdKept ==
    ASSUME TypeOK, FwdFacts, FwdOrder, fwd' = fwd, HeaderSeq' = HeaderSeq,
           \A m \in Message : FwdMsg(m) => FwdMsg(m)'
    PROVE  FwdFacts' /\ FwdOrder'
<1>1. \A i \in 1 .. Len(fwd) : fwd[i] \in Message
  BY DEF TypeOK
<1>2. FwdFacts'
  <2> SUFFICES ASSUME NEW i \in 1 .. Len(fwd)
               PROVE  FwdMsg(fwd[i])'
    BY DEF FwdFacts
  <2>1. PICK m \in Message : m = fwd[i] /\ FwdMsg(m)'
    BY <1>1 DEF FwdFacts
  <2>2. m = fwd'[i]
    BY <2>1
  <2> QED
    BY <2>1, <2>2 DEF FwdMsg, SessionMsg, Stage
<1>3. FwdOrder'
  BY DEF FwdOrder, FwdPair, Stage
<1> QED
  BY <1>2, <1>3
LEMMA BwdTaken ==
    ASSUME TypeOK, BwdFacts, BwdOrder, bwd # <<>>, bwd' = Tail(bwd), HeaderSeq' = HeaderSeq,
           \A m \in Message : BwdMsg(m) => BwdMsg(m)'
    PROVE  BwdFacts' /\ BwdOrder'
<1>1. bwd \in Seq(Message)
  BY DEF TypeOK
<1>2. /\ Len(bwd) \in Nat \ {0} /\ Len(bwd') = Len(bwd) - 1
      /\ \A i \in 1 .. Len(bwd) - 1 : bwd'[i] = bwd[i + 1]
      /\ \A i \in 1 .. Len(bwd) : bwd[i] \in Message
  BY <1>1, TailOfChannel
<1>3. ASSUME NEW i \in 1 .. Len(bwd')
      PROVE  i + 1 \in 1 .. Len(bwd) /\ bwd'[i] = bwd[i + 1]
  BY <1>2
<1>4. BwdFacts'
  <2> SUFFICES ASSUME NEW i \in 1 .. Len(bwd')
               PROVE  BwdMsg(bwd[i])'
    BY DEF BwdFacts
  <2>1. PICK m \in Message : m = bwd[i + 1] /\ BwdMsg(m)'
    BY <1>2, <1>3 DEF BwdFacts
  <2>2. m = bwd'[i]
    BY <1>3, <2>1
  <2> QED
    BY <2>1, <2>2 DEF BwdMsg
<1>5. BwdOrder'
  <2> SUFFICES ASSUME NEW i \in 1 .. Len(bwd'), NEW j \in 1 .. Len(bwd'), i < j
               PROVE  BwdPair(bwd[i], bwd[j])'
    BY DEF BwdOrder
  <2>1. i + 1 < j + 1
    BY <1>2
  <2>2. BwdPair(bwd[i + 1], bwd[j + 1])
    BY <1>3, <2>1 DEF BwdOrder
  <2>3. bwd'[i] = bwd[i + 1] /\ bwd'[j] = bwd[j + 1]
    BY <1>3
  <2> QED
    BY <2>2, <2>3 DEF BwdPair
<1> QED
  BY <1>4, <1>5

LEMMA BwdSent ==
    ASSUME TypeOK, BwdFacts, BwdOrder, NEW x \in Message, bwd' = Append(bwd, x),
           HeaderSeq' = HeaderSeq, BwdMsg(x)',
           \A m \in Message : BwdMsg(m) => BwdMsg(m)' /\ BwdPair(m, x)
    PROVE  BwdFacts' /\ BwdOrder'
<1>1. bwd \in Seq(Message)
  BY DEF TypeOK
<1>2. \A i \in 1 .. Len(bwd') : \/ i \in 1 .. Len(bwd) /\ bwd'[i] = bwd[i]
                                \/ i = Len(bwd) + 1 /\ bwd'[i] = x
  BY <1>1, AppendCases
<1>3. Len(bwd) \in Nat /\ \A i \in 1 .. Len(bwd) : bwd[i] \in Message
  BY <1>1
<1>4. ASSUME NEW i \in 1 .. Len(bwd)
      PROVE  \E m \in Message : m = bwd[i] /\ BwdMsg(m)' /\ BwdPair(m, x)
  BY <1>3 DEF BwdFacts
<1>5. BwdFacts'
  <2> SUFFICES ASSUME NEW i \in 1 .. Len(bwd')
               PROVE  BwdMsg(bwd[i])'
    BY DEF BwdFacts
  <2>1. PICK m \in Message : m = bwd'[i] /\ BwdMsg(m)'
    BY <1>2, <1>4
  <2> QED
    BY <2>1 DEF BwdMsg
<1>6. BwdOrder'
  <2> SUFFICES ASSUME NEW i \in 1 .. Len(bwd'), NEW j \in 1 .. Len(bwd'), i < j
               PROVE  BwdPair(bwd[i], bwd[j])'
    BY DEF BwdOrder
  <2>1. i \in 1 .. Len(bwd) /\ bwd'[i] = bwd[i]
    BY <1>1, <1>2, <1>3, AppendToChannel
  <2>2. BwdPair(bwd'[i], bwd'[j])
    BY <1>2, <1>4, <2>1 DEF BwdOrder
  <2> QED
    BY <2>2 DEF BwdPair
<1> QED
  BY <1>5, <1>6

LEMMA BwdKept ==
    ASSUME TypeOK, BwdFacts, BwdOrder, bwd' = bwd, HeaderSeq' = HeaderSeq,
           \A m \in Message : BwdMsg(m) => BwdMsg(m)'
    PROVE  BwdFacts' /\ BwdOrder'
<1>1. \A i \in 1 .. Len(bwd) : bwd[i] \in Message
  BY DEF TypeOK
<1>2. BwdFacts'
  <2> SUFFICES ASSUME NEW i \in 1 .. Len(bwd)
               PROVE  BwdMsg(bwd[i])'
    BY DEF BwdFacts
  <2>1. PICK m \in Message : m = bwd[i] /\ BwdMsg(m)'
    BY <1>1 DEF BwdFacts
  <2>2. m = bwd'[i]
    BY <2>1
  <2> QED
    BY <2>1, <2>2 DEF BwdMsg
<1>3. BwdOrder'
  BY DEF BwdOrder, BwdPair
<1> QED
  BY <1>2, <1>3
(* A message stays on the link, unless it is taken off. *)
LEMMA Stays ==
    ASSUME TypeOK, NEW i \in 1 .. Len(fwd),
           \/ fwd' = fwd
           \/ \E x \in Message : fwd' = Append(fwd, x)
           \/ fwd # <<>> /\ fwd' = Tail(fwd) /\ fwd[i] # Head(fwd)
    PROVE  \E j \in 1 .. Len(fwd') : fwd'[j] = fwd[i]
<1>1. fwd \in Seq(Message)
  BY DEF TypeOK
<1>2. CASE fwd' = fwd
  BY <1>2
<1>3. ASSUME NEW x \in Message, fwd' = Append(fwd, x)
      PROVE  i \in 1 .. Len(fwd') /\ fwd'[i] = fwd[i]
  BY <1>1, <1>3, AppendToChannel
<1>4. CASE fwd # <<>> /\ fwd' = Tail(fwd) /\ fwd[i] # Head(fwd)
  <2>1. /\ Len(fwd) \in Nat \ {0} /\ Head(fwd) = fwd[1] /\ Len(fwd') = Len(fwd) - 1
        /\ \A j \in 1 .. Len(fwd) - 1 : fwd'[j] = fwd[j + 1]
    BY <1>1, <1>4, TailOfChannel
  <2>2. i # 1
    BY <1>4, <2>1
  <2>3. i - 1 \in 1 .. Len(fwd') /\ fwd'[i - 1] = fwd[i]
    BY <2>1, <2>2
  <2> QED
    BY <2>3
<1> QED
  BY <1>2, <1>3, <1>4

LEMMA OnLinkKept ==
    ASSUME TypeOK, NEW k \in Nat, OnLink(k),
           \/ fwd' = fwd
           \/ \E x \in Message : fwd' = Append(fwd, x)
           \/ fwd # <<>> /\ fwd' = Tail(fwd) /\ (Head(fwd).type # "DATA" \/ Head(fwd).val # k)
    PROVE  OnLink(k)'
<1>1. PICK i \in 1 .. Len(fwd) : fwd[i].type = "DATA" /\ fwd[i].val = k
  BY DEF OnLink
<1>2. PICK j \in 1 .. Len(fwd') : fwd'[j] = fwd[i]
  BY <1>1, Stays
<1> QED
  BY <1>1, <1>2 DEF OnLink

LEMMA AckComingKept ==
    ASSUME TypeOK, AckComing,
           \/ fwd' = fwd
           \/ \E x \in Message : fwd' = Append(fwd, x)
           \/ fwd # <<>> /\ fwd' = Tail(fwd) /\ Head(fwd).type # "CACK",
           rState' = "COUNTER_ACK" /\ rSEQ' # HeaderSeq' =>
               rState = "COUNTER_ACK" /\ rSEQ # HeaderSeq
    PROVE  AckComing'
<1>1. ASSUME NEW i \in 1 .. Len(fwd), fwd[i].type = "CACK"
      PROVE  \E j \in 1 .. Len(fwd') : fwd'[j].type = "CACK"
  <2>1. PICK j \in 1 .. Len(fwd') : fwd'[j] = fwd[i]
    BY <1>1, Stays
  <2> QED
    BY <1>1, <2>1
<1> QED
  BY <1>1 DEF AckComing

(* A START that was lost does not come back. *)
LEMMA StrandedKept ==
    ASSUME TypeOK, AwaitsStart => AwaitsStart',
           \/ fwd' = fwd
           \/ \E x \in Message : fwd' = Append(fwd, x) /\ x.type # "START"
           \/ fwd # <<>> /\ fwd' = Tail(fwd)
    PROVE  Stranded => Stranded'
<1>0. fwd \in Seq(Message)
  BY DEF TypeOK
<1>1. CASE fwd' = fwd
  BY <1>1 DEF Stranded, StartOnLink
<1>2. ASSUME NEW x \in Message, fwd' = Append(fwd, x), x.type # "START"
      PROVE  StartOnLink' => StartOnLink
  <2>1. \A i \in 1 .. Len(fwd') : \/ i \in 1 .. Len(fwd) /\ fwd'[i] = fwd[i]
                                  \/ i = Len(fwd) + 1 /\ fwd'[i] = x
    BY <1>0, <1>2, AppendCases
  <2> QED
    BY <1>2, <2>1 DEF StartOnLink
<1>3. CASE fwd # <<>> /\ fwd' = Tail(fwd)
  <2>1. /\ Len(fwd) \in Nat \ {0} /\ Len(fwd') = Len(fwd) - 1
        /\ \A i \in 1 .. Len(fwd) - 1 : fwd'[i] = fwd[i + 1]
    BY <1>0, <1>3, TailOfChannel
  <2>2. \A i \in 1 .. Len(fwd') : i + 1 \in 1 .. Len(fwd) /\ fwd'[i] = fwd[i + 1]
    BY <2>1
  <2> QED
    BY <2>2 DEF Stranded, StartOnLink
<1> QED
  BY <1>1, <1>2, <1>3 DEF Stranded

(* What keeps the order that the wildcard machine rests on. *)
LEMMA OrderKept ==
    ASSUME TypeOK, WildcardOrder, fwd' = fwd, HeaderSeq' = HeaderSeq,
           Stranded => Stranded', AwaitsStop' => AwaitsStop,
           rState' = "COUNTING" => rState = "COUNTING"
    PROVE  WildcardOrder'
<1>1. \A m : IsStop(m)' = IsStop(m)
  BY DEF IsStop
<1>2. (StartOnLink => StartOnLink') /\ (StopOnLink => StopOnLink')
  BY <1>1 DEF StartOnLink, StopOnLink
<1>3. \A j : Outside(j) => Outside(j)'
  BY <1>1 DEF Outside
<1> QED
  BY <1>2, <1>3 DEF WildcardOrder

LEMMA OrderSent ==
    ASSUME TypeOK, WildcardOrder, NEW x \in Message, fwd' = Append(fwd, x),
           HeaderSeq' = HeaderSeq, rState' = rState,
           Stranded => Stranded',
           AwaitsStop' => AwaitsStop \/ IsStop(x),
           x.type = "PLAIN" => (rState # "COUNTING" /\ ~StartOnLink) \/ StopOnLink
    PROVE  WildcardOrder'
<1> SUFFICES ASSUME Kind = "wildcard" PROVE WildcardOrder'
  BY DEF WildcardOrder
<1>0. fwd \in Seq(Message)
  BY DEF TypeOK
<1>1. /\ Len(fwd) \in Nat /\ Len(fwd') = Len(fwd) + 1 /\ fwd'[Len(fwd) + 1] = x
      /\ \A i \in 1 .. Len(fwd) : fwd'[i] = fwd[i]
  BY <1>0, AppendToChannel
<1>2. \A m : IsStop(m)' = IsStop(m)
  BY DEF IsStop
<1>4. AwaitsStop' => StopOnLink' \/ Stranded'
  <2>1. StopOnLink => StopOnLink'
    BY <1>1, <1>2 DEF StopOnLink
  <2>2. IsStop(x) => StopOnLink'
    BY <1>1, <1>2 DEF StopOnLink
  <2> QED
    BY <2>1, <2>2 DEF WildcardOrder
<1>5. ASSUME NEW j \in 1 .. Len(fwd'), fwd'[j].type = "PLAIN" PROVE Outside(j)'
  <2>1. CASE j \in 1 .. Len(fwd)
    <3>1. Outside(j)
      BY <1>1, <1>5, <2>1 DEF WildcardOrder
    <3>2. \A i \in 1 .. j - 1 : fwd'[i] = fwd[i]
      BY <1>1, <2>1
    <3> QED
      BY <1>2, <3>1, <3>2 DEF Outside
  <2>2. CASE j = Len(fwd) + 1
    <3>1. j - 1 = Len(fwd) /\ x.type = "PLAIN"
      BY <1>1, <1>5, <2>2
    <3>2. CASE rState # "COUNTING" /\ ~StartOnLink
      BY <1>1, <3>1, <3>2 DEF Outside, StartOnLink
    <3>3. CASE StopOnLink
      BY <1>1, <1>2, <3>1, <3>3 DEF Outside, StopOnLink
    <3> QED
      BY <3>1, <3>2, <3>3
  <2> QED
    BY <1>1, <2>1, <2>2
<1> QED
  BY <1>4, <1>5 DEF WildcardOrder

LEMMA OrderTaken ==
    ASSUME TypeOK, WildcardOrder, FwdOrder, fwd # <<>>, fwd' = Tail(fwd),
           HeaderSeq' = HeaderSeq,
           Stranded => Stranded',
           AwaitsStop' /\ ~Stranded' => AwaitsStop /\ ~IsStop(Head(fwd)),
           rState' = "COUNTING" => rState = "COUNTING" \/ Head(fwd).type = "START",
           IsStop(Head(fwd)) => rState' # "COUNTING"
    PROVE  WildcardOrder'
<1> SUFFICES ASSUME Kind = "wildcard" PROVE WildcardOrder'
  BY DEF WildcardOrder
<1>0. fwd \in Seq(Message)
  BY DEF TypeOK
<1>1. /\ Len(fwd) \in Nat \ {0} /\ Head(fwd) = fwd[1] /\ Len(fwd') = Len(fwd) - 1
      /\ \A i \in 1 .. Len(fwd) - 1 : fwd'[i] = fwd[i + 1]
  BY <1>0, TailOfChannel
<1>2. \A m : IsStop(m)' = IsStop(m)
  BY DEF IsStop
<1>4. AwaitsStop' => StopOnLink' \/ Stranded'
  <2> SUFFICES ASSUME AwaitsStop', ~Stranded' PROVE StopOnLink'
    OBVIOUS
  <2>1. PICK i \in 1 .. Len(fwd) : IsStop(fwd[i])
    BY DEF WildcardOrder, StopOnLink
  <2>2. fwd[i] # Head(fwd)
    BY <2>1
  <2>3. PICK j \in 1 .. Len(fwd') : fwd'[j] = fwd[i]
    BY <2>2, Stays
  <2> QED
    BY <1>2, <2>1, <2>3 DEF StopOnLink
<1>5. ASSUME NEW j \in 1 .. Len(fwd'), fwd'[j].type = "PLAIN" PROVE Outside(j)'
  <2>0. /\ j \in Nat /\ j + 1 \in 1 .. Len(fwd) /\ fwd'[j] = fwd[j + 1] /\ (j + 1) - 1 = j
        /\ \A i \in 1 .. j - 1 : i + 1 \in 1 .. j /\ fwd'[i] = fwd[i + 1]
    BY <1>1
  <2>1. Outside(j + 1)
    BY <1>5, <2>0 DEF WildcardOrder
  <2>2. CASE rState # "COUNTING" /\ \A i \in 1 .. j : fwd[i].type # "START"
    <3>1. Head(fwd).type # "START"
      BY <1>1, <2>0, <2>2
    <3> QED
      BY <2>0, <2>2, <3>1 DEF Outside
  <2>3. ASSUME NEW i \in 1 .. j, IsStop(fwd[i]), i # 1 PROVE Outside(j)'
    <3>1. i - 1 \in 1 .. j - 1 /\ (i - 1) + 1 = i
      BY <2>0, <2>3
    <3>2. fwd'[i - 1] = fwd[i]
      BY <2>0, <3>1
    <3> QED
      BY <1>2, <2>3, <3>1, <3>2 DEF Outside
  <2>4. CASE IsStop(fwd[1])
    <3>1. rState' # "COUNTING"
      BY <1>1, <2>4
    <3>2. ASSUME NEW i \in 1 .. j - 1 PROVE fwd'[i].type # "START"
      <4>1. i + 1 \in 1 .. Len(fwd) /\ 1 \in 1 .. Len(fwd) /\ 1 < i + 1
        BY <1>1, <2>0
      <4>2. FwdPair(fwd[1], fwd[i + 1])
        BY <4>1 DEF FwdOrder
      <4>3. fwd[i + 1].type # "START"
        BY <2>4, <4>2 DEF FwdPair, IsStop, Stage
      <4> QED
        BY <2>0, <4>3
    <3> QED
      BY <3>1, <3>2 DEF Outside
  <2> QED
    BY <2>0, <2>1, <2>2, <2>3, <2>4 DEF Outside
<1> QED
  BY <1>4, <1>5 DEF WildcardOrder

(* The arithmetic content of the types. *)
LEMMA Facts ==
    ASSUME TypeOK
    PROVE  /\ sSEQ \in Nat /\ rSEQ \in Nat /\ sCounter \in Nat /\ rCounter \in Nat
           /\ lost \in Nat /\ rOrphans \in Nat
           /\ fwd \in Seq(Message) /\ bwd \in Seq(Message)
           /\ HeaderSeq \in 0 .. SeqMod - 1 /\ HeaderSeq \in Nat
           /\ Counted \in Nat /\ SenderStage \in 0 .. 3 /\ ReceiverStage \in 1 .. 3
           /\ \A m \in Message : m.seq \in Nat /\ m.val \in Nat /\ Stage(m) \in 1 .. 4
<1>1. HeaderSeq \in 0 .. SeqMod - 1 /\ SeqMod \in Nat
  BY HeaderSeqType, ConstantsAssumption
<1>2. SenderStage \in 0 .. 3 /\ ReceiverStage \in 1 .. 3
  BY DEF SenderStage, ReceiverStage
<1>3. \A m \in Message : m.seq \in Nat /\ m.val \in Nat /\ Stage(m) \in 1 .. 4
  BY <1>1 DEF Message, Stage
<1>4. /\ sSEQ \in Nat /\ rSEQ \in Nat /\ sCounter \in Nat /\ rCounter \in Nat
      /\ lost \in Nat /\ rOrphans \in Nat
      /\ fwd \in Seq(Message) /\ bwd \in Seq(Message)
  BY <1>1 DEF TypeOK
<1> QED
  BY <1>1, <1>2, <1>3, <1>4 DEF Counted

LEMMA InitEInv == Init => EInv
<1> SUFFICES ASSUME Init PROVE EInv
  OBVIOUS
<1>1. TypeOK
  BY InitType
<1>2. fwd = <<>> /\ bwd = <<>> /\ Len(fwd) = 0 /\ Len(bwd) = 0
  BY DEF Init
<1>3. HeaderSeq = 0
  BY ConstantsAssumption DEF Init, HeaderSeq
<1>4. SenderPhase /\ ReceiverPhase /\ AckComing
  BY <1>3 DEF Init, SenderPhase, Joined, ReceiverPhase, AckComing
<1>5. EventPhase
  BY DEF Init, EventPhase
<1>6. FwdFacts /\ FwdOrder /\ BwdFacts /\ BwdOrder
  BY <1>2 DEF FwdFacts, FwdOrder, BwdFacts, BwdOrder
<1>7. AllCounted
  BY <1>3 DEF Init, AllCounted, Counted
<1>8. Histories
  <2>1. rMax = [i \in 1 .. HistDepth |-> 0] /\ sMax = rMax /\ sMax[1] = 0
    BY ConstantsAssumption DEF Init
  <2>2. Shift(rMax, 0) = rMax
    BY <2>1, ConstantsAssumption DEF Shift
  <2> QED
    BY <2>1, <2>2 DEF Histories
<1>9. Verdict
  BY DEF Init, Verdict
<1>10. WildcardOrder
  BY <1>2 DEF Init, WildcardOrder, AwaitsStop
<1> QED
  BY <1>1, <1>4, <1>5, <1>6, <1>7, <1>8, <1>9, <1>10 DEF EInv

-----------------------------------------------------------------------------
(* What the sender sends is the latest message of its session. *)

LEMMA SendStartExact ==
    ASSUME EInv, SendStart, TypeOK' PROVE EInv'
<1>0. TypeOK /\ SenderPhase /\ ReceiverPhase /\ AckComing /\ FwdFacts /\ FwdOrder
      /\ BwdFacts /\ BwdOrder /\ AllCounted /\ WildcardOrder
  BY DEF EInv
<1>1. /\ fwd' = Append(fwd, Msg("START", HeaderSeq, sMax[1])) /\ sEvent = "START"
      /\ UNCHANGED <<sSEQ, sMax, rState, rSEQ, rCounter, rEvent, rOrphans, rMax, bwd,
                     flagged, lost, everLost>>
  BY DEF SendStart, receiverVars, verdictVars, historyVars
<1>2. sState \in {"IDLE", "START_ACK"} /\ sCounter = 0 /\ (Kind = "wildcard" => sState = "IDLE")
  BY <1>0, <1>1 DEF SenderPhase, TypeOK
<1>begun. /\ sCounter' = 0
       /\ \/ Kind = "wildcard" /\ sState' = "COUNTING" /\ sEvent' = "STOP"
          \/ Kind # "wildcard" /\ sState' = "START_ACK" /\ sEvent' = "START"
  BY <1>1, <1>2 DEF SendStart
<1>30. Msg("START", HeaderSeq, sMax[1]) \in Message
  <2>1. 1 \in 1 .. HistDepth
    BY ConstantsAssumption
  <2>2. sMax[1] \in Maxima
    BY <1>0, <2>1 DEF TypeOK
  <2>3. HeaderSeq \in 0 .. SeqMod - 1
    BY <1>0, Facts
  <2> QED
    BY <2>2, <2>3, ConstantsAssumption DEF Msg, Message, MessageTypes
<1>3. PICK x \in Message : /\ fwd' = Append(fwd, x) /\ x.type = "START"
                           /\ x.seq = HeaderSeq /\ x.val = sMax[1]
  BY <1>1, <1>30 DEF Msg
<1>4. HeaderSeq' = HeaderSeq /\ Counted' = Counted /\ ReceiverStage' = ReceiverStage
  BY <1>1 DEF HeaderSeq, Counted, ReceiverStage
<1>5. SenderStage' \in {1, 2} /\ SenderStage \in {0, 1}
  BY <1>2, <1>begun DEF SenderStage
<1>6. Stage(x) = 1
  BY <1>3 DEF Stage
<1>7. Counted = 0 /\ lost = 0
  BY <1>0, <1>2, Facts DEF AllCounted
<1>8. rSEQ = HeaderSeq => ReceiverStage = 1
  BY <1>0, <1>2, <1>7 DEF ReceiverStage, ReceiverPhase, Joined, Counted
<1>9. SenderPhase' /\ ReceiverPhase'
  BY <1>0, <1>1, <1>2, <1>begun, <1>4 DEF SenderPhase, Joined, ReceiverPhase
<1>10. EventPhase' /\ Verdict'
  BY <1>1 DEF EInv, EventPhase, Verdict
<1>11. Histories'
  BY <1>1, <1>4 DEF EInv, Histories, Shift
<1>12. AckComing'
  BY <1>0, <1>1, <1>3, <1>4, AckComingKept
<1>13. FwdFacts' /\ FwdOrder'
  <2>1. FwdMsg(x)'
    BY <1>1, <1>3, <1>4, <1>5, <1>6, <1>8 DEF FwdMsg, SessionMsg, Stage
  <2>2. ASSUME NEW m \in Message, FwdMsg(m)
        PROVE  FwdMsg(m)' /\ FwdPair(m, x)
    <3>1. Stage(m) \in 1 .. 4
      BY <1>0, Facts
    <3> QED
      BY <1>1, <1>2, <1>begun, <1>3, <1>4, <1>5, <1>6, <2>2, <3>1 DEF FwdMsg, SessionMsg, FwdPair, Stage
  <2> QED
    BY <1>0, <1>1, <1>3, <1>4, <2>1, <2>2, FwdSent
<1>14. BwdFacts' /\ BwdOrder'
  <2>1. ASSUME NEW m \in Message, BwdMsg(m)
        PROVE  BwdMsg(m)'
    BY <1>1, <1>2, <1>begun, <1>4, <2>1 DEF BwdMsg
  <2> QED
    BY <1>0, <1>1, <1>4, <2>1, BwdKept
<1>15. AllCounted'
  BY <1>1, <1>begun, <1>4, <1>7 DEF AllCounted
<1>16. WildcardOrder'
  <2>1. ~AwaitsStop' /\ ~Stranded
    BY <1>2, <1>begun DEF AwaitsStop, Stranded, AwaitsStart
  <2> QED
    BY <1>0, <1>1, <1>3, <1>4, <2>1, OrderSent
<1> QED
  BY <1>9, <1>10, <1>11, <1>12, <1>13, <1>14, <1>15, <1>16 DEF EInv

LEMMA SendStopExact ==
    ASSUME EInv, SendStop, TypeOK' PROVE EInv'
<1>0. TypeOK /\ SenderPhase /\ ReceiverPhase /\ AckComing /\ FwdFacts /\ FwdOrder
      /\ BwdFacts /\ BwdOrder /\ AllCounted /\ WildcardOrder
  BY DEF EInv
<1>1. /\ fwd' = Append(fwd, Msg("STOP", HeaderSeq, 0))
      /\ sState' = "WAIT_COUNTER_RECEIVE" /\ sEvent = "STOP"
      /\ UNCHANGED <<sSEQ, sCounter, sEvent, sMax, rState, rSEQ, rCounter, rEvent, rOrphans,
                     rMax, bwd, flagged, lost, everLost>>
  BY DEF SendStop, receiverVars, verdictVars, historyVars
<1>2. sState \in {"COUNTING", "WAIT_COUNTER_RECEIVE"}
  BY <1>0, <1>1 DEF SenderPhase, TypeOK
<1>30. Msg("STOP", HeaderSeq, 0) \in Message
  BY <1>0, Facts DEF Msg, Message, MessageTypes
<1>3. PICK x \in Message : fwd' = Append(fwd, x) /\ x.type = "STOP" /\ x.seq = HeaderSeq
  BY <1>1, <1>30 DEF Msg
<1>4. HeaderSeq' = HeaderSeq /\ Counted' = Counted /\ ReceiverStage' = ReceiverStage
  BY <1>1 DEF HeaderSeq, Counted, ReceiverStage
<1>5. SenderStage' = 3 /\ SenderStage \in {2, 3}
  BY <1>1, <1>2 DEF SenderStage
<1>6. Stage(x) = 3 /\ ReceiverStage <= 3
  BY <1>0, <1>3, Facts DEF Stage
<1>7. SenderPhase' /\ ReceiverPhase'
  BY <1>0, <1>1, <1>2, <1>4 DEF SenderPhase, Joined, ReceiverPhase
<1>8. EventPhase' /\ Verdict'
  BY <1>1 DEF EInv, EventPhase, Verdict
<1>9. Histories'
  BY <1>1, <1>4 DEF EInv, Histories, Shift
<1>10. AckComing'
  BY <1>0, <1>1, <1>3, <1>4, AckComingKept
<1>11. FwdFacts' /\ FwdOrder'
  <2>1. FwdMsg(x)'
    BY <1>1, <1>3, <1>4, <1>5, <1>6 DEF FwdMsg, SessionMsg, Stage
  <2>2. ASSUME NEW m \in Message, FwdMsg(m)
        PROVE  FwdMsg(m)' /\ FwdPair(m, x)
    <3>1. Stage(m) \in 1 .. 4
      BY <1>0, Facts
    <3> QED
      BY <1>1, <1>2, <1>3, <1>4, <1>5, <1>6, <2>2, <3>1 DEF FwdMsg, SessionMsg, FwdPair, Stage
  <2> QED
    BY <1>0, <1>1, <1>3, <1>4, <2>1, <2>2, FwdSent
<1>12. BwdFacts' /\ BwdOrder'
  <2>1. ASSUME NEW m \in Message, BwdMsg(m)
        PROVE  BwdMsg(m)'
    BY <1>1, <1>2, <1>4, <2>1 DEF BwdMsg
  <2> QED
    BY <1>0, <1>1, <1>4, <2>1, BwdKept
<1>stranded. Stranded => Stranded'
  <2>1. AwaitsStart => AwaitsStart'
    BY <1>1, <1>4 DEF AwaitsStart, Joined
  <2> QED
    BY <1>0, <1>3, <2>1, StrandedKept
<1>13. AllCounted'
  <2>1. ASSUME NEW k \in Nat, OnLink(k)
        PROVE  OnLink(k)'
    BY <1>0, <1>3, <2>1, OnLinkKept
  <2> QED
    BY <1>0, <1>1, <1>4, <1>stranded, <2>1 DEF AllCounted
<1>14. WildcardOrder'
  <2>2. IsStop(x)
    BY <1>3 DEF IsStop
  <2> QED
    BY <1>0, <1>1, <1>3, <1>4, <1>stranded, <2>2, OrderSent
<1> QED
  BY <1>7, <1>8, <1>9, <1>10, <1>11, <1>12, <1>13, <1>14 DEF EInv

(* A packet that is counted. *)
LEMMA SendCountedExact ==
    ASSUME EInv, SendPacket, sState = "COUNTING", TypeOK' PROVE EInv'
<1>0. TypeOK /\ SenderPhase /\ ReceiverPhase /\ AckComing /\ FwdFacts /\ FwdOrder
      /\ BwdFacts /\ BwdOrder /\ AllCounted /\ WildcardOrder
  BY DEF EInv
<1>1. /\ fwd' = Append(fwd, Msg("DATA", HeaderSeq, sCounter + 1))
      /\ sState = "COUNTING" /\ sCounter' = sCounter + 1
      /\ UNCHANGED <<sState, sSEQ, sEvent, sMax, rState, rSEQ, rCounter, rEvent, rOrphans,
                     rMax, bwd, flagged, lost, everLost>>
  BY DEF SendPacket, receiverVars, verdictVars, historyVars
<1>2. sEvent = "STOP" /\ (rSEQ = HeaderSeq => rState \in {"IDLE", "COUNTING"})
  BY <1>0, <1>1 DEF SenderPhase, ReceiverPhase, TypeOK
<1>30. Msg("DATA", HeaderSeq, sCounter + 1) \in Message
  BY <1>0, Facts DEF Msg, Message, MessageTypes
<1>3. PICK x \in Message : /\ fwd' = Append(fwd, x) /\ x.type = "DATA"
                           /\ x.seq = HeaderSeq /\ x.val = sCounter + 1
  BY <1>1, <1>30 DEF Msg
<1>4. HeaderSeq' = HeaderSeq /\ Counted' = Counted /\ ReceiverStage' = ReceiverStage
      /\ SenderStage' = SenderStage
  BY <1>1 DEF HeaderSeq, Counted, ReceiverStage, SenderStage
<1>5. SenderStage = 2 /\ Stage(x) = 2 /\ (rSEQ = HeaderSeq => ReceiverStage <= 2)
  BY <1>1, <1>2, <1>3 DEF SenderStage, ReceiverStage, Stage
<1>6. Counted \in Nat /\ lost \in Nat /\ sCounter \in Nat /\ Counted + lost <= sCounter
  BY <1>0, Facts DEF AllCounted
<1>7. SenderPhase' /\ ReceiverPhase'
  BY <1>0, <1>1, <1>2, <1>4 DEF SenderPhase, Joined, ReceiverPhase
<1>8. EventPhase' /\ Verdict'
  BY <1>1 DEF EInv, EventPhase, Verdict
<1>9. Histories'
  BY <1>1, <1>4 DEF EInv, Histories, Shift
<1>10. AckComing'
  BY <1>0, <1>1, <1>3, <1>4, AckComingKept
<1>11. FwdFacts' /\ FwdOrder'
  <2>1. FwdMsg(x)'
    BY <1>1, <1>3, <1>4, <1>5, <1>6 DEF FwdMsg, SessionMsg, Stage
  <2>2. ASSUME NEW m \in Message, FwdMsg(m)
        PROVE  FwdMsg(m)' /\ FwdPair(m, x)
    <3>1. Stage(m) \in 1 .. 4 /\ m.val \in Nat
      BY <1>0, Facts
    <3> QED
      BY <1>1, <1>2, <1>3, <1>4, <1>5, <1>6, <2>2, <3>1 DEF FwdMsg, SessionMsg, FwdPair, Stage
  <2> QED
    BY <1>0, <1>1, <1>3, <1>4, <2>1, <2>2, FwdSent
<1>12. BwdFacts' /\ BwdOrder'
  <2>1. ASSUME NEW m \in Message, BwdMsg(m)
        PROVE  BwdMsg(m)'
    BY <1>1, <1>2, <1>4, <2>1 DEF BwdMsg
  <2> QED
    BY <1>0, <1>1, <1>4, <2>1, BwdKept
<1>stranded. Stranded => Stranded'
  <2>1. AwaitsStart => AwaitsStart'
    BY <1>1, <1>4 DEF AwaitsStart, Joined
  <2> QED
    BY <1>0, <1>3, <2>1, StrandedKept
<1>13. AllCounted'
  <2>1. ASSUME NEW k \in Nat, OnLink(k)
        PROVE  OnLink(k)'
    BY <1>0, <1>3, <2>1, OnLinkKept
  <2>2. ASSUME NEW k \in Nat, k = sCounter + 1
        PROVE  OnLink(k)'
    <3>1. Len(fwd') \in 1 .. Len(fwd') /\ fwd'[Len(fwd')] = x
      BY <1>0, <1>3, Facts, AppendToChannel
    <3> QED
      BY <1>3, <2>2, <3>1 DEF OnLink
  <2> QED
    BY <1>0, <1>1, <1>4, <1>6, <1>stranded, <2>1, <2>2 DEF AllCounted
<1>14. WildcardOrder'
  <2>1. ~AwaitsStop'
    BY <1>1 DEF AwaitsStop
  <2> QED
    BY <1>0, <1>1, <1>3, <1>4, <1>stranded, <2>1, OrderSent
<1> QED
  BY <1>7, <1>8, <1>9, <1>10, <1>11, <1>12, <1>13, <1>14 DEF EInv

(***************************************************************************)
(* A packet that is not counted: the sender waits for the counter, or has  *)
(* not started, so that the receiver cannot be in the session when the     *)
(* packet gets there.                                                      *)
(***************************************************************************)
LEMMA SendPlainExact ==
    ASSUME EInv, SendPacket, sState # "COUNTING", TypeOK' PROVE EInv'
<1>0. TypeOK /\ SenderPhase /\ ReceiverPhase /\ AckComing /\ FwdFacts /\ FwdOrder
      /\ BwdFacts /\ BwdOrder /\ AllCounted /\ WildcardOrder
  BY DEF EInv
<1>1. /\ fwd' = Append(fwd, Msg("PLAIN", 0, 0)) /\ Kind = "wildcard"
      /\ UNCHANGED <<sState, sSEQ, sCounter, sEvent, sMax, rState, rSEQ, rCounter, rEvent,
                     rOrphans, rMax, bwd, flagged, lost, everLost>>
  BY DEF SendPacket, receiverVars, verdictVars, historyVars
<1>2. sState \in {"IDLE", "WAIT_COUNTER_RECEIVE"}
  BY <1>0, <1>1 DEF SenderPhase, TypeOK
<1>30. Msg("PLAIN", 0, 0) \in Message
  BY ConstantsAssumption DEF Msg, Message, MessageTypes
<1>3. PICK x \in Message : fwd' = Append(fwd, x) /\ x.type = "PLAIN"
  BY <1>1, <1>30 DEF Msg
<1>4. HeaderSeq' = HeaderSeq /\ Counted' = Counted /\ ReceiverStage' = ReceiverStage
      /\ SenderStage' = SenderStage
  BY <1>1 DEF HeaderSeq, Counted, ReceiverStage, SenderStage
<1>5. SenderPhase' /\ ReceiverPhase'
  BY <1>0, <1>1, <1>4 DEF SenderPhase, Joined, ReceiverPhase
<1>6. EventPhase' /\ Verdict'
  BY <1>1 DEF EInv, EventPhase, Verdict
<1>7. Histories'
  BY <1>1, <1>4 DEF EInv, Histories, Shift
<1>8. AckComing'
  BY <1>0, <1>1, <1>3, <1>4, AckComingKept
<1>9. FwdFacts' /\ FwdOrder'
  <2>1. FwdMsg(x)'
    BY <1>1, <1>3 DEF FwdMsg
  <2>2. ASSUME NEW m \in Message, FwdMsg(m)
        PROVE  FwdMsg(m)' /\ FwdPair(m, x)
    BY <1>1, <1>3, <1>4, <2>2 DEF FwdMsg, SessionMsg, FwdPair, Stage
  <2> QED
    BY <1>0, <1>1, <1>3, <1>4, <2>1, <2>2, FwdSent
<1>10. BwdFacts' /\ BwdOrder'
  <2>1. ASSUME NEW m \in Message, BwdMsg(m)
        PROVE  BwdMsg(m)'
    BY <1>1, <1>4, <2>1 DEF BwdMsg
  <2> QED
    BY <1>0, <1>1, <1>4, <2>1, BwdKept
<1>stranded. Stranded => Stranded'
  <2>1. AwaitsStart => AwaitsStart'
    BY <1>1, <1>4 DEF AwaitsStart, Joined
  <2> QED
    BY <1>0, <1>3, <2>1, StrandedKept
<1>11. AllCounted'
  <2>1. ASSUME NEW k \in Nat, OnLink(k)
        PROVE  OnLink(k)'
    BY <1>0, <1>3, <2>1, OnLinkKept
  <2> QED
    BY <1>0, <1>1, <1>4, <1>stranded, <2>1 DEF AllCounted
<1>12. (rState # "COUNTING" /\ ~StartOnLink) \/ StopOnLink
  <2>1. ASSUME NEW i \in 1 .. Len(fwd), fwd[i].type = "START"
        PROVE  1 <= SenderStage /\ (rSEQ = HeaderSeq => ReceiverStage <= 1)
    BY <1>0, <2>1 DEF FwdFacts, FwdMsg, SessionMsg, Stage
  <2>2. CASE sState = "IDLE"
    <3>1. rState # "COUNTING"
      BY <1>0, <2>2 DEF ReceiverPhase, Joined
    <3>2. ~(1 <= SenderStage)
      BY <2>2 DEF SenderStage
    <3> QED
      BY <2>1, <3>1, <3>2 DEF StartOnLink
  <2>3. CASE sState = "WAIT_COUNTER_RECEIVE" /\ AwaitsStop
    <3>1. Stranded => rState # "COUNTING" /\ ~StartOnLink
      BY <1>0 DEF Stranded, AwaitsStart, Joined, ReceiverPhase
    <3> QED
      BY <1>0, <1>1, <2>3, <3>1 DEF WildcardOrder
  <2>4. CASE sState = "WAIT_COUNTER_RECEIVE" /\ ~AwaitsStop
    <3>1. rSEQ = HeaderSeq /\ rState \in {"WAIT_COUNTER_SEND", "COUNTER_ACK"}
      BY <1>0, <2>4 DEF AwaitsStop, Joined, TypeOK
    <3>2. ~(ReceiverStage <= 1)
      BY <3>1 DEF ReceiverStage
    <3> QED
      BY <2>1, <3>1, <3>2 DEF StartOnLink
  <2> QED
    BY <1>2, <2>2, <2>3, <2>4
<1>13. WildcardOrder'
  <2>1. AwaitsStop' => AwaitsStop
    BY <1>1, <1>4 DEF AwaitsStop, Joined
  <2> QED
    BY <1>0, <1>1, <1>3, <1>4, <1>stranded, <1>12, <2>1, OrderSent
<1> QED
  BY <1>5, <1>6, <1>7, <1>8, <1>9, <1>10, <1>11, <1>13 DEF EInv

LEMMA SendPacketExact ==
    ASSUME EInv, SendPacket, TypeOK' PROVE EInv'
  BY SendCountedExact, SendPlainExact

-----------------------------------------------------------------------------
(* A message leaves the link to the receiver. *)

LEMMA HeadOfFwd ==
    ASSUME TypeOK, FwdFacts, fwd # <<>>
    PROVE  \E h \in Message : h = Head(fwd) /\ FwdMsg(h)
<1>1. fwd \in Seq(Message)
  BY DEF TypeOK
<1>2. Head(fwd) = fwd[1] /\ Head(fwd) \in Message /\ 1 \in 1 .. Len(fwd)
  BY <1>1, TailOfChannel
<1> QED
  BY <1>2 DEF FwdFacts

(* A START that is still to come has no packet and no STOP of its session ahead. *)
LEMMA StartIsFirst ==
    ASSUME TypeOK, FwdOrder, StartOnLink,
           fwd # <<>>, Head(fwd).type # "PLAIN", Head(fwd).seq = HeaderSeq
    PROVE  ~(2 <= Stage(Head(fwd)))
<1>1. PICK i \in 1 .. Len(fwd) : fwd[i].type = "START"
  BY DEF StartOnLink
<1>2. Head(fwd) = fwd[1] /\ Len(fwd) \in Nat /\ 1 \in 1 .. Len(fwd)
  BY Facts, TailOfChannel
<1>3. Stage(fwd[i]) = 1
  BY <1>1 DEF Stage
<1>4. CASE i = 1
  BY <1>2, <1>3, <1>4
<1>5. CASE i # 1
  <2>1. FwdPair(fwd[1], fwd[i])
    BY <1>2, <1>5 DEF FwdOrder
  <2>2. Stage(fwd[1]) <= 1
    BY <1>1, <1>2, <1>3, <2>1 DEF FwdPair
  <2>3. Stage(fwd[1]) \in Nat
    BY <1>2, Facts
  <2> QED
    BY <1>2, <2>2, <2>3
<1> QED
  BY <1>4, <1>5

(* It has no effect. *)
LEMMA IgnoredExact ==
    ASSUME EInv, TypeOK', fwd # <<>>, fwd' = Tail(fwd),
           Head(fwd).type # "DATA" \/ Stranded,
           Head(fwd).type = "CACK" => rState # "COUNTER_ACK",
           Kind = "wildcard" /\ IsStop(Head(fwd)) => rState # "COUNTING",
           UNCHANGED <<senderVars, receiverVars, bwd, flagged, lost, everLost>>
    PROVE  EInv'
<1>0. TypeOK /\ SenderPhase /\ ReceiverPhase /\ AckComing /\ FwdFacts /\ FwdOrder
      /\ BwdFacts /\ BwdOrder /\ AllCounted /\ WildcardOrder
  BY DEF EInv
<1>1. UNCHANGED <<sState, sSEQ, sCounter, sEvent, sMax, rState, rSEQ, rCounter, rEvent,
                  rOrphans, rMax, bwd, flagged, lost, everLost>>
  BY DEF senderVars, receiverVars
<1>2. HeaderSeq' = HeaderSeq /\ Counted' = Counted /\ ReceiverStage' = ReceiverStage
      /\ SenderStage' = SenderStage
  BY <1>1 DEF HeaderSeq, Counted, ReceiverStage, SenderStage
<1>3. SenderPhase' /\ ReceiverPhase'
  BY <1>0, <1>1, <1>2 DEF SenderPhase, Joined, ReceiverPhase
<1>4. EventPhase' /\ Verdict'
  BY <1>1 DEF EInv, EventPhase, Verdict
<1>5. Histories'
  BY <1>1, <1>2 DEF EInv, Histories, Shift
<1>6. AckComing'
  <2>1. CASE rState = "COUNTER_ACK"
    BY <1>0, <1>1, <1>2, <2>1, AckComingKept
  <2>2. CASE rState # "COUNTER_ACK"
    BY <1>1, <2>2 DEF AckComing
  <2> QED
    BY <2>1, <2>2
<1>7. FwdFacts' /\ FwdOrder'
  <2>1. ASSUME NEW m \in Message, FwdMsg(m)
        PROVE  FwdMsg(m)'
    BY <1>1, <1>2, <2>1 DEF FwdMsg, SessionMsg, Stage
  <2> QED
    BY <1>0, <1>2, <2>1, FwdTaken
<1>8. BwdFacts' /\ BwdOrder'
  <2>1. ASSUME NEW m \in Message, BwdMsg(m)
        PROVE  BwdMsg(m)'
    BY <1>1, <1>2, <2>1 DEF BwdMsg
  <2> QED
    BY <1>0, <1>1, <1>2, <2>1, BwdKept
<1>stranded. Stranded => Stranded'
  <2>1. AwaitsStart => AwaitsStart'
    BY <1>1, <1>2 DEF AwaitsStart, Joined
  <2> QED
    BY <1>0, <2>1, StrandedKept
<1>9. AllCounted'
  <2>1. ASSUME NEW k \in Nat, OnLink(k), ~Stranded
        PROVE  OnLink(k)'
    BY <1>0, <2>1, OnLinkKept
  <2> QED
    BY <1>0, <1>1, <1>2, <1>stranded, <2>1 DEF AllCounted
<1>10. WildcardOrder'
  <2> SUFFICES ASSUME Kind = "wildcard" PROVE WildcardOrder'
    BY DEF WildcardOrder
  <2>1. AwaitsStop' => AwaitsStop
    BY <1>1, <1>2 DEF AwaitsStop, Joined
  <2>2. IsStop(Head(fwd)) /\ ~Stranded => ~AwaitsStop
    <3> SUFFICES ASSUME IsStop(Head(fwd)), ~Stranded, AwaitsStop PROVE FALSE
      OBVIOUS
    <3>1. StartOnLink
      BY DEF AwaitsStop, AwaitsStart, Stranded
    <3>2. Stage(Head(fwd)) = 3 /\ Head(fwd).seq = HeaderSeq /\ Head(fwd).type # "PLAIN"
      BY DEF IsStop, Stage
    <3> QED
      BY <1>0, <3>1, <3>2, StartIsFirst
  <2> QED
    BY <1>0, <1>1, <1>2, <1>stranded, <2>1, <2>2, OrderTaken
<1> QED
  BY <1>3, <1>4, <1>5, <1>6, <1>7, <1>8, <1>9, <1>10 DEF EInv

(***************************************************************************)
(* A START is of the sender's session and finds the receiver in IDLE, or   *)
(* in that session with nothing counted: the acknowledgement of the last   *)
(* counter has come before it.                                             *)
(***************************************************************************)
LEMMA StartFinds ==
    ASSUME EInv, HeadIs(fwd, "START")
    PROVE  /\ Head(fwd).seq = HeaderSeq
           /\ \/ rState = "IDLE"
              \/ rState = "COUNTING" /\ rSEQ = HeaderSeq /\ rCounter = 0
           /\ Kind = "tree" => Head(fwd).val = sMax[1]
           /\ sState # "IDLE" /\ fwd # <<>>
<1>0. TypeOK /\ SenderPhase /\ ReceiverPhase /\ AckComing /\ FwdFacts /\ FwdOrder
  BY DEF EInv
<1>1. fwd # <<>> /\ Head(fwd).type = "START"
  BY DEF HeadIs
<1>2. PICK h \in Message : h = Head(fwd) /\ FwdMsg(h)
  BY <1>0, <1>1, HeadOfFwd
<1>3. h.type = "START" /\ h.seq = HeaderSeq /\ Stage(h) = 1
  BY <1>1, <1>2 DEF FwdMsg, SessionMsg, Stage
<1>4. Kind = "tree" => h.val = sMax[1]
  BY <1>2, <1>3 DEF FwdMsg, SessionMsg
<1>5. sState # "IDLE"
  BY <1>2, <1>3 DEF FwdMsg, SessionMsg, SenderStage
<1>6. CASE rSEQ = HeaderSeq
  <2>1. ReceiverStage <= 1
    BY <1>2, <1>3, <1>6 DEF FwdMsg, SessionMsg
  <2>2. rState \in {"IDLE", "COUNTING"} /\ (rState = "COUNTING" => ~(rCounter > 0))
    BY <1>0, <2>1 DEF ReceiverStage, TypeOK
  <2>3. rCounter \in Nat
    BY <1>0, Facts
  <2> QED
    BY <1>1, <1>2, <1>3, <1>4, <1>5, <1>6, <2>2, <2>3
<1>7. CASE rSEQ # HeaderSeq
  <2>1. rState # "COUNTER_ACK"
    <3> SUFFICES ASSUME rState = "COUNTER_ACK" PROVE FALSE
      OBVIOUS
    <3>1. PICK i \in 1 .. Len(fwd) : fwd[i].type = "CACK"
      BY <1>0, <1>7 DEF AckComing
    <3>2. h = fwd[1] /\ Len(fwd) \in Nat /\ 1 \in 1 .. Len(fwd)
      BY <1>0, <1>1, <1>2, Facts, TailOfChannel
    <3>3. i # 1
      BY <1>3, <3>1, <3>2
    <3>4. 1 < i
      BY <3>2, <3>3
    <3>5. FwdPair(h, fwd[i])
      BY <1>0, <3>2, <3>4 DEF FwdOrder
    <3>6. fwd[i].seq = HeaderSeq
      BY <1>3, <3>1, <3>5 DEF FwdPair
    <3>7. fwd[i].seq # HeaderSeq
      BY <1>0, <3>1 DEF FwdFacts, FwdMsg, SessionMsg
    <3> QED
      BY <3>6, <3>7
  <2> QED
    BY <1>0, <1>1, <1>2, <1>3, <1>4, <1>5, <1>7, <2>1 DEF ReceiverPhase, Joined
<1> QED
  BY <1>6, <1>7

LEMMA RecvStartExact ==
    ASSUME EInv, RecvStart, TypeOK' PROVE EInv'
<1>0. TypeOK /\ SenderPhase /\ ReceiverPhase /\ AckComing /\ FwdFacts /\ FwdOrder
      /\ BwdFacts /\ BwdOrder /\ AllCounted /\ WildcardOrder
  BY DEF EInv
<1>a. HeadIs(fwd, "START")
  BY DEF RecvStart
<1>1. /\ Head(fwd).seq = HeaderSeq /\ fwd # <<>> /\ Head(fwd).type = "START"
      /\ \/ rState = "IDLE"
         \/ rState = "COUNTING" /\ rSEQ = HeaderSeq /\ rCounter = 0
      /\ Kind = "tree" => Head(fwd).val = sMax[1]
      /\ sState # "IDLE"
  BY <1>a, StartFinds DEF HeadIs
<1>2. /\ rState' = "COUNTING" /\ rSEQ' = HeaderSeq /\ rCounter' = 0 /\ fwd' = Tail(fwd)
      /\ bwd' = Append(bwd, Msg("SACK", HeaderSeq, 0))
      /\ rMax' = IF Kind = "tree" /\ rState # "COUNTING" THEN Shift(rMax, Head(fwd).val) ELSE rMax
      /\ UNCHANGED <<sState, sSEQ, sCounter, sEvent, sMax, rEvent, rOrphans,
                     flagged, lost, everLost>>
  BY <1>1 DEF RecvStart, StartAccepted, AdoptSession, ResetCounter, ShiftsHistory,
              senderVars, verdictVars, historyVars
<1>3. HeaderSeq' = HeaderSeq /\ SenderStage' = SenderStage /\ ReceiverStage' = 1
  BY <1>2 DEF HeaderSeq, SenderStage, ReceiverStage
<1>4. Counted = 0 /\ Counted' = 0 /\ rSEQ' = HeaderSeq'
  BY <1>0, <1>1, <1>2, <1>3 DEF Counted, ReceiverPhase, Joined
<1>5. SenderPhase' /\ ReceiverPhase'
  BY <1>0, <1>1, <1>2, <1>3 DEF SenderPhase, Joined, ReceiverPhase
<1>6. EventPhase' /\ Verdict'
  BY <1>1, <1>2 DEF EInv, EventPhase, Verdict
<1>7. Histories'
  BY <1>1, <1>2, <1>3 DEF EInv, Histories
<1>8. AckComing'
  BY <1>2 DEF AckComing
<1>9. FwdFacts' /\ FwdOrder'
  <2>1. ASSUME NEW m \in Message, FwdMsg(m), FwdPair(Head(fwd), m)
        PROVE  FwdMsg(m)'
    <3>1. (m.type # "PLAIN" => m.seq = HeaderSeq) /\ Stage(m) \in 1 .. 4
      BY <1>0, <1>1, <2>1, Facts DEF FwdPair
    <3> QED
      BY <1>2, <1>3, <1>4, <2>1, <3>1 DEF FwdMsg, SessionMsg, Stage
  <2> QED
    BY <1>0, <1>1, <1>2, <1>3, <2>1, FwdTaken
<1>10. BwdFacts' /\ BwdOrder'
  <2>1. Msg("SACK", HeaderSeq, 0) \in Message
    BY <1>0, Facts DEF Msg, Message, MessageTypes
  <2>2. PICK x \in Message : bwd' = Append(bwd, x) /\ x.type = "SACK" /\ x.seq = HeaderSeq
    BY <1>2, <2>1 DEF Msg
  <2>3. BwdMsg(x)'
    BY <1>1, <1>2, <1>3, <2>2 DEF BwdMsg
  <2>4. ASSUME NEW m \in Message, BwdMsg(m)
        PROVE  BwdMsg(m)' /\ BwdPair(m, x)
    BY <1>1, <1>2, <1>3, <2>2, <2>4 DEF BwdMsg, BwdPair
  <2> QED
    BY <1>0, <1>3, <2>2, <2>3, <2>4, BwdSent
<1>stranded. ~Stranded
  <2>1. Head(fwd) = fwd[1] /\ 1 \in 1 .. Len(fwd)
    BY <1>0, <1>1, Facts, TailOfChannel
  <2> QED
    BY <1>1, <2>1 DEF Stranded, StartOnLink
<1>11. AllCounted'
  <2>1. ASSUME NEW k \in Nat, OnLink(k)
        PROVE  OnLink(k)'
    BY <1>0, <1>1, <1>2, <2>1, OnLinkKept
  <2> QED
    BY <1>0, <1>2, <1>4, <1>stranded, <2>1 DEF AllCounted
<1>12. WildcardOrder'
  <2>2. AwaitsStop' => AwaitsStop
    BY <1>1, <1>2 DEF AwaitsStop, Joined
  <2>3. ~IsStop(Head(fwd))
    BY <1>1 DEF IsStop
  <2> QED
    BY <1>0, <1>1, <1>2, <1>3, <1>stranded, <2>2, <2>3, OrderTaken
<1> QED
  BY <1>5, <1>6, <1>7, <1>8, <1>9, <1>10, <1>11, <1>12 DEF EInv

(* A STOP that is taken comes after every packet of the session. *)
LEMMA RecvStopExact ==
    ASSUME EInv, RecvStop, TypeOK' PROVE EInv'
<1>0. TypeOK /\ SenderPhase /\ ReceiverPhase /\ AckComing /\ FwdFacts /\ FwdOrder
      /\ BwdFacts /\ BwdOrder /\ AllCounted /\ WildcardOrder
  BY DEF EInv
<1>1. fwd # <<>> /\ Head(fwd).type = "STOP" /\ fwd' = Tail(fwd)
  BY DEF RecvStop, HeadIs
<1>a. CASE ~StopAccepted
  <2>1. UNCHANGED <<senderVars, receiverVars, bwd, flagged, lost, everLost>>
    BY <1>a DEF RecvStop, receiverVars, verdictVars, historyVars
  <2> QED
    BY <1>0, <1>1, <1>a, <2>1, IgnoredExact DEF ReceiverPhase, StopAccepted, IsStop
<1>b. CASE StopAccepted
  <2>1. /\ rState = "COUNTING" /\ rSEQ = Head(fwd).seq /\ rState' = "WAIT_COUNTER_SEND"
        /\ UNCHANGED <<sState, sSEQ, sCounter, sEvent, sMax, rSEQ, rCounter, rMax, bwd,
                       flagged, lost, everLost>>
    BY <1>b DEF RecvStop, StopAccepted, senderVars, verdictVars, historyVars
  <2>2. rSEQ = HeaderSeq
    BY <1>0, <2>1 DEF ReceiverPhase, Joined
  <2>3. HeaderSeq' = HeaderSeq /\ Counted' = Counted /\ SenderStage' = SenderStage
        /\ ReceiverStage' = 3
    BY <2>1 DEF HeaderSeq, Counted, SenderStage, ReceiverStage
  <2>4. PICK h \in Message : h = Head(fwd) /\ FwdMsg(h)
    BY <1>0, <1>1, HeadOfFwd
  <2>5. h.type = "STOP" /\ h.seq = HeaderSeq /\ Stage(h) = 3
    BY <1>1, <2>1, <2>2, <2>4 DEF Stage
  <2>6. 3 <= SenderStage
    BY <2>4, <2>5 DEF FwdMsg, SessionMsg
  <2>7. sState = "WAIT_COUNTER_RECEIVE"
    BY <1>0, <2>6 DEF SenderStage, TypeOK
  <2>8. SenderPhase' /\ ReceiverPhase'
    BY <1>0, <2>1, <2>3, <2>7 DEF SenderPhase, Joined, ReceiverPhase
  <2>9. EventPhase'
    <3>1. ~rEvent
      BY <2>1 DEF EInv, EventPhase
    <3> QED
      BY <1>b, <2>1, <3>1 DEF EInv, EventPhase, RecvStop, ScheduleCounter
  <2>10. Verdict'
    BY <2>1 DEF EInv, Verdict
  <2>11. Histories'
    BY <2>1, <2>2, <2>3 DEF EInv, Histories
  <2>12. AckComing'
    BY <2>1 DEF AckComing
  <2>13. FwdFacts' /\ FwdOrder'
    <3>1. ASSUME NEW m \in Message, FwdMsg(m), FwdPair(Head(fwd), m)
          PROVE  FwdMsg(m)'
      <4>1. m.type # "PLAIN" => 3 <= Stage(m)
        BY <2>4, <2>5, <3>1 DEF FwdPair
      <4> QED
        BY <2>1, <2>3, <3>1, <4>1 DEF FwdMsg, SessionMsg, Stage
    <3> QED
      BY <1>0, <1>1, <2>3, <3>1, FwdTaken
  <2>14. BwdFacts' /\ BwdOrder'
    <3>1. ASSUME NEW m \in Message, BwdMsg(m)
          PROVE  BwdMsg(m)'
      BY <2>1, <2>3, <3>1 DEF BwdMsg
    <3> QED
      BY <1>0, <2>1, <2>3, <3>1, BwdKept
  <2>stranded. ~Stranded
    BY <2>1, <2>2 DEF Stranded, AwaitsStart, Joined
  <2>15. AllCounted'
    <3>1. ASSUME NEW k \in Nat, OnLink(k)
          PROVE  OnLink(k)'
      BY <1>0, <1>1, <3>1, OnLinkKept
    <3> QED
      BY <1>0, <2>1, <2>3, <2>stranded, <3>1 DEF AllCounted
  <2>16. WildcardOrder'
    <3>1. ~AwaitsStop'
      BY <2>1, <2>2, <2>3 DEF AwaitsStop, Joined
    <3> QED
      BY <1>0, <1>1, <2>1, <2>3, <2>stranded, <3>1, OrderTaken
  <2> QED
    BY <2>8, <2>9, <2>10, <2>11, <2>12, <2>13, <2>14, <2>15, <2>16 DEF EInv
<1> QED
  BY <1>a, <1>b

(* The acknowledgement of the counter ends the receiver's session. *)
LEMMA RecvCounterAckExact ==
    ASSUME EInv, RecvCounterAck, TypeOK' PROVE EInv'
<1>0. TypeOK /\ SenderPhase /\ ReceiverPhase /\ AckComing /\ FwdFacts /\ FwdOrder
      /\ BwdFacts /\ BwdOrder /\ AllCounted /\ WildcardOrder
  BY DEF EInv
<1>1. fwd # <<>> /\ Head(fwd).type = "CACK" /\ fwd' = Tail(fwd)
  BY DEF RecvCounterAck, HeadIs
<1>2. PICK h \in Message : h = Head(fwd) /\ FwdMsg(h)
  BY <1>0, <1>1, HeadOfFwd
<1>3. Head(fwd).seq = rSEQ /\ rSEQ # HeaderSeq
  BY <1>1, <1>2 DEF FwdMsg, SessionMsg
<1>a. CASE ~CounterAckAccepted
  <2>1. UNCHANGED <<senderVars, receiverVars, bwd, flagged, lost, everLost>>
    BY <1>a DEF RecvCounterAck, receiverVars, verdictVars, historyVars
  <2>2. rState # "COUNTER_ACK"
    BY <1>3, <1>a DEF CounterAckAccepted
  <2> QED
    BY <1>1, <2>1, <2>2, IgnoredExact DEF IsStop
<1>b. CASE CounterAckAccepted
  <2>1. /\ rState' = "IDLE"
        /\ UNCHANGED <<sState, sSEQ, sCounter, sEvent, sMax, rSEQ, rCounter, rOrphans, rMax, bwd,
                       flagged, lost, everLost>>
    BY <1>b DEF RecvCounterAck, senderVars, verdictVars, historyVars
  <2>2. HeaderSeq' = HeaderSeq /\ Counted' = Counted /\ SenderStage' = SenderStage
    BY <2>1 DEF HeaderSeq, Counted, SenderStage
  <2>3. SenderPhase' /\ ReceiverPhase'
    BY <1>0, <1>3, <2>1, <2>2 DEF SenderPhase, Joined, ReceiverPhase
  <2>4. EventPhase'
    BY <1>b, <2>1 DEF EInv, EventPhase, RecvCounterAck, CancelCounter
  <2>5. Verdict'
    BY <2>1 DEF EInv, Verdict
  <2>6. Histories'
    BY <1>3, <2>1, <2>2 DEF EInv, Histories, Shift
  <2>7. AckComing'
    BY <2>1 DEF AckComing
  <2>8. FwdFacts' /\ FwdOrder'
    <3>1. ASSUME NEW m \in Message, FwdMsg(m)
          PROVE  FwdMsg(m)'
      BY <1>3, <2>1, <2>2, <3>1 DEF FwdMsg, SessionMsg, Stage
    <3> QED
      BY <1>0, <1>1, <2>2, <3>1, FwdTaken
  <2>9. BwdFacts' /\ BwdOrder'
    <3>1. ASSUME NEW m \in Message, BwdMsg(m)
          PROVE  BwdMsg(m)'
      BY <1>3, <2>1, <2>2, <3>1 DEF BwdMsg
    <3> QED
      BY <1>0, <2>1, <2>2, <3>1, BwdKept
  <2>stranded. Stranded => Stranded'
    <3>1. AwaitsStart => AwaitsStart'
      BY <1>3, <2>1, <2>2 DEF AwaitsStart, Joined
    <3> QED
      BY <1>0, <1>1, <3>1, StrandedKept
  <2>10. AllCounted'
    <3>1. ASSUME NEW k \in Nat, OnLink(k)
          PROVE  OnLink(k)'
      BY <1>0, <1>1, <3>1, OnLinkKept
    <3> QED
      BY <1>0, <2>1, <2>2, <2>stranded, <3>1 DEF AllCounted
  <2>11. WildcardOrder'
    <3>1. AwaitsStop' => AwaitsStop
      BY <1>3, <2>1, <2>2 DEF AwaitsStop, Joined
    <3>2. ~IsStop(Head(fwd))
      BY <1>1 DEF IsStop
    <3> QED
      BY <1>0, <1>1, <2>1, <2>2, <2>stranded, <3>1, <3>2, OrderTaken
  <2> QED
    BY <2>3, <2>4, <2>5, <2>6, <2>7, <2>8, <2>9, <2>10, <2>11 DEF EInv
<1> QED
  BY <1>a, <1>b

(***************************************************************************)
(* The packet at the head of the link is the next one that is neither      *)
(* counted nor lost, and the receiver would count it, unless the START was *)
(* lost.                                                                   *)
(***************************************************************************)
LEMMA NextPacket ==
    ASSUME EInv, HeadIs(fwd, "DATA")
    PROVE  /\ Head(fwd).seq = HeaderSeq /\ Head(fwd).val \in Nat
           /\ Counted + lost < Head(fwd).val /\ Head(fwd).val <= sCounter
           /\ sState \in {"COUNTING", "WAIT_COUNTER_RECEIVE"}
           /\ ~Stranded => /\ rSEQ = HeaderSeq /\ rState = "COUNTING" /\ Counted = rCounter
                           /\ Head(fwd).val = Counted + lost + 1
<1>0. TypeOK /\ SenderPhase /\ ReceiverPhase /\ FwdFacts /\ FwdOrder /\ AllCounted
  BY DEF EInv
<1>1. fwd # <<>> /\ Head(fwd).type = "DATA"
  BY DEF HeadIs
<1>2. PICK h \in Message : h = Head(fwd) /\ FwdMsg(h)
  BY <1>0, <1>1, HeadOfFwd
<1>3. h.type = "DATA" /\ h.seq = HeaderSeq /\ Stage(h) = 2
  BY <1>1, <1>2 DEF FwdMsg, SessionMsg, Stage
<1>4. 2 <= SenderStage
  BY <1>2, <1>3 DEF FwdMsg, SessionMsg
<1>5. sState \in {"COUNTING", "WAIT_COUNTER_RECEIVE"}
  BY <1>0, <1>4 DEF SenderStage, TypeOK
<1>6. Counted + lost < h.val /\ h.val <= sCounter
  BY <1>2, <1>3 DEF FwdMsg, SessionMsg
<1>7. Counted \in Nat /\ lost \in Nat /\ h.val \in Nat /\ sCounter \in Nat
  BY <1>0, Facts
<1>8. ASSUME ~Stranded PROVE rSEQ = HeaderSeq /\ rState = "COUNTING"
  <2>1. Kind # "wildcard" => Joined
    BY <1>0, <1>5 DEF SenderPhase
  <2>2. ~StartOnLink
    BY <1>0, <1>1, <1>2, <1>3, StartIsFirst
  <2>3. Kind = "wildcard" => Joined
    BY <1>5, <1>8, <2>2 DEF Stranded, AwaitsStart
  <2>4. rSEQ = HeaderSeq /\ rState # "IDLE"
    BY <2>1, <2>3 DEF Joined
  <2>5. ReceiverStage <= 2
    BY <1>2, <1>3, <2>4 DEF FwdMsg, SessionMsg
  <2> QED
    BY <1>0, <2>4, <2>5 DEF ReceiverStage, TypeOK
<1>9. ASSUME ~Stranded PROVE h.val = Counted + lost + 1
  <2> DEFINE k == Counted + lost + 1
  <2>1. k \in Nat /\ Counted + lost < k /\ k <= sCounter
    BY <1>6, <1>7
  <2>2. OnLink(k)
    BY <1>0, <1>9, <2>1 DEF AllCounted
  <2>3. PICK i \in 1 .. Len(fwd) : fwd[i].type = "DATA" /\ fwd[i].val = k
    BY <2>2 DEF OnLink
  <2>4. h = fwd[1] /\ Len(fwd) \in Nat /\ 1 \in 1 .. Len(fwd)
    BY <1>0, <1>1, <1>2, Facts, TailOfChannel
  <2>5. CASE i = 1
    BY <1>6, <1>7, <2>1, <2>3, <2>4, <2>5
  <2>6. CASE i # 1
    <3>1. 1 < i
      BY <2>4, <2>6
    <3>2. FwdPair(h, fwd[i])
      BY <1>0, <2>4, <3>1 DEF FwdOrder
    <3>3. h.val < k
      BY <1>3, <2>3, <3>2 DEF FwdPair
    <3> QED
      BY <1>6, <1>7, <2>1, <3>3
  <2> QED
    BY <2>5, <2>6
<1> QED
  BY <1>2, <1>3, <1>5, <1>6, <1>7, <1>8, <1>9 DEF Counted

(* It is counted, or lost. *)
LEMMA PacketExact ==
    ASSUME EInv, TypeOK', HeadIs(fwd, "DATA"), fwd' = Tail(fwd),
           \/ rCounter' = rCounter + 1 /\ UNCHANGED <<lost, everLost>> /\ ~Stranded
           \/ lost' = lost + 1 /\ everLost' = TRUE /\ UNCHANGED rCounter,
           UNCHANGED <<senderVars, rState, rSEQ, rEvent, rOrphans, rMax, bwd, flagged>>
    PROVE  EInv'
<1>0. TypeOK /\ SenderPhase /\ ReceiverPhase /\ AckComing /\ FwdFacts /\ FwdOrder
      /\ BwdFacts /\ BwdOrder /\ AllCounted /\ WildcardOrder
  BY DEF EInv
<1>1. UNCHANGED <<sState, sSEQ, sCounter, sEvent, sMax, rState, rSEQ, rEvent, rOrphans,
                  rMax, bwd, flagged>> /\ fwd # <<>> /\ Head(fwd).type = "DATA"
  BY DEF senderVars, HeadIs
<1>2. /\ Head(fwd).seq = HeaderSeq /\ Head(fwd).val \in Nat
      /\ Counted + lost < Head(fwd).val /\ Head(fwd).val <= sCounter
      /\ sState \in {"COUNTING", "WAIT_COUNTER_RECEIVE"}
      /\ ~Stranded => /\ rSEQ = HeaderSeq /\ rState = "COUNTING" /\ Counted = rCounter
                      /\ Head(fwd).val = Counted + lost + 1
      /\ Stranded => ~Joined
  BY NextPacket DEF Stranded, AwaitsStart
<1>3. HeaderSeq' = HeaderSeq /\ SenderStage' = SenderStage
  BY <1>1 DEF HeaderSeq, SenderStage
<1>4. Counted \in Nat /\ lost \in Nat /\ sCounter \in Nat /\ rCounter \in Nat
  BY <1>0, Facts
<1>5. Counted' + lost' = Counted + lost + 1 /\ Counted' + lost' <= Head(fwd).val
  BY <1>1, <1>2, <1>3, <1>4 DEF Counted
<1>6. rSEQ = HeaderSeq => rState \in {"IDLE", "COUNTING"} /\ ReceiverStage' <= 2
  BY <1>1, <1>2 DEF ReceiverStage, Joined
<1>7. SenderPhase' /\ ReceiverPhase'
  BY <1>0, <1>1, <1>2, <1>3 DEF SenderPhase, Joined, ReceiverPhase
<1>8. EventPhase'
  BY <1>1 DEF EInv, EventPhase
<1>9. Verdict'
  BY <1>1, <1>4 DEF EInv, Verdict
<1>10. Histories'
  BY <1>1, <1>3 DEF EInv, Histories, Shift
<1>11. AckComing'
  BY <1>0, <1>1, <1>3, AckComingKept
<1>12. FwdFacts' /\ FwdOrder'
  <2>1. ASSUME NEW m \in Message, FwdMsg(m), FwdPair(Head(fwd), m)
        PROVE  FwdMsg(m)'
    <3>1. Stage(Head(fwd)) = 2
      BY <1>1 DEF Stage
    <3>2. (m.type # "PLAIN" => m.seq = HeaderSeq) /\ 2 <= Stage(m) /\ Stage(m) \in 1 .. 4
      BY <1>0, <1>1, <1>2, <2>1, <3>1, Facts DEF FwdPair, Stage
    <3>3. m.type = "DATA" => Counted' + lost' < m.val
      BY <1>0, <1>1, <1>2, <1>4, <1>5, <2>1, Facts DEF FwdPair
    <3>4. rSEQ = HeaderSeq => ReceiverStage' <= Stage(m)
      BY <1>6, <3>2 DEF ReceiverStage
    <3> QED
      BY <1>1, <1>3, <2>1, <3>2, <3>3, <3>4 DEF FwdMsg, SessionMsg, Stage
  <2> QED
    BY <1>0, <1>1, <1>3, <2>1, FwdTaken
<1>13. BwdFacts' /\ BwdOrder'
  <2>1. ASSUME NEW m \in Message, BwdMsg(m)
        PROVE  BwdMsg(m)'
    BY <1>1, <1>2, <1>3, <1>6, <2>1 DEF BwdMsg, Joined
  <2> QED
    BY <1>0, <1>1, <1>3, <2>1, BwdKept
<1>stranded. Stranded => Stranded'
  <2>1. AwaitsStart => AwaitsStart'
    BY <1>1, <1>3 DEF AwaitsStart, Joined
  <2> QED
    BY <1>0, <1>1, <2>1, StrandedKept
<1>14. AllCounted'
  <2>1. ASSUME NEW k \in Nat, OnLink(k), k # Head(fwd).val
        PROVE  OnLink(k)'
    BY <1>0, <1>1, <2>1, OnLinkKept
  <2>2. ASSUME ~Stranded, NEW k \in Nat, Counted' + lost' < k, k <= sCounter
        PROVE  OnLink(k)'
    <3>1. Counted + lost < k /\ k # Head(fwd).val
      BY <1>2, <1>4, <1>5, <2>2
    <3> QED
      BY <1>0, <2>1, <2>2, <3>1 DEF AllCounted
  <2> QED
    BY <1>1, <1>2, <1>4, <1>5, <1>stranded, <2>2 DEF AllCounted
<1>15. WildcardOrder'
  <2>1. AwaitsStop' => AwaitsStop
    BY <1>1, <1>3 DEF AwaitsStop, Joined
  <2>2. ~IsStop(Head(fwd))
    BY <1>1 DEF IsStop
  <2> QED
    BY <1>0, <1>1, <1>3, <1>stranded, <2>1, <2>2, OrderTaken
<1> QED
  BY <1>7, <1>8, <1>9, <1>10, <1>11, <1>12, <1>13, <1>14, <1>15 DEF EInv

LEMMA RecvPacketExact ==
    ASSUME EInv, RecvPacket, TypeOK' PROVE EInv'
<1>0. TypeOK /\ FwdFacts /\ WildcardOrder
  BY DEF EInv
<1>1. fwd # <<>> /\ Head(fwd).type \in {"DATA", "PLAIN"} /\ fwd' = Tail(fwd)
  BY DEF RecvPacket, HeadIs
<1>2. UNCHANGED <<senderVars, rState, rSEQ, rEvent, rOrphans, rMax, bwd, flagged, lost, everLost>>
  BY DEF RecvPacket, verdictVars, historyVars
<1>3. CASE Head(fwd).type = "DATA"
  <2>1. HeadIs(fwd, "DATA")
    BY <1>1, <1>3 DEF HeadIs
  <2>2. CASE ~Stranded
    <3>1. Head(fwd).seq = HeaderSeq /\ rSEQ = HeaderSeq /\ rState = "COUNTING"
      BY <2>1, <2>2, NextPacket
    <3>2. rCounter' = rCounter + 1
      BY <3>1 DEF RecvPacket, Counts
    <3> QED
      BY <1>1, <1>2, <2>1, <2>2, <3>2, PacketExact
  <2>3. CASE Stranded
    <3>1. rState # "COUNTING"
      BY <2>3 DEF Stranded, AwaitsStart, Joined, EInv, ReceiverPhase
    <3>2. UNCHANGED rCounter
      BY <3>1 DEF RecvPacket, Counts
    <3> QED
      BY <1>1, <1>2, <1>3, <2>3, <3>1, <3>2, IgnoredExact DEF receiverVars
  <2> QED
    BY <2>2, <2>3
<1>4. CASE Head(fwd).type = "PLAIN"
  <2>1. Kind = "wildcard"
    BY <1>0, <1>1, <1>4, HeadOfFwd DEF FwdMsg, SessionMsg
  <2>2. Head(fwd) = fwd[1] /\ 1 \in 1 .. Len(fwd)
    BY <1>0, <1>1, Facts, TailOfChannel
  <2>3. Outside(1)
    BY <1>0, <1>4, <2>1, <2>2 DEF WildcardOrder
  <2>4. rState # "COUNTING"
    BY <2>3 DEF Outside
  <2>5. UNCHANGED rCounter
    BY <2>4 DEF RecvPacket, Counts
  <2> QED
    BY <1>1, <1>2, <1>4, <2>4, <2>5, IgnoredExact DEF receiverVars
<1> QED
  BY <1>1, <1>3, <1>4

LEMMA LoseForwardExact ==
    ASSUME SignalsArrive, EInv, LoseForward, TypeOK' PROVE EInv'
<1>1. /\ fwd # <<>> /\ Head(fwd).type # "CACK" /\ fwd' = Tail(fwd)
      /\ UNCHANGED <<senderVars, receiverVars, bwd, flagged>>
      /\ Kind = "wildcard" => Head(fwd).type # "STOP"
  BY DEF LoseForward, verdictVars, SignalsArrive
<1>2. CASE HeadIs(fwd, "DATA")
  <2>1. Head(fwd).seq = HeaderSeq
    BY <1>2, NextPacket
  <2>2. lost' = lost + 1 /\ everLost' = TRUE
    BY <1>2, <2>1 DEF LoseForward
  <2> QED
    BY <1>1, <1>2, <2>2, PacketExact DEF receiverVars
<1>3. CASE ~HeadIs(fwd, "DATA")
  <2>1. UNCHANGED <<lost, everLost>> /\ Head(fwd).type # "DATA"
    BY <1>1, <1>3 DEF LoseForward, historyVars, HeadIs
  <2> QED
    BY <1>1, <2>1, IgnoredExact DEF IsStop
<1> QED
  BY <1>2, <1>3

-----------------------------------------------------------------------------
(* The receiver's counter: every packet is counted or lost by then. *)

LEMMA CounterFinal ==
    ASSUME EInv, rState \in {"WAIT_COUNTER_SEND", "COUNTER_ACK"}, rSEQ = HeaderSeq
    PROVE  rCounter + lost = sCounter
<1>0. TypeOK /\ AllCounted /\ FwdFacts
  BY DEF EInv
<1>1. rCounter \in Nat /\ lost \in Nat /\ sCounter \in Nat /\ Counted = rCounter /\ ~Stranded
  BY <1>0, Facts DEF Counted, Stranded, AwaitsStart, Joined
<1>2. rCounter + lost <= sCounter
  BY <1>0, <1>1 DEF AllCounted
<1>3. ASSUME rCounter + lost < sCounter PROVE FALSE
  <2>1. OnLink(sCounter)
    BY <1>0, <1>1, <1>3 DEF AllCounted
  <2>2. PICK i \in 1 .. Len(fwd) : fwd[i].type = "DATA"
    BY <2>1 DEF OnLink
  <2>3. FwdMsg(fwd[i])
    BY <1>0 DEF FwdFacts
  <2>4. ReceiverStage <= 2
    BY <2>2, <2>3 DEF FwdMsg, SessionMsg, Stage
  <2> QED
    BY <2>4 DEF ReceiverStage
<1> QED
  BY <1>1, <1>2, <1>3

LEMMA SendGreyCounterExact ==
    ASSUME EInv, SendGreyCounter, TypeOK' PROVE EInv'
<1>0. TypeOK /\ SenderPhase /\ ReceiverPhase /\ AckComing /\ FwdFacts /\ FwdOrder
      /\ BwdFacts /\ BwdOrder /\ AllCounted /\ WildcardOrder
  BY DEF EInv
<1>1. /\ rState' = "COUNTER_ACK" /\ bwd' = Append(bwd, Msg("COUNTER", rSEQ, rCounter))
      /\ UNCHANGED <<sState, sSEQ, sCounter, sEvent, sMax, rSEQ, rCounter, rMax, fwd,
                     flagged, lost, everLost>>
  BY DEF SendGreyCounter, senderVars, verdictVars, historyVars
<1>2. rOrphans = 0
  BY DEF EInv, EventPhase
<1>3. rEvent /\ rEvent' /\ rOrphans' = 0
  BY <1>2 DEF SendGreyCounter, OrphanPending
<1>4. rState \in {"WAIT_COUNTER_SEND", "COUNTER_ACK"}
  BY <1>3 DEF EInv, EventPhase
<1>5. HeaderSeq' = HeaderSeq /\ Counted' = Counted /\ SenderStage' = SenderStage
      /\ ReceiverStage' = ReceiverStage
  BY <1>1, <1>4 DEF HeaderSeq, Counted, SenderStage, ReceiverStage
<1>6. SenderPhase' /\ ReceiverPhase'
  BY <1>0, <1>1, <1>4, <1>5 DEF SenderPhase, Joined, ReceiverPhase
<1>7. EventPhase'
  BY <1>1, <1>3 DEF EventPhase
<1>8. Verdict'
  BY <1>1 DEF EInv, Verdict
<1>9. Histories'
  BY <1>1, <1>4, <1>5 DEF EInv, Histories, Shift
<1>10. AckComing'
  BY <1>0, <1>1, <1>4, <1>5 DEF AckComing, ReceiverPhase, Joined
<1>11. FwdFacts' /\ FwdOrder'
  <2>1. ASSUME NEW m \in Message, FwdMsg(m)
        PROVE  FwdMsg(m)'
    BY <1>1, <1>5, <2>1 DEF FwdMsg, SessionMsg, Stage
  <2> QED
    BY <1>0, <1>1, <1>5, <2>1, FwdKept
<1>12. BwdFacts' /\ BwdOrder'
  <2>1. Msg("COUNTER", rSEQ, rCounter) \in Message
    BY <1>0 DEF Msg, Message, MessageTypes, TypeOK
  <2>2. PICK x \in Message : /\ bwd' = Append(bwd, x) /\ x.type = "COUNTER" /\ x.seq = rSEQ
                             /\ x.val = rCounter
    BY <1>1, <2>1 DEF Msg
  <2>3. rSEQ = HeaderSeq => rCounter + lost = sCounter /\ sState # "IDLE"
    BY <1>0, <1>4, CounterFinal DEF ReceiverPhase, Joined
  <2>4. BwdMsg(x)'
    BY <1>1, <1>5, <2>2, <2>3 DEF BwdMsg
  <2>5. ASSUME NEW m \in Message, BwdMsg(m)
        PROVE  BwdMsg(m)' /\ BwdPair(m, x)
    BY <1>1, <1>4, <1>5, <2>2, <2>5 DEF BwdMsg, BwdPair
  <2> QED
    BY <1>0, <1>5, <2>2, <2>4, <2>5, BwdSent
<1>stranded. Stranded => Stranded'
  <2>1. AwaitsStart => AwaitsStart'
    BY <1>1, <1>4, <1>5 DEF AwaitsStart, Joined
  <2> QED
    BY <1>0, <1>1, <2>1, StrandedKept
<1>13. AllCounted'
  BY <1>0, <1>1, <1>5, <1>stranded DEF AllCounted, OnLink
<1>14. WildcardOrder'
  <2>1. AwaitsStop' => AwaitsStop
    BY <1>1, <1>4, <1>5 DEF AwaitsStop, Joined
  <2> QED
    BY <1>0, <1>1, <1>5, <1>stranded, <2>1, OrderKept
<1> QED
  BY <1>6, <1>7, <1>8, <1>9, <1>10, <1>11, <1>12, <1>13, <1>14 DEF EInv

-----------------------------------------------------------------------------
(* A message leaves the link to the sender. *)

LEMMA HeadOfBwd ==
    ASSUME TypeOK, BwdFacts, bwd # <<>>
    PROVE  \E h \in Message : h = Head(bwd) /\ BwdMsg(h)
<1>1. bwd \in Seq(Message)
  BY DEF TypeOK
<1>2. Head(bwd) = bwd[1] /\ Head(bwd) \in Message /\ 1 \in 1 .. Len(bwd)
  BY <1>1, TailOfChannel
<1> QED
  BY <1>2 DEF BwdFacts

(* Below the width of the field the session number is the header's. *)
LEMMA SessionFits ==
    ASSUME TypeOK, NEW m \in Message, sSEQ = m.seq
    PROVE  HeaderSeq = sSEQ /\ sSEQ < SeqMod
<1>1. sSEQ \in 0 .. SeqMod - 1 /\ SeqMod \in Nat
  BY MessageFields, ConstantsAssumption
<1>2. sSEQ \in Nat /\ sSEQ < SeqMod
  BY <1>1
<1> QED
  BY <1>2, HeaderSeqExact

LEMMA IgnoredBackExact ==
    ASSUME EInv, TypeOK', bwd # <<>>, bwd' = Tail(bwd),
           UNCHANGED <<senderVars, receiverVars, fwd, flagged, lost, everLost>>
    PROVE  EInv'
<1>0. TypeOK /\ SenderPhase /\ ReceiverPhase /\ AckComing /\ FwdFacts /\ FwdOrder
      /\ BwdFacts /\ BwdOrder /\ AllCounted /\ WildcardOrder
  BY DEF EInv
<1>1. UNCHANGED <<sState, sSEQ, sCounter, sEvent, sMax, rState, rSEQ, rCounter, rEvent,
                  rOrphans, rMax, fwd, flagged, lost, everLost>>
  BY DEF senderVars, receiverVars
<1>2. HeaderSeq' = HeaderSeq /\ Counted' = Counted /\ ReceiverStage' = ReceiverStage
      /\ SenderStage' = SenderStage
  BY <1>1 DEF HeaderSeq, Counted, ReceiverStage, SenderStage
<1>3. SenderPhase' /\ ReceiverPhase' /\ AckComing'
  BY <1>0, <1>1, <1>2 DEF SenderPhase, Joined, ReceiverPhase, AckComing
<1>4. EventPhase' /\ Verdict'
  BY <1>1 DEF EInv, EventPhase, Verdict
<1>5. Histories'
  BY <1>1, <1>2 DEF EInv, Histories, Shift
<1>6. FwdFacts' /\ FwdOrder'
  <2>1. ASSUME NEW m \in Message, FwdMsg(m)
        PROVE  FwdMsg(m)'
    BY <1>1, <1>2, <2>1 DEF FwdMsg, SessionMsg, Stage
  <2> QED
    BY <1>0, <1>1, <1>2, <2>1, FwdKept
<1>7. BwdFacts' /\ BwdOrder'
  <2>1. ASSUME NEW m \in Message, BwdMsg(m)
        PROVE  BwdMsg(m)'
    BY <1>1, <1>2, <2>1 DEF BwdMsg
  <2> QED
    BY <1>0, <1>1, <1>2, <2>1, BwdTaken
<1>stranded. Stranded => Stranded'
  <2>1. AwaitsStart => AwaitsStart'
    BY <1>1, <1>2 DEF AwaitsStart, Joined
  <2> QED
    BY <1>0, <1>1, <2>1, StrandedKept
<1>8. AllCounted'
  BY <1>0, <1>1, <1>2, <1>stranded DEF AllCounted, OnLink
<1>9. WildcardOrder'
  <2>1. AwaitsStop' => AwaitsStop
    BY <1>1, <1>2 DEF AwaitsStop, Joined
  <2> QED
    BY <1>0, <1>1, <1>2, <1>stranded, <2>1, OrderKept
<1> QED
  BY <1>3, <1>4, <1>5, <1>6, <1>7, <1>8, <1>9 DEF EInv

LEMMA RecvStartAckExact ==
    ASSUME EInv, RecvStartAck, TypeOK' PROVE EInv'
<1>0. TypeOK /\ SenderPhase /\ ReceiverPhase /\ AckComing /\ FwdFacts /\ FwdOrder
      /\ BwdFacts /\ BwdOrder /\ AllCounted
  BY DEF EInv
<1>1. bwd # <<>> /\ bwd' = Tail(bwd)
  BY DEF RecvStartAck, HeadIs
<1>a. CASE ~StartAckAccepted
  <2>1. UNCHANGED <<senderVars, receiverVars, fwd, flagged, lost, everLost>>
    BY <1>a DEF RecvStartAck, senderVars, verdictVars, historyVars
  <2> QED
    BY <1>1, <2>1, IgnoredBackExact
<1>b. CASE StartAckAccepted
  <2>1. /\ sState = "START_ACK" /\ sSEQ = Head(bwd).seq /\ sState' = "COUNTING" /\ sEvent' = "STOP"
        /\ UNCHANGED <<sSEQ, sCounter, sMax, rState, rSEQ, rCounter, rEvent,
                       rOrphans, rMax, fwd, flagged, lost, everLost>>
    BY <1>b DEF RecvStartAck, StartAckAccepted, ScheduleStop, receiverVars, verdictVars, historyVars
  <2>2. PICK h \in Message : h = Head(bwd) /\ BwdMsg(h)
    BY <1>0, <1>1, HeadOfBwd
  <2>3. HeaderSeq = sSEQ
    BY <1>0, <2>1, <2>2, SessionFits
  <2>4. rSEQ = HeaderSeq /\ rState # "IDLE"
    BY <2>1, <2>2, <2>3 DEF BwdMsg
  <2>5. HeaderSeq' = HeaderSeq /\ Counted' = Counted /\ ReceiverStage' = ReceiverStage
        /\ SenderStage' = 2 /\ SenderStage = 1
    BY <2>1 DEF HeaderSeq, Counted, ReceiverStage, SenderStage
  <2>6. SenderPhase' /\ ReceiverPhase' /\ AckComing'
    BY <1>0, <2>1, <2>3, <2>4, <2>5 DEF SenderPhase, Joined, ReceiverPhase, AckComing
  <2>7. EventPhase' /\ Verdict'
    BY <2>1 DEF EInv, EventPhase, Verdict
  <2>8. Histories'
    BY <2>1, <2>5 DEF EInv, Histories, Shift
  <2>9. FwdFacts' /\ FwdOrder'
    <3>1. ASSUME NEW m \in Message, FwdMsg(m)
          PROVE  FwdMsg(m)'
      <4>1. Stage(m) \in 1 .. 4
        BY <1>0, Facts
      <4> QED
        BY <2>1, <2>5, <3>1, <4>1 DEF FwdMsg, SessionMsg, Stage
    <3> QED
      BY <1>0, <2>1, <2>5, <3>1, FwdKept
  <2>10. BwdFacts' /\ BwdOrder'
    <3>1. ASSUME NEW m \in Message, BwdMsg(m)
          PROVE  BwdMsg(m)'
      BY <2>1, <2>5, <3>1 DEF BwdMsg
    <3> QED
      BY <1>0, <1>1, <2>1, <2>5, <3>1, BwdTaken
  <2>11. AllCounted'
    <3>1. ~Stranded
      BY <1>0, <2>1 DEF SenderPhase, Stranded
    <3> QED
      BY <1>0, <2>1, <2>5, <3>1 DEF AllCounted, OnLink
  <2>12. WildcardOrder'
    BY <1>0, <2>1 DEF SenderPhase, WildcardOrder
  <2> QED
    BY <2>6, <2>7, <2>8, <2>9, <2>10, <2>11, <2>12 DEF EInv
<1> QED
  BY <1>a, <1>b

(***************************************************************************)
(* The sender takes the counter of its session.  By then the receiver has  *)
(* sent it, and all that is left of the session on the link are STOPs, so  *)
(* the acknowledgement closes the session on both sides.                   *)
(***************************************************************************)
LEMMA NextSession ==
    ASSUME TypeOK, sSEQ < SeqMod, sSEQ' = sSEQ + 1
    PROVE  HeaderSeq = sSEQ /\ HeaderSeq' # sSEQ
<1>1. sSEQ \in Nat /\ SeqMod \in Nat /\ SeqMod > 1
  BY ConstantsAssumption DEF TypeOK
<1>2. HeaderSeq = sSEQ
  BY <1>1, HeaderSeqExact
<1>3. CASE sSEQ + 1 < SeqMod
  <2>1. (sSEQ + 1) % SeqMod = sSEQ + 1
    BY <1>1, <1>3
  <2> QED
    BY <1>1, <1>2, <2>1 DEF HeaderSeq
<1>4. CASE sSEQ + 1 = SeqMod
  <2>1. SeqMod % SeqMod = 0
    BY <1>1
  <2>2. HeaderSeq' = 0
    BY <1>4, <2>1 DEF HeaderSeq
  <2> QED
    BY <1>1, <1>2, <1>4, <2>2
<1> QED
  BY <1>1, <1>3, <1>4

LEMMA AcceptedCounter ==
    ASSUME EInv, HeadIs(bwd, "COUNTER"), CounterAccepted
    PROVE  /\ sSEQ < SeqMod /\ HeaderSeq = sSEQ /\ rSEQ = sSEQ /\ rState = "COUNTER_ACK"
           /\ Head(bwd) \in Message /\ Head(bwd).seq = sSEQ
           /\ Head(bwd).val + lost = sCounter
           /\ \A i \in 1 .. Len(fwd) : \/ fwd[i].type = "STOP" /\ fwd[i].seq = sSEQ
                                       \/ fwd[i].type = "PLAIN" /\ Kind = "wildcard"
           /\ \A i \in 1 .. Len(bwd) : bwd[i].seq = sSEQ
<1>0. TypeOK /\ SenderPhase /\ FwdFacts /\ BwdFacts /\ BwdOrder
  BY DEF EInv
<1>1. bwd # <<>> /\ Head(bwd).type = "COUNTER" /\ sState = "WAIT_COUNTER_RECEIVE"
      /\ sSEQ = Head(bwd).seq
  BY DEF HeadIs, CounterAccepted
<1>2. PICK h \in Message : h = Head(bwd) /\ BwdMsg(h)
  BY <1>0, <1>1, HeadOfBwd
<1>3. HeaderSeq = sSEQ /\ sSEQ < SeqMod
  BY <1>0, <1>1, <1>2, SessionFits
<1>4. rSEQ = sSEQ /\ rState = "COUNTER_ACK" /\ h.val + lost = sCounter
  BY <1>1, <1>2, <1>3 DEF BwdMsg
<1>5. ASSUME NEW i \in 1 .. Len(fwd), ~(fwd[i].type = "PLAIN" /\ Kind = "wildcard")
      PROVE  fwd[i].type = "STOP" /\ fwd[i].seq = sSEQ
  <2>1. SessionMsg(fwd[i])
    BY <1>0, <1>5 DEF FwdFacts, FwdMsg
  <2>2. fwd[i].seq = HeaderSeq /\ fwd[i].type # "CACK"
    BY <1>3, <1>4, <2>1 DEF SessionMsg
  <2>3. 3 <= Stage(fwd[i])
    BY <1>3, <1>4, <2>1 DEF SessionMsg, ReceiverStage
  <2> QED
    BY <1>3, <2>1, <2>2, <2>3 DEF SessionMsg, Stage
<1>6. ASSUME NEW i \in 1 .. Len(bwd)
      PROVE  bwd[i].seq = sSEQ
  <2>1. h = bwd[1] /\ Len(bwd) \in Nat /\ 1 \in 1 .. Len(bwd)
    BY <1>0, <1>1, <1>2, Facts, TailOfChannel
  <2>2. CASE i = 1
    BY <1>1, <1>2, <2>1, <2>2
  <2>3. CASE i # 1
    <3>1. 1 < i
      BY <2>1, <2>3
    <3>2. BwdPair(bwd[1], bwd[i])
      BY <1>0, <2>1, <3>1 DEF BwdOrder
    <3> QED
      BY <1>1, <1>2, <1>3, <2>1, <3>2 DEF BwdPair
  <2> QED
    BY <2>2, <2>3
<1> QED
  BY <1>1, <1>2, <1>3, <1>4, <1>5, <1>6

(* No loss, no alarm. *)
LEMMA NoLossNoAlarm ==
    ASSUME TypeOK, NEW drops, drops = 0
    PROVE  ~ExceedsMinCost(drops)
<1>1. MinCost[1] \in Nat /\ MinCost[2] \in Nat
  BY ConstantsAssumption
<1>2. (IF CostType = "ABSOLUTE" THEN 1 ELSE sCounter) \in Nat
  BY DEF TypeOK
<1>3. \A a, b \in Nat : a * b >= 0
  OBVIOUS
<1>4. MinCost[1] * (IF CostType = "ABSOLUTE" THEN 1 ELSE sCounter) >= 0
  BY <1>1, <1>2, <1>3
<1>5. drops * MinCost[2] = 0
  BY <1>1
<1>6. MinCost[1] * (IF CostType = "ABSOLUTE" THEN 1 ELSE sCounter) \in Int
  BY <1>1, <1>2
<1> QED
  BY <1>4, <1>5, <1>6 DEF ExceedsMinCost

LEMMA ExchangeExact ==
    ASSUME EInv, RecvCounter, CounterAccepted, TypeOK' PROVE EInv'
<1>0. TypeOK
  BY DEF EInv
<1>1. /\ HeadIs(bwd, "COUNTER") /\ bwd # <<>> /\ bwd' = Tail(bwd)
      /\ fwd' = Append(fwd, Msg("CACK", Head(bwd).seq, 0)) /\ Exchange
      /\ UNCHANGED <<rState, rSEQ, rCounter, rEvent, rOrphans, rMax>>
  BY DEF RecvCounter, receiverVars, HeadIs
<1>2. /\ sState' = "IDLE" /\ sSEQ' = sSEQ + 1 /\ sCounter' = 0 /\ sEvent' = "START"
      /\ lost' = 0 /\ everLost' = everLost
  BY <1>1 DEF Exchange
<1>3. /\ sSEQ < SeqMod /\ HeaderSeq = sSEQ /\ rSEQ = sSEQ /\ rState = "COUNTER_ACK"
      /\ Head(bwd) \in Message /\ Head(bwd).seq = sSEQ
      /\ Head(bwd).val + lost = sCounter
      /\ \A i \in 1 .. Len(fwd) : \/ fwd[i].type = "STOP" /\ fwd[i].seq = sSEQ
                                  \/ fwd[i].type = "PLAIN" /\ Kind = "wildcard"
      /\ \A i \in 1 .. Len(bwd) : bwd[i].seq = sSEQ
  BY <1>1, AcceptedCounter
<1>4. HeaderSeq' # rSEQ'
  BY <1>0, <1>1, <1>2, <1>3, NextSession
<1>5. Msg("CACK", Head(bwd).seq, 0) \in Message
  BY <1>3, MessageFields DEF Msg, Message, MessageTypes
<1>6. PICK x \in Message : fwd' = Append(fwd, x) /\ x.type = "CACK" /\ x.seq = sSEQ
  BY <1>1, <1>3, <1>5 DEF Msg
<1>7. fwd \in Seq(Message) /\ bwd \in Seq(Message) /\ Len(fwd) \in Nat
  BY <1>0, Facts
<1>8. ASSUME NEW i \in 1 .. Len(fwd')
      PROVE  \/ fwd'[i].type \in {"STOP", "CACK"} /\ fwd'[i].seq = rSEQ'
             \/ fwd'[i].type = "PLAIN" /\ Kind = "wildcard"
  BY <1>1, <1>3, <1>6, <1>7, AppendCases
<1>9. ASSUME NEW i \in 1 .. Len(bwd')
      PROVE  bwd'[i].seq = rSEQ'
  BY <1>1, <1>3, <1>7, TailOfChannel
<1>10. SenderPhase' /\ ReceiverPhase'
  BY <1>1, <1>2, <1>3, <1>4 DEF SenderPhase, Joined, ReceiverPhase
<1>11. EventPhase'
  BY <1>1 DEF EInv, EventPhase
<1>12. AckComing'
  <2>1. Len(fwd) + 1 \in 1 .. Len(fwd') /\ fwd'[Len(fwd) + 1] = x
    BY <1>6, <1>7, AppendToChannel
  <2> QED
    BY <1>6, <2>1 DEF AckComing
<1>13. FwdFacts' /\ FwdOrder'
  BY <1>4, <1>8 DEF FwdFacts, FwdMsg, SessionMsg, FwdOrder, FwdPair
<1>14. BwdFacts' /\ BwdOrder'
  BY <1>4, <1>9 DEF BwdFacts, BwdMsg, BwdOrder, BwdPair
<1>15. AllCounted'
  BY <1>2, <1>4 DEF AllCounted, Counted
<1>16. Histories'
  <2> SUFFICES ASSUME Kind = "tree" PROVE sMax' = Shift(rMax', sMax'[1])
    BY <1>4 DEF Histories
  <2>1. rMax' = sMax
    BY <1>1, <1>3 DEF EInv, Histories
  <2>2. PICK m \in Maxima : sMax' = Shift(sMax, m)
    BY <1>1 DEF Exchange
  <2>3. sMax'[1] = m
    BY <2>2, ConstantsAssumption DEF Shift
  <2> QED
    BY <2>1, <2>2, <2>3
<1>17. Verdict'
  <2>1. Head(bwd).val \in Nat /\ lost \in Nat /\ sCounter \in Nat /\ Word \in Nat \ {0}
    BY <1>0, <1>3, Facts, ConstantsAssumption
  <2>2. lost = 0 => report' = 0
    <3>1. 0 % Word = 0
      BY <2>1
    <3>2. report' = (sCounter - Head(bwd).val) % Word
      BY <1>1 DEF Exchange, Drops
    <3>3. sCounter - Head(bwd).val = lost
      BY <1>3, <2>1
    <3> QED
      BY <3>1, <3>2, <3>3
  <2>3. lost = 0 => ~ExceedsMinCost(report')
    BY <1>0, <2>2, NoLossNoAlarm
  <2>4. flagged' => flagged \/ ExceedsMinCost(report')
    BY <1>1 DEF Exchange
  <2>5. lost > 0 => everLost
    BY DEF EInv, Verdict
  <2>6. flagged => everLost
    BY DEF EInv, Verdict
  <2>7. lost' = 0 /\ everLost' = everLost
    BY <1>2
  <2>8. lost = 0 \/ lost > 0
    BY <2>1
  <2>9. flagged' => everLost'
    BY <2>3, <2>4, <2>5, <2>6, <2>7, <2>8
  <2> QED
    BY <2>7, <2>9 DEF Verdict
<1>18. WildcardOrder'
  <2>1. ~AwaitsStop'
    BY <1>2 DEF AwaitsStop
  <2>2. ASSUME NEW j \in 1 .. Len(fwd') PROVE Outside(j)'
    <3>1. Len(fwd') \in Nat /\ \A i \in 1 .. j - 1 : i \in 1 .. Len(fwd')
      BY <1>6, <1>7, AppendToChannel
    <3>2. \A i \in 1 .. j - 1 : fwd'[i].type # "START"
      BY <1>8, <3>1
    <3> QED
      BY <1>1, <1>3, <3>2 DEF Outside
  <2> QED
    BY <2>1, <2>2 DEF WildcardOrder
<1> QED
  BY <1>10, <1>11, <1>12, <1>13, <1>14, <1>15, <1>16, <1>17, <1>18 DEF EInv

(* The acknowledgement is sent again for a counter of the last session. *)
LEMMA ReackExact ==
    ASSUME EInv, RecvCounter, ~CounterAccepted, ReacksCounter, TypeOK'
    PROVE  EInv'
<1>0. TypeOK /\ SenderPhase /\ ReceiverPhase /\ AckComing /\ FwdFacts /\ FwdOrder
      /\ BwdFacts /\ BwdOrder /\ AllCounted /\ WildcardOrder
  BY DEF EInv
<1>1. /\ bwd # <<>> /\ bwd' = Tail(bwd) /\ sState = "IDLE"
      /\ fwd' = Append(fwd, Msg("CACK", Head(bwd).seq, 0))
      /\ UNCHANGED <<sState, sSEQ, sCounter, sEvent, sMax, rState, rSEQ, rCounter, rEvent,
                     rOrphans, rMax, flagged, lost, everLost>>
  BY DEF RecvCounter, ReacksCounter, HeadIs, senderVars, receiverVars, verdictVars, historyVars
<1>2. PICK h \in Message : h = Head(bwd) /\ BwdMsg(h)
  BY <1>0, <1>1, HeadOfBwd
<1>3. h.seq = rSEQ /\ rSEQ # HeaderSeq
  BY <1>1, <1>2 DEF BwdMsg
<1>4. Msg("CACK", Head(bwd).seq, 0) \in Message
  BY <1>2, MessageFields DEF Msg, Message, MessageTypes
<1>5. PICK x \in Message : fwd' = Append(fwd, x) /\ x.type = "CACK" /\ x.seq = rSEQ
  BY <1>1, <1>2, <1>3, <1>4 DEF Msg
<1>6. HeaderSeq' = HeaderSeq /\ Counted' = Counted /\ ReceiverStage' = ReceiverStage
      /\ SenderStage' = SenderStage /\ SenderStage = 0
  BY <1>1 DEF HeaderSeq, Counted, ReceiverStage, SenderStage
<1>7. SenderPhase' /\ ReceiverPhase'
  BY <1>0, <1>1, <1>6 DEF SenderPhase, Joined, ReceiverPhase
<1>8. EventPhase' /\ Verdict'
  BY <1>1 DEF EInv, EventPhase, Verdict
<1>9. Histories'
  BY <1>1, <1>6 DEF EInv, Histories, Shift
<1>10. AckComing'
  BY <1>0, <1>1, <1>5, <1>6, AckComingKept
<1>11. FwdFacts' /\ FwdOrder'
  <2>1. FwdMsg(x)'
    BY <1>1, <1>3, <1>5, <1>6 DEF FwdMsg, SessionMsg
  <2>2. ASSUME NEW m \in Message, FwdMsg(m)
        PROVE  FwdMsg(m)' /\ FwdPair(m, x)
    <3>1. Stage(m) \in 1 .. 4
      BY <1>0, Facts
    <3>2. m.type # "PLAIN" => m.seq # HeaderSeq
      BY <1>6, <2>2, <3>1 DEF FwdMsg, SessionMsg
    <3> QED
      BY <1>1, <1>5, <1>6, <2>2, <3>2 DEF FwdMsg, SessionMsg, FwdPair, Stage
  <2> QED
    BY <1>0, <1>5, <1>6, <2>1, <2>2, FwdSent
<1>12. BwdFacts' /\ BwdOrder'
  <2>1. ASSUME NEW m \in Message, BwdMsg(m)
        PROVE  BwdMsg(m)'
    BY <1>1, <1>6, <2>1 DEF BwdMsg
  <2> QED
    BY <1>0, <1>1, <1>6, <2>1, BwdTaken
<1>stranded. ~Stranded
  BY <1>1 DEF Stranded, AwaitsStart
<1>13. AllCounted'
  <2>1. ASSUME NEW k \in Nat, OnLink(k)
        PROVE  OnLink(k)'
    BY <1>0, <1>5, <2>1, OnLinkKept
  <2> QED
    BY <1>0, <1>1, <1>6, <1>stranded, <2>1 DEF AllCounted
<1>14. WildcardOrder'
  <2>1. ~AwaitsStop'
    BY <1>1 DEF AwaitsStop
  <2> QED
    BY <1>0, <1>1, <1>5, <1>6, <1>stranded, <2>1, OrderSent
<1> QED
  BY <1>7, <1>8, <1>9, <1>10, <1>11, <1>12, <1>13, <1>14 DEF EInv

LEMMA RecvCounterExact ==
    ASSUME EInv, RecvCounter, TypeOK' PROVE EInv'
<1>1. CASE ~CounterAccepted /\ ~ReacksCounter
  <2>1. /\ bwd # <<>> /\ bwd' = Tail(bwd)
        /\ UNCHANGED <<senderVars, receiverVars, fwd, flagged, lost, everLost>>
    BY <1>1 DEF RecvCounter, HeadIs, verdictVars, historyVars
  <2> QED
    BY <2>1, IgnoredBackExact
<1> QED
  BY <1>1, ExchangeExact, ReackExact

-----------------------------------------------------------------------------
(* The invariant, step by step. *)

LEMMA EInvStep == SignalsArrive /\ EInv /\ [Next]_vars => EInv'
<1> SUFFICES ASSUME SignalsArrive, EInv, [Next]_vars PROVE EInv'
  OBVIOUS
<1>0. TypeOK'
  BY TypeStep DEF EInv
<1>1. CASE SendStart
  BY <1>0, <1>1, SendStartExact
<1>2. CASE SendStop
  BY <1>0, <1>2, SendStopExact
<1>3. CASE SendPacket
  BY <1>0, <1>3, SendPacketExact
<1>4. CASE RecvStart
  BY <1>0, <1>4, RecvStartExact
<1>5. CASE RecvStop
  BY <1>0, <1>5, RecvStopExact
<1>6. CASE RecvCounterAck
  BY <1>0, <1>6, RecvCounterAckExact
<1>7. CASE RecvPacket
  BY <1>0, <1>7, RecvPacketExact
<1>8. CASE SendGreyCounter
  BY <1>0, <1>8, SendGreyCounterExact
<1>9. CASE RecvStartAck
  BY <1>0, <1>9, RecvStartAckExact
<1>10. CASE RecvCounter
  BY <1>0, <1>10, RecvCounterExact
<1>11. CASE LoseForward
  BY <1>0, <1>11, LoseForwardExact
<1>12. CASE LoseBackward
  <2>1. /\ bwd # <<>> /\ bwd' = Tail(bwd)
        /\ UNCHANGED <<senderVars, receiverVars, fwd, flagged, lost, everLost>>
    BY <1>12 DEF LoseBackward, verdictVars, historyVars
  <2> QED
    BY <1>0, <2>1, IgnoredBackExact
<1>13. CASE UNCHANGED vars
  <2>1. UNCHANGED <<sState, sSEQ, sCounter, sEvent, sMax, rState, rSEQ, rCounter, rEvent,
                    rOrphans, rMax, fwd, bwd, flagged, lost, everLost>>
    BY <1>13 DEF vars, senderVars, receiverVars, verdictVars, historyVars
  <2>2. HeaderSeq' = HeaderSeq /\ Counted' = Counted /\ ReceiverStage' = ReceiverStage
        /\ SenderStage' = SenderStage
    BY <2>1 DEF HeaderSeq, Counted, ReceiverStage, SenderStage
  <2>3. SenderPhase' /\ ReceiverPhase' /\ AckComing'
    BY <2>1, <2>2 DEF EInv, SenderPhase, Joined, ReceiverPhase, AckComing
  <2>4. EventPhase' /\ Verdict'
    BY <2>1 DEF EInv, EventPhase, Verdict
  <2>5. Histories'
    BY <2>1, <2>2 DEF EInv, Histories, Shift
  <2>6. FwdFacts' /\ FwdOrder'
    BY <2>1, <2>2 DEF EInv, FwdFacts, FwdMsg, SessionMsg, FwdOrder, FwdPair, Stage
  <2>7. BwdFacts' /\ BwdOrder'
    BY <2>1, <2>2 DEF EInv, BwdFacts, BwdMsg, BwdOrder, BwdPair
  <2>stranded. Stranded => Stranded'
    BY <2>1, <2>2 DEF Stranded, AwaitsStart, StartOnLink, Joined
  <2>8. AllCounted'
    BY <2>1, <2>2, <2>stranded DEF EInv, AllCounted, OnLink
  <2>9. WildcardOrder'
    <3>1. AwaitsStop' => AwaitsStop
      BY <2>1, <2>2 DEF AwaitsStop, Joined
    <3> QED
      BY <2>1, <2>2, <2>stranded, <3>1, OrderKept DEF EInv
  <2> QED
    BY <1>0, <2>3, <2>4, <2>5, <2>6, <2>7, <2>8, <2>9 DEF EInv
<1> QED
  BY <1>1, <1>2, <1>3, <1>4, <1>5, <1>6, <1>7, <1>8, <1>9, <1>10, <1>11, <1>12, <1>13
  DEF Next

LEMMA EInvAlways == SignalsArrive => (Spec => []EInv)
<1> SUFFICES ASSUME SignalsArrive PROVE Spec => []EInv
  OBVIOUS
<1>1. Init => EInv
  BY InitEInv
<1>2. EInv /\ [Next]_vars => EInv'
  BY EInvStep
<1> QED
  BY <1>1, <1>2, PTL DEF Spec

-----------------------------------------------------------------------------
(***************************************************************************)
(* The counter that EgressCounterBox is about to compare accounts for      *)
(* every packet of the session, as arrived or as lost, for any traffic and *)
(* any number of sessions, also past the 16 bits of the header's number.   *)
(***************************************************************************)
THEOREM CountersAlwaysExact == SignalsArrive => (Spec => []CountersExact)
<1>1. EInv => CountersExact
  <2> SUFFICES ASSUME EInv, NEW i \in DOMAIN bwd, bwd[i].type = "COUNTER", bwd[i].seq = sSEQ
               PROVE  bwd[i].val + lost = sCounter
    BY DEF CountersExact
  <2>0. TypeOK /\ BwdFacts
    BY DEF EInv
  <2>1. i \in 1 .. Len(bwd) /\ bwd[i] \in Message
    BY <2>0 DEF TypeOK
  <2>2. HeaderSeq = sSEQ
    BY <2>0, <2>1, SessionFits
  <2> QED
    BY <2>0, <2>1, <2>2 DEF BwdFacts, BwdMsg
<1> QED
  BY <1>1, EInvAlways, PTL

(***************************************************************************)
(* reroute_top[id].set is set only after the link has lost a counted       *)
(* packet: no interleaving of repeated START, STOP and COUNTER messages    *)
(* and late acknowledgements raises a false alarm.                         *)
(***************************************************************************)
THEOREM NeverFalseAlarm == SignalsArrive => (Spec => []NoFalseAlarm)
<1>1. EInv => NoFalseAlarm
  BY DEF EInv, Verdict, NoFalseAlarm
<1> QED
  BY <1>1, EInvAlways, PTL

(***************************************************************************)
(* The comment in IngressCounterBox is right: in WAIT_COUNTER_SEND the     *)
(* counter of the session has not been sent, so that there is nothing to   *)
(* listen to.                                                              *)
(***************************************************************************)
THEOREM CounterNeverSentYet == SignalsArrive => (Spec => []CounterNotSentYet)
<1>1. EInv => CounterNotSentYet
  <2> SUFFICES ASSUME EInv, rState = "WAIT_COUNTER_SEND", NEW i \in DOMAIN bwd,
                      bwd[i].type = "COUNTER", bwd[i].seq = rSEQ
               PROVE  FALSE
    BY DEF CounterNotSentYet
  <2>0. TypeOK /\ BwdFacts /\ ReceiverPhase
    BY DEF EInv
  <2>1. i \in 1 .. Len(bwd)
    BY <2>0 DEF TypeOK
  <2>2. rSEQ = HeaderSeq
    BY <2>0 DEF ReceiverPhase, Joined
  <2> QED
    BY <2>0, <2>1, <2>2 DEF BwdFacts, BwdMsg
<1> QED
  BY <1>1, EInvAlways, PTL

(***************************************************************************)
(* The two ends of a zooming tree walk down the same max_cells with every  *)
(* packet that both of them count.                                         *)
(***************************************************************************)
THEOREM HistoriesAgree == SignalsArrive /\ Kind = "tree" => (Spec => []SameHistory)
<1> SUFFICES ASSUME SignalsArrive, Kind = "tree" PROVE Spec => []SameHistory
  OBVIOUS
<1>1. EInv => SameHistory
  BY NextPacket DEF SameHistory, EInv, Histories, Stranded
<1> QED
  BY <1>1, EInvAlways, PTL

(***************************************************************************)
(* PipelinedInitReceiverStep shifts the receiver's history once in each    *)
(* session: a START that is repeated, or found in the link after the ack,  *)
(* leaves it alone.                                                        *)
(***************************************************************************)
THEOREM ShiftsOnce == SignalsArrive => (Spec => ShiftOncePerSession)
<1> SUFFICES ASSUME SignalsArrive PROVE Spec => ShiftOncePerSession
  OBVIOUS
<1>1. ASSUME EInv, [Next]_vars PROVE [rMax' # rMax => rSEQ' # rSEQ]_rMax
  <2>1. CASE UNCHANGED rMax
    BY <2>1
  <2>2. CASE RecvStart
    <3> SUFFICES ASSUME rMax' # rMax, rSEQ' = rSEQ PROVE FALSE
      OBVIOUS
    <3>1. HeadIs(fwd, "START")
      BY <2>2 DEF RecvStart
    <3>2. Kind = "tree" /\ rState # "COUNTING" /\ rSEQ' = Head(fwd).seq
          /\ rMax' = Shift(rMax, Head(fwd).val)
      BY <2>2 DEF RecvStart, ShiftsHistory, AdoptSession
    <3>3. Head(fwd).seq = HeaderSeq /\ rState = "IDLE" /\ Head(fwd).val = sMax[1]
      BY <1>1, <3>1, <3>2, StartFinds
    <3>4. rMax = sMax /\ sMax = Shift(rMax, sMax[1])
      BY <1>1, <3>2, <3>3 DEF EInv, Histories
    <3> QED
      BY <3>2, <3>3, <3>4
  <2>3. CASE ~RecvStart
    <3>1. UNCHANGED rMax
      BY <1>1, <2>3 DEF Next, vars, SendStart, SendStop, SendPacket, RecvStop, RecvCounterAck,
        RecvPacket, SendGreyCounter, RecvStartAck, RecvCounter, LoseForward, LoseBackward,
        receiverVars
    <3> QED
      BY <3>1
  <2> QED
    BY <2>2, <2>3
<1>2. Spec => []EInv
  BY EInvAlways
<1> QED
  BY <1>1, <1>2, PTL DEF Spec, ShiftOncePerSession

-----------------------------------------------------------------------------
(* The refinement of LossMeter. *)

(* The bound on the packets of a session. *)
PacketBound == sCounter <= MaxPkts

LEMMA PacketBoundStep == TypeOK /\ PacketBound /\ [Next]_vars => PacketBound'
<1> SUFFICES ASSUME TypeOK, PacketBound, [Next]_vars PROVE PacketBound'
  OBVIOUS
<1>1. sCounter \in Nat /\ MaxPkts \in Nat
  BY ConstantsAssumption DEF TypeOK
<1>2. sCounter' = sCounter \/ sCounter' = 0 \/ (sCounter < MaxPkts /\ sCounter' = sCounter + 1)
  BY DEF Next, vars, SendStart, SendStop, SendPacket, RecvStart, RecvStop, RecvCounterAck,
    RecvPacket, SendGreyCounter, RecvStartAck, RecvCounter, Exchange, LoseForward, LoseBackward,
    senderVars
<1> QED
  BY <1>1, <1>2 DEF PacketBound

(* A step of the protocol that is not one of the meter changes none of its state. *)
LEMMA MeterStep ==
    ASSUME MaxPkts < Word, EInv, PacketBound, [Next]_vars
    PROVE  [Meter!Next]_Meter!vars
<1>0. TypeOK /\ AllCounted
  BY DEF EInv
<1>1. CASE SendPacket
  <2>1. sCounter' \in {sCounter, sCounter + 1} /\ UNCHANGED <<sSEQ, lost, report, flagged>>
    BY <1>1 DEF SendPacket, verdictVars, historyVars
  <2> QED
    BY <2>1 DEF Meter!Next, Meter!SendPacket, Meter!vars
<1>2. CASE LoseForward /\ HeadIs(fwd, "DATA")
  <2>1. /\ Head(fwd).seq = HeaderSeq /\ Head(fwd).val \in Nat
        /\ Counted + lost < Head(fwd).val /\ Head(fwd).val <= sCounter
    BY <1>2, NextPacket
  <2>2. Counted \in Nat /\ lost \in Nat /\ sCounter \in Nat
    BY <1>0, Facts
  <2>3. lost < sCounter
    BY <2>1, <2>2
  <2>4. lost' = lost + 1 /\ UNCHANGED <<sSEQ, sCounter, report, flagged>>
    BY <1>2, <2>1 DEF LoseForward, senderVars, verdictVars
  <2> QED
    BY <2>3, <2>4 DEF Meter!Next, Meter!LosePacket
<1>3. CASE RecvCounter /\ CounterAccepted
  <2>1. HeadIs(bwd, "COUNTER") /\ Exchange
    BY <1>3 DEF RecvCounter
  <2>2. Head(bwd) \in Message /\ Head(bwd).val + lost = sCounter
    BY <1>3, <2>1, AcceptedCounter
  <2>3. Head(bwd).val \in Nat /\ lost \in Nat /\ sCounter \in Nat
        /\ Word \in Nat /\ MaxPkts \in Nat
    BY <1>0, <2>2, Facts, ConstantsAssumption
  <2>4. sCounter - Head(bwd).val = lost /\ lost < Word
    BY <2>2, <2>3 DEF PacketBound
  <2>5. lost % Word = lost
    BY <2>3, <2>4
  <2>6. report' = lost
    BY <2>1, <2>4, <2>5 DEF Exchange, Drops
  <2>7. flagged' = (flagged \/ (Kind # "tree" /\ ExceedsMinCost(lost)))
        /\ sSEQ' = sSEQ + 1 /\ sCounter' = 0 /\ lost' = 0
    BY <2>1, <2>6 DEF Exchange
  <2>8. ExceedsMinCost(lost) = Meter!Exceeds
    BY DEF ExceedsMinCost, Meter!Exceeds
  <2> QED
    BY <2>6, <2>7, <2>8 DEF Meter!Next, Meter!CloseSession
<1>4. CASE RecvCounter /\ ~CounterAccepted
  BY <1>4 DEF RecvCounter, Meter!vars, senderVars, verdictVars, historyVars
<1>5. CASE LoseForward /\ ~HeadIs(fwd, "DATA")
  BY <1>5 DEF LoseForward, Meter!vars, senderVars, verdictVars, historyVars
<1>6. CASE SendStart
  <2>1. sCounter = 0
    BY <1>6 DEF SendStart, EInv, SenderPhase, Joined, TypeOK
  <2> QED
    BY <1>6, <2>1 DEF SendStart, Meter!vars, senderVars, verdictVars, historyVars
<1>7. CASE SendStop \/ RecvStartAck
  BY <1>7 DEF SendStop, RecvStartAck, Meter!vars, verdictVars, historyVars
<1>8. CASE RecvStart \/ RecvStop \/ RecvCounterAck \/ RecvPacket \/ SendGreyCounter \/ LoseBackward
  BY <1>8 DEF RecvStart, RecvStop, RecvCounterAck, RecvPacket, SendGreyCounter, LoseBackward,
    Meter!vars, senderVars, verdictVars, historyVars
<1>9. CASE UNCHANGED vars
  BY <1>9 DEF vars, Meter!vars, senderVars, verdictVars, historyVars
<1> QED
  BY <1>1, <1>2, <1>3, <1>4, <1>5, <1>6, <1>7, <1>8, <1>9 DEF Next

(***************************************************************************)
(* The protocol implements the loss meter: the drops that EgressCounterBox *)
(* computes at the end of a session are the packets that the link lost in  *)
(* it, and reroute_top[id] is set by the first session in which these      *)
(* losses exceed m_rerouteMinCost.  The counts must fit their word.        *)
(***************************************************************************)
THEOREM MeterImplemented == SignalsArrive /\ MaxPkts < Word => (Spec => ImplementsMeter)
<1> SUFFICES ASSUME SignalsArrive, MaxPkts < Word PROVE Spec => ImplementsMeter
  OBVIOUS
<1>1. Init => EInv /\ PacketBound /\ Meter!Init
  <2>1. Init => EInv
    BY InitEInv
  <2>2. Init => PacketBound
    BY ConstantsAssumption DEF Init, PacketBound
  <2>3. Init => Meter!Init
    BY DEF Init, Meter!Init
  <2> QED
    BY <2>1, <2>2, <2>3
<1>2. EInv /\ PacketBound /\ [Next]_vars => EInv' /\ PacketBound'
  BY EInvStep, PacketBoundStep DEF EInv
<1>3. EInv /\ PacketBound /\ [Next]_vars => [Meter!Next]_Meter!vars
  BY MeterStep
<1> QED
  BY <1>1, <1>2, <1>3, PTL DEF Spec, ImplementsMeter, Meter!Spec

-----------------------------------------------------------------------------
(***************************************************************************)
(* What is left when acknowledgements of counters are lost too.  A session *)
(* may then end too early, and still a repeated START never takes counted  *)
(* packets away: the link keeps the STARTs of a session ahead of its       *)
(* packets, and the sender sends no START once it has counted.  A session  *)
(* whose number no longer fits the header is never counted at all.         *)
(***************************************************************************)
StartsFirst ==
    \A i, j \in 1 .. Len(fwd) :
        i < j /\ fwd[i].type = "DATA" /\ fwd[j].type = "START" => fwd[i].seq # fwd[j].seq

NoStartLeft ==
    rCounter > 0 => \A i \in 1 .. Len(fwd) : fwd[i].type = "START" => fwd[i].seq # rSEQ

Overflowed ==
    sSEQ >= SeqMod =>
        /\ rSEQ = HeaderSeq => rCounter = 0
        /\ \A i \in 1 .. Len(fwd) : fwd[i].type = "DATA" => fwd[i].seq # HeaderSeq

RInv == StartsFirst /\ NoStartLeft /\ Overflowed

(* A message is sent, or leaves the link, and the receiver counts nothing. *)
LEMMA ResetKeptByTaking ==
    ASSUME IInv, RInv, fwd # <<>>, fwd' = Tail(fwd), UNCHANGED sSEQ,
           UNCHANGED <<rSEQ, rCounter>> \/ rCounter' = 0
    PROVE  RInv'
<1>1. /\ Len(fwd) \in Nat \ {0} /\ Len(fwd') = Len(fwd) - 1
      /\ \A i \in 1 .. Len(fwd) - 1 : fwd'[i] = fwd[i + 1]
  BY Numbers, TailOfChannel
<1>2. ASSUME NEW i \in 1 .. Len(fwd')
      PROVE  i + 1 \in 1 .. Len(fwd) /\ fwd'[i] = fwd[i + 1]
  BY <1>1
<1>3. StartsFirst'
  <2> SUFFICES ASSUME NEW i \in 1 .. Len(fwd'), NEW j \in 1 .. Len(fwd'), i < j,
                      fwd'[i].type = "DATA", fwd'[j].type = "START"
               PROVE  fwd'[i].seq # fwd'[j].seq
    BY DEF StartsFirst
  <2>1. i + 1 < j + 1
    BY <1>1
  <2> QED
    BY <1>2, <2>1 DEF RInv, StartsFirst
<1>4. NoStartLeft'
  BY <1>2 DEF RInv, NoStartLeft
<1>5. Overflowed'
  <2>1. HeaderSeq' = HeaderSeq
    BY DEF HeaderSeq
  <2> QED
    BY <1>2, <2>1 DEF RInv, Overflowed
<1> QED
  BY <1>3, <1>4, <1>5 DEF RInv

LEMMA ResetKeptBySending ==
    ASSUME IInv, RInv, NEW x \in Message, fwd' = Append(fwd, x),
           UNCHANGED <<sSEQ, rSEQ, rCounter>>,
           x.type = "DATA" => sSEQ < SeqMod,
           x.type = "START" =>
               /\ rCounter > 0 => x.seq # rSEQ
               /\ \A i \in 1 .. Len(fwd) : fwd[i].type = "DATA" => fwd[i].seq # x.seq
    PROVE  RInv'
<1>0. fwd \in Seq(Message) /\ Len(fwd) \in Nat /\ sSEQ \in Nat /\ SeqMod \in Nat
  BY Numbers
<1>1. \A i \in 1 .. Len(fwd') : \/ i \in 1 .. Len(fwd) /\ fwd'[i] = fwd[i]
                                \/ i = Len(fwd) + 1 /\ fwd'[i] = x
  BY <1>0, AppendCases
<1>2. Len(fwd') = Len(fwd) + 1
  BY <1>0, AppendToChannel
<1>3. StartsFirst'
  <2> SUFFICES ASSUME NEW i \in 1 .. Len(fwd'), NEW j \in 1 .. Len(fwd'), i < j,
                      fwd'[i].type = "DATA", fwd'[j].type = "START"
               PROVE  fwd'[i].seq # fwd'[j].seq
    BY DEF StartsFirst
  <2>1. i \in 1 .. Len(fwd) /\ fwd'[i] = fwd[i]
    BY <1>0, <1>1, <1>2
  <2> QED
    BY <1>1, <2>1 DEF RInv, StartsFirst
<1>4. NoStartLeft'
  BY <1>1 DEF RInv, NoStartLeft
<1>5. Overflowed'
  <2>1. HeaderSeq' = HeaderSeq
    BY DEF HeaderSeq
  <2> QED
    BY <1>0, <1>1, <2>1 DEF RInv, Overflowed
<1> QED
  BY <1>3, <1>4, <1>5 DEF RInv

(* SendStart repeats only while nothing is counted in the session. *)
LEMMA SendStartReset ==
    ASSUME Kind # "wildcard", IInv, RInv, SendStart PROVE RInv'
<1>0. /\ sSEQ \in Nat /\ rSEQ \in Nat /\ sCounter \in Nat /\ rCounter \in Nat
      /\ fwd \in Seq(Message) /\ SeqMod \in Nat
  BY Numbers
<1>1. /\ sEvent = "START" /\ UNCHANGED <<sSEQ, rSEQ, rCounter>>
      /\ fwd' = Append(fwd, Msg("START", HeaderSeq, sMax[1]))
  BY DEF SendStart, receiverVars
<1>2. sCounter = 0
  BY <1>1 DEF IInv, SenderInStep, TypeOK
<1>3. Msg("START", HeaderSeq, sMax[1]) \in Message
  <2>1. 1 \in 1 .. HistDepth
    BY ConstantsAssumption
  <2>2. sMax[1] \in Maxima
    BY <2>1 DEF IInv, TypeOK
  <2>3. HeaderSeq \in 0 .. SeqMod - 1
    BY HeaderSeqType DEF IInv
  <2> QED
    BY <2>2, <2>3, ConstantsAssumption DEF Msg, Message, MessageTypes
<1>4. PICK x \in Message : fwd' = Append(fwd, x) /\ x.type = "START" /\ x.seq = HeaderSeq
  BY <1>1, <1>3 DEF Msg
<1>5. /\ rCounter > 0 => HeaderSeq # rSEQ
      /\ \A i \in 1 .. Len(fwd) : fwd[i].type = "DATA" => fwd[i].seq # HeaderSeq
  <2>1. CASE sSEQ >= SeqMod
    BY <1>0, <2>1 DEF RInv, Overflowed
  <2>2. CASE sSEQ < SeqMod
    <3>1. HeaderSeq = sSEQ
      BY <1>0, <2>2, HeaderSeqExact
    <3>2. CountsOrdered
      BY <2>2 DEF IInv
    <3>3. rSEQ = sSEQ => rCounter <= 0
      BY <1>2, <3>2 DEF CountsOrdered
    <3>4. RanksWithin(fwd, sSEQ, IF rSEQ = sSEQ THEN rCounter ELSE 0, 0)
      BY <1>2, <3>2 DEF CountsOrdered
    <3>5. ASSUME NEW i \in 1 .. Len(fwd), fwd[i].type = "DATA" PROVE fwd[i].seq # sSEQ
      <4> SUFFICES ASSUME fwd[i].seq = sSEQ PROVE FALSE
        OBVIOUS
      <4>1. (IF rSEQ = sSEQ THEN rCounter ELSE 0) < fwd[i].val /\ fwd[i].val <= 0
        BY <3>4, <3>5 DEF RanksWithin
      <4>2. fwd[i].val \in Nat
        BY TypeFacts DEF IInv
      <4> QED
        BY <1>0, <4>1, <4>2
    <3> QED
      BY <1>0, <3>1, <3>3, <3>5
  <2> QED
    BY <1>0, <2>1, <2>2
<1> QED
  BY <1>1, <1>4, <1>5, ResetKeptBySending

(* No START of the session is behind a packet that is counted. *)
LEMMA RecvPacketReset ==
    ASSUME Kind # "wildcard", IInv, RInv, RecvPacket PROVE RInv'
<1>0. fwd \in Seq(Message) /\ rCounter \in Nat /\ Len(fwd) \in Nat /\ sSEQ \in Nat
      /\ SeqMod \in Nat
  BY Numbers
<1>1. fwd # <<>> /\ fwd' = Tail(fwd) /\ UNCHANGED <<sSEQ, rSEQ>>
  BY DEF RecvPacket, HeadIs, senderVars
<1>a. CASE ~Counts(Head(fwd))
  <2>1. UNCHANGED rCounter
    BY <1>a DEF RecvPacket
  <2> QED
    BY <1>1, <2>1, ResetKeptByTaking
<1>b. CASE Counts(Head(fwd))
  <2>1. rCounter' = rCounter + 1 /\ Head(fwd).seq = rSEQ
    BY <1>b DEF RecvPacket, Counts
  <2>2. /\ 1 \in 1 .. Len(fwd) /\ Head(fwd) = fwd[1] /\ Len(fwd') = Len(fwd) - 1
        /\ \A i \in 1 .. Len(fwd) - 1 : fwd'[i] = fwd[i + 1]
    BY <1>0, <1>1, TailOfChannel
  <2>3. fwd[1].type = "DATA"
    BY <2>2 DEF RecvPacket, HeadIs, IInv, NoPlain
  <2>4. ASSUME NEW i \in 1 .. Len(fwd')
        PROVE  i + 1 \in 1 .. Len(fwd) /\ fwd'[i] = fwd[i + 1] /\ 1 < i + 1
    BY <1>0, <2>2
  <2>5. StartsFirst'
    <3> SUFFICES ASSUME NEW i \in 1 .. Len(fwd'), NEW j \in 1 .. Len(fwd'), i < j,
                        fwd'[i].type = "DATA", fwd'[j].type = "START"
                 PROVE  fwd'[i].seq # fwd'[j].seq
      BY DEF StartsFirst
    <3>1. i + 1 < j + 1
      BY <1>0, <2>2
    <3> QED
      BY <2>4, <3>1 DEF RInv, StartsFirst
  <2>6. NoStartLeft'
    <3> SUFFICES ASSUME NEW i \in 1 .. Len(fwd'), fwd'[i].type = "START"
                 PROVE  fwd'[i].seq # rSEQ
      BY <1>1 DEF NoStartLeft
    <3> QED
      BY <2>1, <2>2, <2>3, <2>4 DEF RInv, StartsFirst
  <2>7. Overflowed'
    <3>1. HeaderSeq' = HeaderSeq
      BY <1>1 DEF HeaderSeq
    <3>2. sSEQ >= SeqMod => rSEQ # HeaderSeq
      BY <2>1, <2>2, <2>3 DEF RInv, Overflowed
    <3> QED
      BY <1>1, <2>4, <3>1, <3>2 DEF RInv, Overflowed
  <2> QED
    BY <2>5, <2>6, <2>7 DEF RInv
<1> QED
  BY <1>a, <1>b

(* The number wraps round to 0, and all messages carry the one before. *)
LEMMA RecvCounterReset ==
    ASSUME Kind # "wildcard", IInv, RInv, RecvCounter PROVE RInv'
<1>0. /\ sSEQ \in Nat /\ rSEQ \in Nat /\ fwd \in Seq(Message) /\ bwd \in Seq(Message)
      /\ SeqMod \in Nat /\ SeqMod > 1 /\ Len(fwd) \in Nat
  BY Numbers, ConstantsAssumption
<1>1. bwd # <<>> /\ UNCHANGED <<rSEQ, rCounter>>
  BY DEF RecvCounter, HeadIs, receiverVars
<1>2. Msg("CACK", Head(bwd).seq, 0) \in Message
  <2>1. Head(bwd) \in Message
    BY <1>0, <1>1, TailOfChannel
  <2> QED
    BY <2>1, MessageFields DEF Msg, Message, MessageTypes
<1>3. CASE CounterAccepted
  <2>1. sSEQ < SeqMod /\ rSEQ = sSEQ /\ sSEQ' = sSEQ + 1
    BY <1>3 DEF CounterAccepted, RecvCounter, Exchange, IInv, SenderInStep
  <2>2. PICK x \in Message : fwd' = Append(fwd, x) /\ x.type = "CACK"
    BY <1>2, <1>3 DEF RecvCounter, Msg
  <2>3. \A i \in 1 .. Len(fwd') : \/ i \in 1 .. Len(fwd) /\ fwd'[i] = fwd[i]
                                  \/ i = Len(fwd) + 1 /\ fwd'[i] = x
    BY <1>0, <2>2, AppendCases
  <2>4. Len(fwd') = Len(fwd) + 1
    BY <1>0, <2>2, AppendToChannel
  <2>5. StartsFirst'
    <3> SUFFICES ASSUME NEW i \in 1 .. Len(fwd'), NEW j \in 1 .. Len(fwd'), i < j,
                        fwd'[i].type = "DATA", fwd'[j].type = "START"
                 PROVE  fwd'[i].seq # fwd'[j].seq
      BY DEF StartsFirst
    <3> QED
      BY <2>2, <2>3 DEF RInv, StartsFirst
  <2>6. NoStartLeft'
    BY <1>1, <2>2, <2>3 DEF RInv, NoStartLeft
  <2>7. Overflowed'
    <3> SUFFICES ASSUME sSEQ' >= SeqMod PROVE Overflowed'
      BY DEF Overflowed
    <3>1. sSEQ + 1 = SeqMod
      BY <1>0, <2>1
    <3>2. SeqMod % SeqMod = 0
      BY <1>0
    <3>3. HeaderSeq' = 0
      BY <2>1, <3>1, <3>2 DEF HeaderSeq
    <3>4. Within(fwd, rSEQ, sSEQ)
      BY <2>1 DEF IInv, RingOrder
    <3>5. ASSUME NEW i \in 1 .. Len(fwd') PROVE fwd'[i].type = "DATA" => fwd'[i].seq # 0
      <4>1. CASE i = Len(fwd) + 1
        BY <2>2, <2>3, <4>1
      <4>2. CASE i \in 1 .. Len(fwd) /\ fwd'[i] = fwd[i]
        <5>1. sSEQ <= fwd[i].seq
          BY <2>1, <3>4, <4>2 DEF Within
        <5> QED
          BY <1>0, <3>1, <4>2, <5>1
      <4> QED
        BY <2>3, <4>1, <4>2
    <3>6. rSEQ' # 0
      BY <1>0, <1>1, <2>1, <3>1
    <3> QED
      BY <3>3, <3>5, <3>6 DEF Overflowed
  <2> QED
    BY <2>5, <2>6, <2>7 DEF RInv
<1>4. CASE ~CounterAccepted /\ ReacksCounter
  <2>1. UNCHANGED sSEQ
    BY <1>4 DEF RecvCounter, senderVars
  <2>2. PICK x \in Message : fwd' = Append(fwd, x) /\ x.type = "CACK"
    BY <1>2, <1>4 DEF RecvCounter, Msg
  <2> QED
    BY <1>1, <2>1, <2>2, ResetKeptBySending
<1>5. CASE ~CounterAccepted /\ ~ReacksCounter
  <2>1. UNCHANGED <<fwd, sSEQ>>
    BY <1>5 DEF RecvCounter, senderVars
  <2> QED
    BY <1>1, <2>1 DEF RInv, StartsFirst, NoStartLeft, Overflowed, HeaderSeq
<1> QED
  BY <1>3, <1>4, <1>5

LEMMA RInvStep == Kind # "wildcard" /\ IInv /\ RInv /\ [Next]_vars => RInv'
<1> SUFFICES ASSUME Kind # "wildcard", IInv, RInv, [Next]_vars PROVE RInv'
  OBVIOUS
<1>0. HeaderSeq \in 0 .. SeqMod - 1
  BY HeaderSeqType DEF IInv
<1>1. CASE SendStart
  BY <1>1, SendStartReset
<1>2. CASE SendStop
  <2>1. Msg("STOP", HeaderSeq, 0) \in Message
    BY <1>0 DEF Msg, Message, MessageTypes
  <2>2. PICK x \in Message : fwd' = Append(fwd, x) /\ x.type = "STOP"
    BY <1>2, <2>1 DEF SendStop, Msg
  <2>3. UNCHANGED <<sSEQ, rSEQ, rCounter>>
    BY <1>2 DEF SendStop, receiverVars
  <2> QED
    BY <2>2, <2>3, ResetKeptBySending
<1>3. CASE SendPacket
  <2>1. sState = "COUNTING" /\ fwd' = Append(fwd, Msg("DATA", HeaderSeq, sCounter + 1))
        /\ UNCHANGED <<sSEQ, rSEQ, rCounter>>
    BY <1>3 DEF SendPacket, receiverVars
  <2>2. Msg("DATA", HeaderSeq, sCounter + 1) \in Message
    BY <1>0, Numbers DEF Msg, Message, MessageTypes
  <2>3. PICK x \in Message : fwd' = Append(fwd, x) /\ x.type = "DATA"
    BY <2>1, <2>2 DEF Msg
  <2>4. sSEQ < SeqMod
    BY <2>1 DEF IInv, SenderInStep
  <2> QED
    BY <2>1, <2>3, <2>4, ResetKeptBySending
<1>4. CASE RecvStart
  <2>1. fwd # <<>> /\ fwd' = Tail(fwd) /\ UNCHANGED sSEQ
    BY <1>4 DEF RecvStart, HeadIs, senderVars
  <2>2. UNCHANGED <<rSEQ, rCounter>> \/ rCounter' = 0
    BY <1>4 DEF RecvStart, ResetCounter
  <2> QED
    BY <2>1, <2>2, ResetKeptByTaking
<1>5. CASE RecvStop \/ RecvCounterAck \/ LoseForward
  <2>1. fwd # <<>> /\ fwd' = Tail(fwd) /\ UNCHANGED <<sSEQ, rSEQ, rCounter>>
    BY <1>5 DEF RecvStop, RecvCounterAck, LoseForward, HeadIs, senderVars, receiverVars
  <2> QED
    BY <2>1, ResetKeptByTaking
<1>6. CASE RecvPacket
  BY <1>6, RecvPacketReset
<1>7. CASE RecvCounter
  BY <1>7, RecvCounterReset
<1>8. CASE SendGreyCounter \/ RecvStartAck \/ LoseBackward \/ UNCHANGED vars
  <2>1. UNCHANGED <<fwd, sSEQ, rSEQ, rCounter>>
    BY <1>8 DEF SendGreyCounter, RecvStartAck, LoseBackward, vars, senderVars, receiverVars
  <2> QED
    BY <2>1 DEF RInv, StartsFirst, NoStartLeft, Overflowed, HeaderSeq
<1> QED
  BY <1>1, <1>2, <1>3, <1>4, <1>5, <1>6, <1>7, <1>8 DEF Next

(***************************************************************************)
(* A START that SendGreyAction repeats never erases what IngressCounterBox *)
(* has counted in that session, whatever the link loses: localCounter[id]  *)
(* only shrinks together with a change of currentSEQ[id].                  *)
(***************************************************************************)
THEOREM ResetsOnlyForNewSession == Kind # "wildcard" => (Spec => ResetOnlyForNewSession)
<1> SUFFICES ASSUME Kind # "wildcard" PROVE Spec => ResetOnlyForNewSession
  OBVIOUS
<1>1. Init => RInv
  <2>1. Init => sSEQ = 0 /\ rCounter = 0 /\ Len(fwd) = 0
    BY DEF Init
  <2> QED
    BY <2>1, ConstantsAssumption DEF RInv, StartsFirst, NoStartLeft, Overflowed
<1>2. IInv /\ RInv /\ [Next]_vars => RInv'
  BY RInvStep
<1>3. ASSUME IInv, RInv, [Next]_vars
      PROVE  [rCounter' < rCounter => rSEQ' # rSEQ]_<<rCounter, rSEQ>>
  <2>0. rCounter \in Nat
    BY <1>3, Numbers
  <2>1. CASE RecvStart
    <3> SUFFICES ASSUME rCounter' < rCounter, rSEQ' = rSEQ PROVE FALSE
      OBVIOUS
    <3>1. HeadIs(fwd, "START") /\ rCounter' = 0 /\ Head(fwd).seq = rSEQ
      BY <2>0, <2>1 DEF RecvStart, ResetCounter, AdoptSession
    <3>2. 1 \in 1 .. Len(fwd) /\ fwd[1].type = "START" /\ fwd[1].seq = rSEQ
      BY <1>3, <3>1, Numbers, TailOfChannel DEF HeadIs
    <3>3. rCounter > 0
      BY <2>0, <3>1
    <3> QED
      BY <1>3, <3>2, <3>3 DEF RInv, NoStartLeft
  <2>2. CASE RecvPacket
    <3>1. rCounter' = rCounter \/ rCounter' = rCounter + 1
      BY <2>2 DEF RecvPacket
    <3> QED
      BY <2>0, <3>1
  <2>3. CASE ~RecvStart /\ ~RecvPacket
    <3>1. rCounter' = rCounter
      BY <1>3, <2>3 DEF Next, vars, SendStart, SendStop, SendPacket, RecvStop, RecvCounterAck,
        SendGreyCounter, RecvStartAck, RecvCounter, LoseForward, LoseBackward, receiverVars
    <3> QED
      BY <2>0, <3>1
  <2> QED
    BY <2>1, <2>2, <2>3
<1>4. Spec => []IInv
  BY IInvAlways
<1> QED
  BY <1>1, <1>2, <1>3, <1>4, PTL DEF Spec, ResetOnlyForNewSession
=============================================================================
