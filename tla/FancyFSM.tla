------------------------------ MODULE FancyFSM ------------------------------
(***************************************************************************)
(* The counting protocol of P4SwitchFancy between the egress of an         *)
(* upstream switch port (greySend) and the ingress of the downstream port  *)
(* at the other end of the link (greyRecv), for one state machine id:      *)
(*                                                                         *)
(*      sender                                receiver                     *)
(*        | -- START(seq, maxima) ----------->  |   IDLE -> COUNTING       *)
(*        | <------------- START ack(seq) ----  |                          *)
(*        | -- packets tagged (id, seq) ----->  |   counts                 *)
(*        | -- STOP(seq) -------------------->  |   -> WAIT_COUNTER_SEND   *)
(*        | <-------- COUNTER(seq, count) ----  |   -> COUNTER_ACK         *)
(*        | -- COUNTER ack(seq) ------------->  |   -> IDLE                *)
(*                                                                         *)
(* The ids of a port share the link, which is for each of them the FIFO of *)
(* its own messages, and the reroute filter: a filter that holds the path  *)
(* of the all-zero flow stops the sender from reading any SACK or COUNTER. *)
(* Here that is the loss of those messages, while Fairness assumes that it *)
(* does not last; ZoomTree has the filter (ControlPasses).                 *)
(* Kind says which of the three sorts of id this one is.                   *)
(*                                                                         *)
(* Time is abstracted: a pending event may fire at any moment.  Channels   *)
(* are the FIFO directions of one full-duplex link.  A message is lost at  *)
(* the head of its channel: since nothing reads it before, this is the     *)
(* same as losing it when it is queued (gray drop in                       *)
(* DoEgressTrafficManager, full device queue) or when it arrives           *)
(* (FlowErrorModel).                                                       *)
(*                                                                         *)
(* An operator that stands just before a definition and is used nowhere is *)
(* a faulty variant of it (a guard too weak, a reset or a Cancel left out),*)
(* kept to show that the properties notice the fault.                      *)
(***************************************************************************)
EXTENDS Integers, Sequences

CONSTANTS
    Kind,       \* "dedicated": id < m_numTopEntries
                \* "tree":      id = m_numTopEntries, the zooming tree
                \* "wildcard":  id = m_numTopEntries + 1, all traffic
    Lossy,      \* the types of message the link may lose
    SeqMod,     \* FancyHeader::m_seq is a uint16_t: 2^16 in the code
    Word,       \* the counter difference is a uint64_t: 2^64 in the code
    CostType,   \* m_costType: "ABSOLUTE" or "RELATIVE"
    MinCost,    \* m_rerouteMinCost, as the fraction MinCost[1] / MinCost[2]
    Maxima,     \* what a tree may pick as its most affected cell
    HistDepth,  \* m_treeDepth, the length of the history of maxima
    MaxSeq,     \* bound: sessions until Simulator::Stop
    MaxPkts,    \* bound: packets counted in one session
    MaxChan     \* bound: messages in flight on the link

MessageTypes == {"START", "STOP", "CACK", "DATA", "PLAIN", "SACK", "COUNTER"}

ASSUME ConstantsAssumption ==
    /\ Kind \in {"dedicated", "tree", "wildcard"}
    /\ Lossy \subseteq MessageTypes
    /\ SeqMod \in Nat \ {0, 1}
    /\ Word \in Nat \ {0}
    /\ CostType \in {"ABSOLUTE", "RELATIVE"}
    /\ MinCost \in Nat \X (Nat \ {0})
    /\ 0 \in Maxima /\ Maxima \subseteq Nat
    /\ HistDepth \in Nat \ {0}
    /\ MaxSeq \in Nat /\ MaxPkts \in Nat /\ MaxChan \in Nat

VARIABLES
    sState,     \* greySend.greyState[id]
    sSEQ,       \* greySend.currentSEQ[id], a uint32_t that is never reset
    sCounter,   \* greySend.localCounter[id]
    sEvent,     \* what the pending greySend.currentEvent[id] will send
    sMax,       \* max_cells of greySend.counter_tree: [1] is the latest
    rState,     \* greyRecv.greyState[id]
    rSEQ,       \* greyRecv.currentSEQ[id]
    rCounter,   \* greyRecv.localCounter[id]
    rEvent,     \* is greyRecv.currentEvent[id] pending?
    rOrphans,   \* pending SendGreyCounter events that currentEvent[id] no
                \* longer refers to, so that nothing can cancel them
    rMax,       \* max_cells of greyRecv.counter_tree
    fwd,        \* the link, upstream to downstream
    bwd,        \* the link, downstream to upstream
    flagged,    \* reroute_top[id].set
    failures,   \* failures_count, as far as this id adds to it
    report,     \* the drops computed at the last exchange (0 before)
    lost,       \* history: counted packets of this session the link lost
    everLost    \* history: has the link lost any counted packet?

senderVars == <<sState, sSEQ, sCounter, sEvent, sMax>>
receiverVars == <<rState, rSEQ, rCounter, rEvent, rOrphans, rMax>>
verdictVars == <<flagged, failures, report>>
historyVars == <<lost, everLost>>
vars == <<senderVars, receiverVars, fwd, bwd, verdictVars, historyVars>>

(***************************************************************************)
(* A message.  val is the latest maxima of START, the count of COUNTER and,*)
(* in a DATA message, the packet's rank in its session: a history value    *)
(* that no guard below reads.  DATA is a packet the sender counted (and    *)
(* tagged with the session's number unless Kind is "wildcard"), PLAIN one  *)
(* it did not count.                                                       *)
(***************************************************************************)
Message == [type : MessageTypes, seq : 0 .. SeqMod - 1, val : Nat]

Msg(type, seq, val) == [type |-> type, seq |-> seq, val |-> val]

(* FancyHeader::SetSeq takes a uint16_t. *)
SeqUncut == sSEQ
HeaderSeq == sSEQ % SeqMod

HeadIs(chan, type) == chan # <<>> /\ Head(chan).type = type

(* Spontaneous sends stop at MaxChan; replies only replace what they answer. *)
InFlightBound == Len(fwd) + Len(bwd) < MaxChan

Shift(hist, m) == [i \in 1 .. HistDepth |-> IF i = 1 THEN m ELSE hist[i - 1]]

Init ==
    /\ sState = "IDLE" /\ sSEQ = 0 /\ sCounter = 0 /\ sEvent = "START"
    /\ rState = "IDLE" /\ rSEQ = 0 /\ rCounter = 0
    /\ rEvent = FALSE /\ rOrphans = 0
    /\ sMax = [i \in 1 .. HistDepth |-> 0]
    /\ rMax = [i \in 1 .. HistDepth |-> 0]
    /\ fwd = <<>> /\ bwd = <<>>
    /\ flagged = FALSE /\ failures = 0 /\ report = 0
    /\ lost = 0 /\ everLost = FALSE

-----------------------------------------------------------------------------
(* The events of the sender: SendGreyAction with GREY_START and GREY_STOP. *)

(***************************************************************************)
(* The wildcard machine counts at once and schedules its STOP: its START   *)
(* is sent only once.  The others wait for the acknowledgement and         *)
(* schedule themselves again.                                              *)
(***************************************************************************)
SendStart ==
    /\ sEvent = "START"
    /\ sSEQ < MaxSeq /\ InFlightBound
    /\ \/ /\ Kind = "wildcard"
          /\ sState' = "COUNTING"
          /\ sEvent' = "STOP"
          /\ UNCHANGED sCounter
       \/ /\ Kind # "wildcard"
          /\ sState' = "START_ACK"
          /\ sCounter' = 0
          /\ UNCHANGED sEvent
    /\ fwd' = Append(fwd, Msg("START", HeaderSeq, sMax[1]))
    /\ UNCHANGED <<sSEQ, sMax, receiverVars, bwd, verdictVars, historyVars>>

SendStop ==
    /\ sEvent = "STOP"
    /\ InFlightBound
    /\ sState' = "WAIT_COUNTER_RECEIVE"
    /\ fwd' = Append(fwd, Msg("STOP", HeaderSeq, 0))
    /\ UNCHANGED <<sSEQ, sCounter, sEvent, sMax, receiverVars, bwd,
                   verdictVars, historyVars>>

(***************************************************************************)
(* The end of EgressCounterBox: an IPv4 packet leaves by this port.  A     *)
(* packet that is not counted matters to the wildcard receiver only.       *)
(***************************************************************************)
SendPacket ==
    /\ sCounter < MaxPkts /\ rCounter <= MaxPkts /\ InFlightBound
    /\ \/ /\ sState = "COUNTING"
          /\ sCounter' = sCounter + 1
          /\ fwd' = Append(fwd, Msg("DATA", HeaderSeq, sCounter + 1))
       \/ /\ sState # "COUNTING"
          /\ Kind = "wildcard"
          /\ fwd' = Append(fwd, Msg("PLAIN", 0, 0))
          /\ UNCHANGED sCounter
    /\ UNCHANGED <<sState, sSEQ, sEvent, sMax, receiverVars, bwd, verdictVars,
                   historyVars>>

-----------------------------------------------------------------------------
(* The receiver: IngressCounterBox, and the SendGreyCounter event. *)

(* A START is taken in every state but WAIT_COUNTER_SEND. *)
StartTakenWhenExpected == rState \in {"IDLE", "COUNTING"}
StartAccepted == rState \in {"IDLE", "COUNTING", "COUNTER_ACK"}

(* The shift_history argument of PipelinedInitReceiverStep. *)
ShiftsAlways == TRUE
ShiftsHistory == rState # "COUNTING"

KeepCounter == UNCHANGED rCounter
ResetCounter == rCounter' = 0

AdoptSessionUnlessWaiting ==
    rSEQ' = IF rState = "COUNTER_ACK" THEN rSEQ ELSE Head(fwd).seq
AdoptSession == rSEQ' = Head(fwd).seq

RecvStart ==
    /\ HeadIs(fwd, "START")
    /\ fwd' = Tail(fwd)
    /\ \/ /\ StartAccepted
          /\ rState' = "COUNTING"
          /\ AdoptSession
          /\ ResetCounter
          /\ rMax' = IF Kind = "tree" /\ ShiftsHistory
                     THEN Shift(rMax, Head(fwd).val) ELSE rMax
          /\ bwd' = Append(bwd, Msg("SACK", Head(fwd).seq, 0))
       \/ /\ ~StartAccepted
          /\ UNCHANGED <<rState, rSEQ, rCounter, rMax, bwd>>
    /\ UNCHANGED <<senderVars, rEvent, rOrphans, verdictVars, historyVars>>

(* currentEvent[id] = Simulator::Schedule(... SendGreyCounter ...) *)
ScheduleCounter ==
    /\ rOrphans' = IF rEvent THEN rOrphans + 1 ELSE rOrphans
    /\ rEvent' = TRUE

StopInAnyState == rSEQ = Head(fwd).seq
StopAccepted == rState = "COUNTING" /\ rSEQ = Head(fwd).seq

RecvStop ==
    /\ HeadIs(fwd, "STOP")
    /\ fwd' = Tail(fwd)
    /\ \/ /\ StopAccepted
          /\ rState' = "WAIT_COUNTER_SEND"
          /\ ScheduleCounter
       \/ /\ ~StopAccepted
          /\ UNCHANGED <<rState, rEvent, rOrphans>>
    /\ UNCHANGED <<senderVars, rSEQ, rCounter, rMax, bwd, verdictVars,
                   historyVars>>

(* Simulator::Cancel(currentEvent[id]) *)
ForgetCounterEvent == UNCHANGED rEvent
CancelCounter == rEvent' = FALSE

CounterAckAccepted == rState = "COUNTER_ACK" /\ rSEQ = Head(fwd).seq

RecvCounterAck ==
    /\ HeadIs(fwd, "CACK")
    /\ fwd' = Tail(fwd)
    /\ \/ /\ CounterAckAccepted
          /\ rState' = "IDLE"
          /\ CancelCounter
       \/ /\ ~CounterAckAccepted
          /\ UNCHANGED <<rState, rEvent>>
    /\ UNCHANGED <<senderVars, rSEQ, rCounter, rOrphans, rMax, bwd,
                   verdictVars, historyVars>>

(***************************************************************************)
(* A packet arrives.  The wildcard machine counts every packet, the others *)
(* those whose tag carries the number of the session.                      *)
(***************************************************************************)
CountsUnlessIdle(m) == rState # "IDLE"

Counts(m) ==
    /\ rState = "COUNTING"
    /\ Kind # "wildcard" => m.seq = rSEQ

RecvPacket ==
    /\ HeadIs(fwd, "DATA") \/ HeadIs(fwd, "PLAIN")
    /\ fwd' = Tail(fwd)
    /\ rCounter' = IF Counts(Head(fwd)) THEN rCounter + 1 ELSE rCounter
    /\ UNCHANGED <<senderVars, rState, rSEQ, rEvent, rOrphans, rMax, bwd,
                   verdictVars, historyVars>>

(***************************************************************************)
(* SendGreyCounter sends the counter, moves to COUNTER_ACK whatever the    *)
(* state was, and schedules itself again.  The event that fires is the one *)
(* currentEvent[id] refers to, or an orphan.                               *)
(***************************************************************************)
OrphanPending == rOrphans > 0

SendGreyCounter ==
    /\ InFlightBound
    /\ \/ rEvent /\ UNCHANGED rOrphans
       \/ /\ OrphanPending
          /\ rOrphans' = IF rEvent THEN rOrphans ELSE rOrphans - 1
    /\ rEvent' = TRUE
    /\ rState' = "COUNTER_ACK"
    /\ bwd' = Append(bwd, Msg("COUNTER", rSEQ, rCounter))
    /\ UNCHANGED <<senderVars, rSEQ, rCounter, rMax, fwd, verdictVars,
                   historyVars>>

-----------------------------------------------------------------------------
(* The sender's state machine: the messages with the FSM flag, which       *)
(* IngressCounterBox turns round to EgressCounterBox.                      *)

StartAckAccepted == sState = "START_ACK" /\ sSEQ = Head(bwd).seq

(* Simulator::Cancel of the repeated START, Schedule of the STOP. *)
KeepRepeatingStart == UNCHANGED sEvent
ScheduleStop == sEvent' = "STOP"

RecvStartAck ==
    /\ HeadIs(bwd, "SACK")
    /\ bwd' = Tail(bwd)
    /\ \/ /\ StartAckAccepted
          /\ sState' = "COUNTING"
          /\ ScheduleStop
       \/ /\ ~StartAckAccepted
          /\ UNCHANGED <<sState, sEvent>>
    /\ UNCHANGED <<sSEQ, sCounter, sMax, receiverVars, fwd, verdictVars,
                   historyVars>>

(***************************************************************************)
(* The counter of this session: compare, report, reset, acknowledge, and   *)
(* schedule the next START.  The difference is unsigned.                   *)
(***************************************************************************)
DropsReversed(remote) == (remote - sCounter) % Word
Drops(remote) == (sCounter - remote) % Word

(***************************************************************************)
(* cost > m_rerouteMinCost.  The relative cost of some drops among no      *)
(* counted packets is infinite in floating point, and exceeds.             *)
(***************************************************************************)
ReachesMinCost(drops) ==
    drops * MinCost[2] >=
        MinCost[1] * (IF CostType = "ABSOLUTE" THEN 1 ELSE sCounter)

ExceedsMinCost(drops) ==
    drops * MinCost[2] >
        MinCost[1] * (IF CostType = "ABSOLUTE" THEN 1 ELSE sCounter)

CounterAnySession == sState = "WAIT_COUNTER_RECEIVE"

CounterAccepted ==
    sState = "WAIT_COUNTER_RECEIVE" /\ sSEQ = Head(bwd).seq

Exchange ==
    /\ report' = Drops(Head(bwd).val)
    /\ flagged' = (flagged \/ (Kind # "tree" /\ ExceedsMinCost(report')))
    /\ failures' = IF Kind = "dedicated" /\ ExceedsMinCost(report')
                   THEN failures + 1 ELSE failures
    /\ sState' = "IDLE"
    /\ sSEQ' = sSEQ + 1
    /\ sCounter' = 0
    /\ sEvent' = "START"
    /\ IF Kind = "tree" THEN \E m \in Maxima : sMax' = Shift(sMax, m)
                        ELSE UNCHANGED sMax
    /\ lost' = 0
    /\ UNCHANGED everLost

(***************************************************************************)
(* In IDLE a counter is acknowledged again ("the ack for the last counter  *)
(* was lost"), unless it comes from a tree: its action is                  *)
(* GREY_COUNTER | MULTIPLE_COUNTERS, which is not GREY_COUNTER.            *)
(***************************************************************************)
ReacksCounter == sState = "IDLE" /\ Kind # "tree" /\ sSEQ >= Head(bwd).seq

RecvCounter ==
    /\ HeadIs(bwd, "COUNTER")
    /\ bwd' = Tail(bwd)
    /\ \/ /\ CounterAccepted
          /\ Exchange
       \/ /\ ~CounterAccepted
          /\ UNCHANGED <<senderVars, verdictVars, historyVars>>
    /\ fwd' = IF CounterAccepted \/ ReacksCounter
              THEN Append(fwd, Msg("CACK", Head(bwd).seq, 0)) ELSE fwd
    /\ UNCHANGED receiverVars

-----------------------------------------------------------------------------
(* The link loses the message at the head of one of its directions. *)

LoseForward ==
    /\ fwd # <<>> /\ Head(fwd).type \in Lossy
    /\ fwd' = Tail(fwd)
    /\ IF HeadIs(fwd, "DATA")
       THEN /\ lost' = IF Head(fwd).seq = HeaderSeq THEN lost + 1 ELSE lost
            /\ everLost' = TRUE
       ELSE UNCHANGED historyVars
    /\ UNCHANGED <<senderVars, receiverVars, bwd, verdictVars>>

LoseBackward ==
    /\ bwd # <<>> /\ Head(bwd).type \in Lossy
    /\ bwd' = Tail(bwd)
    /\ UNCHANGED <<senderVars, receiverVars, fwd, verdictVars, historyVars>>

Next ==
    \/ SendStart \/ SendStop \/ SendPacket
    \/ RecvStart \/ RecvStop \/ RecvCounterAck \/ RecvPacket \/ SendGreyCounter
    \/ RecvStartAck \/ RecvCounter
    \/ LoseForward \/ LoseBackward

Spec == Init /\ [][Next]_vars

(***************************************************************************)
(* The simulator fires every event it has scheduled, and a link that loses *)
(* messages does not lose every copy of one that is sent again and again.  *)
(* Both are strong fairness: a copy may be lost in between, and an event   *)
(* may find the link at the bound MaxChan, which the code does not have.   *)
(* For SACK and COUNTER it also says that the reroute filter does not hold *)
(* the path of the all-zero flow, which would stop them all for good.      *)
(* Nothing is assumed of the traffic, except that a packet on the link     *)
(* arrives or is lost.                                                     *)
(***************************************************************************)
Fairness ==
    /\ SF_vars(SendStart) /\ SF_vars(SendStop) /\ SF_vars(SendGreyCounter)
    /\ SF_vars(RecvStart) /\ SF_vars(RecvStop) /\ SF_vars(RecvCounterAck)
    /\ SF_vars(RecvStartAck) /\ SF_vars(RecvCounter)
    /\ WF_vars(RecvPacket)

FairSpec == Spec /\ Fairness

-----------------------------------------------------------------------------
(* Properties *)


(* The types of GreyInfo's fields and of the messages on the link. *)
TypeOK ==
    /\ sState \in {"IDLE", "START_ACK", "COUNTING", "WAIT_COUNTER_RECEIVE"}
    /\ rState \in {"IDLE", "COUNTING", "WAIT_COUNTER_SEND", "COUNTER_ACK"}
    /\ sSEQ \in Nat /\ rSEQ \in 0 .. SeqMod - 1
    /\ sCounter \in Nat /\ rCounter \in Nat
    /\ sEvent \in {"START", "STOP"}
    /\ rEvent \in BOOLEAN /\ rOrphans \in Nat
    /\ sMax \in [1 .. HistDepth -> Maxima]
    /\ rMax \in [1 .. HistDepth -> Nat]
    /\ fwd \in Seq(Message) /\ bwd \in Seq(Message)
    /\ flagged \in BOOLEAN /\ failures \in Nat /\ report \in Nat
    /\ lost \in Nat /\ everLost \in BOOLEAN

(***************************************************************************)
(* The START handshake: from the moment the sender counts until it has     *)
(* compared the counters, both ends are in the same session, whatever the  *)
(* link loses and however often START is repeated.                         *)
(***************************************************************************)
SessionsAgree ==
    sState \in {"COUNTING", "WAIT_COUNTER_RECEIVE"} => rSEQ = sSEQ

(***************************************************************************)
(* No counter on its way to the sender for the current session exceeds     *)
(* what the sender counted: local_counter - remote_counter, an unsigned    *)
(* subtraction in EgressCounterBox, does not wrap round to a huge loss.    *)
(***************************************************************************)
NoUnderflow ==
    \A i \in DOMAIN bwd :
        bwd[i].type = "COUNTER" /\ bwd[i].seq = sSEQ => bwd[i].val <= sCounter

(***************************************************************************)
(* The counter the sender is about to compare accounts for every packet it *)
(* counted: what arrived plus what the link lost.  So the drops it reports *)
(* are the drops of this session, neither fewer nor more.                  *)
(***************************************************************************)
CountersExact ==
    sState = "WAIT_COUNTER_RECEIVE" =>
        \A i \in DOMAIN bwd :
            bwd[i].type = "COUNTER" /\ bwd[i].seq = sSEQ
                => bwd[i].val + lost = sCounter

(***************************************************************************)
(* STOP is repeated until the counter arrives, and Schedule overwrites     *)
(* currentEvent[id] without a Cancel, so each session may leave a chain of *)
(* SendGreyCounter events behind.  It leaves no more than one: however     *)
(* often a STOP is repeated, there are never more chains pending than      *)
(* sessions the receiver has been in (while m_seq has not wrapped round).  *)
(***************************************************************************)
PendingCounters == rOrphans + (IF rEvent THEN 1 ELSE 0)

EventsBounded == sSEQ < SeqMod => PendingCounters <= rSEQ + 1

(* A failure is flagged (reroute_top[id].set) only if the link lost a packet. *)
NoFalseAlarm == flagged => everLost

(***************************************************************************)
(* A tagged packet that the receiver counts is counted with the history of *)
(* maxima the sender counted it with: both ends increment the same cells   *)
(* of their trees (PipelinedPacketCounting walks down by max_cells).       *)
(***************************************************************************)
SameHistory ==
    HeadIs(fwd, "DATA") /\ Counts(Head(fwd)) => rMax = sMax

(***************************************************************************)
(* A repeated START ("the ack was lost") never erases packets the receiver *)
(* has already counted in that session.                                    *)
(***************************************************************************)
ResetOnlyForNewSession ==
    [][rCounter' < rCounter => rSEQ' # rSEQ]_<<rCounter, rSEQ>>

(***************************************************************************)
(* "does not listen to anything, if we are here it means that the packet   *)
(* was not send yet": while the receiver waits to send its counter, no     *)
(* counter of this session is on its way.                                  *)
(***************************************************************************)
CounterNotSentYet ==
    rState = "WAIT_COUNTER_SEND" =>
        \A i \in DOMAIN bwd : bwd[i].type = "COUNTER" => bwd[i].seq # rSEQ

(***************************************************************************)
(* "we only shift the max history the first time we receive the Init       *)
(* signal": a START of the session the receiver is in leaves its history   *)
(* alone.                                                                  *)
(***************************************************************************)
ShiftOncePerSession == [][rMax' # rMax => rSEQ' # rSEQ]_rMax

(***************************************************************************)
(* The protocol implements a loss meter: every session reports exactly the *)
(* packets the link lost in it, no packet is counted or lost outside a     *)
(* session, and the entry is flagged at the end of the first session whose *)
(* real loss exceeds the threshold, not before and not otherwise.          *)
(***************************************************************************)
Meter == INSTANCE LossMeter
             WITH session <- sSEQ, sent <- sCounter, Alarms <- Kind # "tree"

ImplementsMeter == Meter!Spec

(***************************************************************************)
(* Every session whose number fits the header is brought to its end:       *)
(* START, STOP and COUNTER are sent again until the state machine cancels  *)
(* them, and it does.                                                      *)
(***************************************************************************)
SessionsComplete ==
    \A s \in {s \in 0 .. MaxSeq - 1 : s < SeqMod} : (sSEQ = s) ~> (sSEQ = s + 1)
=============================================================================
