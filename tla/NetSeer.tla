------------------------------ MODULE NetSeer ------------------------------
(***************************************************************************)
(* P4SwitchNetSeer on one direction of the link between two switches.  The *)
(* upstream port numbers the packets it sends and keeps their flows in a   *)
(* ring buffer.  The downstream port notices gaps in the numbers and       *)
(* answers with a NACK of the gap, once.  The upstream port looks the      *)
(* missing numbers up in the ring and passes the flows it finds through    *)
(* the event cache, which aggregates the losses of a flow before they are  *)
(* reported.                                                               *)
(*                                                                         *)
(* A simulator event runs to its end: while the loop of CheckPacketLosses  *)
(* runs (one iteration per step), nothing else happens.  Packets that the  *)
(* traffic manager drops before egress have no number and do not appear.   *)
(* A packet may be lost after egress (gray drop of DoEgressTrafficManager, *)
(* full queue, FlowErrorModel), a NACK anywhere on its way.  Numbers stay  *)
(* below MaxSeq, and so far below the 2^32 of the header's field.          *)
(*                                                                         *)
(* An operator that stands just before a definition and is used nowhere is *)
(* a faulty variant of it, kept to show that the properties notice it.     *)
(***************************************************************************)
EXTENDS Integers, Sequences, FiniteSets, Sums

CONSTANTS
    Flows,         \* five-tuples
    ZeroFlow,      \* the five-tuple of a packet that is not IPv4
    BufferSize,    \* m_bufferSize, the cells of the ring
    CacheSize,     \* m_eventCacheSize
    Hash,          \* the cell of the event cache a flow belongs to
    EventCounter,  \* m_eventCounter
    NackLossy,     \* may a NACK be lost?
    MaxSeq,        \* bound: packets sent
    MaxChan        \* bound: packets in flight

ASSUME NetSeerAssumption ==
    /\ ZeroFlow \in Flows /\ IsFiniteSet(Flows)
    /\ BufferSize \in Nat \ {0} /\ CacheSize \in Nat \ {0}
    /\ EventCounter \in Nat
    /\ Hash \in [Flows -> 0 .. CacheSize - 1]
    /\ NackLossy \in BOOLEAN
    /\ MaxSeq \in Nat /\ MaxChan \in Nat

VARIABLES
    sNext,     \* sender_next_expected_seq of the upstream port
    ring,      \* its ring_buffer
    cache,     \* its event_cache; count is the field seq
    detected,  \* its detected_count
    numDrops,  \* the num_drops of all failure events of a flow, added up
    loop,      \* the loop of CheckPacketLosses: next number, and the end
    rNext,     \* receiver_next_expected_seq of the downstream port
    fwd,       \* numbers of the packets on the link
    bwd,       \* NACKs on the way back, as <<seq1, seq2>>
    flowOf,    \* history: flowOf[s + 1] is the flow of packet s
    lost,      \* history: the packets lost
    found,     \* history: the packets CheckPacketLosses reported
    unasked    \* history: the packets in the gaps of lost NACKs

upstreamVars == <<ring, cache, detected, numDrops>>
historyVars == <<flowOf, lost, found, unasked>>
vars == <<sNext, upstreamVars, loop, rNext, fwd, bwd, historyVars>>

Init ==
    /\ sNext = 0 /\ rNext = 0 /\ detected = 0
    /\ ring = [i \in 0 .. BufferSize - 1 |->
                  [flow |-> ZeroFlow, seq |-> 0, reported |-> FALSE]]
    /\ cache = [c \in 0 .. CacheSize - 1 |-> [flow |-> ZeroFlow, count |-> 0]]
    /\ numDrops = [f \in Flows |-> 0]
    /\ loop = <<0, 0>>
    /\ fwd = <<>> /\ bwd = <<>>
    /\ flowOf = <<>> /\ lost = {} /\ found = {} /\ unasked = {}

EventDone == loop[1] >= loop[2]

-----------------------------------------------------------------------------
(* Egress of the upstream port: a packet gets its number and is saved. *)

SaveFlowKeepFlag(f) ==
    ring' = [ring EXCEPT ![sNext % BufferSize].flow = f,
                         ![sNext % BufferSize].seq = sNext]
SaveFlow(f) ==
    ring' = [ring EXCEPT ![sNext % BufferSize] =
                [flow |-> f, seq |-> sNext, reported |-> FALSE]]

SendPacket ==
    /\ EventDone
    /\ sNext < MaxSeq /\ Len(fwd) < MaxChan
    /\ \E f \in Flows : SaveFlow(f) /\ flowOf' = Append(flowOf, f)
    /\ fwd' = Append(fwd, sNext)
    /\ sNext' = sNext + 1
    /\ UNCHANGED <<cache, detected, numDrops, loop, rNext, bwd, lost, found,
                   unasked>>

-----------------------------------------------------------------------------
(* Ingress of the downstream port. *)

(* The packet after this one is the next, with or without a gap before it. *)
ExpectGoodAgain == rNext' = Head(fwd)
ExpectTwoAfterGap ==
    rNext' = IF Head(fwd) = rNext THEN rNext + 1 ELSE Head(fwd) + 2
ExpectAfter == rNext' = Head(fwd) + 1

NackOfGap == <<rNext, Head(fwd)>>

RecvPacket ==
    /\ EventDone
    /\ fwd # <<>>
    /\ fwd' = Tail(fwd)
    /\ ExpectAfter
    /\ bwd' = IF Head(fwd) # rNext THEN Append(bwd, NackOfGap) ELSE bwd
    /\ UNCHANGED <<sNext, upstreamVars, loop, historyVars>>

-----------------------------------------------------------------------------
(* A NACK at the upstream port: ingress turns it round to egress. *)

RecvNack ==
    /\ EventDone
    /\ bwd # <<>>
    /\ bwd' = Tail(bwd)
    /\ loop' = Head(bwd)
    /\ UNCHANGED <<sNext, upstreamVars, rNext, fwd, historyVars>>

(***************************************************************************)
(* ReportPacket: a loss of the flow in its cell is counted and reported    *)
(* when the count reaches the threshold; a loss of another flow evicts the *)
(* cell and is reported with the count that was there.                     *)
(***************************************************************************)
EvictedCount(c) == cache[c].count
CountWithCurrent(c) == cache[c].count + 1

ReportPacket(f) ==
    LET c == Hash[f]
        same == cache[c].flow = f
        full == cache[c].count + 1 >= EventCounter
    IN  /\ cache' = [cache EXCEPT ![c] =
                        [flow |-> f,
                         count |-> IF same /\ ~full THEN @.count + 1 ELSE 0]]
        /\ numDrops' = [numDrops EXCEPT ![f] =
                           IF ~same \/ full THEN @ + CountWithCurrent(c) ELSE @]

(* The number may have been overwritten, or the packet reported before. *)
InRing(s) ==
    LET cell == ring[s % BufferSize] IN cell.seq = s /\ ~cell.reported

CheckPacketLosses ==
    /\ loop[1] < loop[2]
    /\ loop' = <<loop[1] + 1, loop[2]>>
    /\ \/ /\ InRing(loop[1])
          /\ ring' = [ring EXCEPT ![loop[1] % BufferSize].reported = TRUE]
          /\ detected' = detected + 1
          /\ ReportPacket(ring[loop[1] % BufferSize].flow)
          /\ found' = found \cup {loop[1]}
       \/ /\ ~InRing(loop[1])
          /\ UNCHANGED <<upstreamVars, found>>
    /\ UNCHANGED <<sNext, rNext, fwd, bwd, flowOf, lost, unasked>>

-----------------------------------------------------------------------------
(* Losses on the way; the head stands for any place, as nobody has read it. *)

LosePacket ==
    /\ EventDone
    /\ fwd # <<>>
    /\ fwd' = Tail(fwd)
    /\ lost' = lost \cup {Head(fwd)}
    /\ UNCHANGED <<sNext, upstreamVars, loop, rNext, bwd, flowOf, found,
                   unasked>>

Gap(nack) == nack[1] .. nack[2] - 1

LoseNack ==
    /\ EventDone
    /\ NackLossy /\ bwd # <<>>
    /\ bwd' = Tail(bwd)
    /\ unasked' = unasked \cup Gap(Head(bwd))
    /\ UNCHANGED <<sNext, upstreamVars, loop, rNext, fwd, flowOf, lost, found>>

Next ==
    \/ SendPacket \/ RecvPacket \/ RecvNack \/ CheckPacketLosses
    \/ LosePacket \/ LoseNack

Spec == Init /\ [][Next]_vars

-----------------------------------------------------------------------------
(* Properties *)

(* The types of NetSeerPortInfo's fields and of the messages on the link. *)
TypeOK ==
    /\ sNext \in Nat /\ rNext \in 0 .. sNext /\ detected \in Nat
    /\ ring \in [0 .. BufferSize - 1 ->
                    [flow : Flows, seq : Nat, reported : BOOLEAN]]
    /\ cache \in [0 .. CacheSize - 1 -> [flow : Flows, count : Nat]]
    /\ numDrops \in [Flows -> Nat]
    /\ loop \in Nat \X Nat
    /\ fwd \in Seq(Nat) /\ bwd \in Seq(Nat \X Nat)
    /\ flowOf \in Seq(Flows) /\ Len(flowOf) = sNext
    /\ lost \subseteq Nat /\ found \subseteq Nat /\ unasked \subseteq Nat

(***************************************************************************)
(* A packet reported as lost was lost: no gap of a NACK contains a packet  *)
(* that arrived.                                                           *)
(***************************************************************************)
OnlyRealLosses == found \subseteq lost

(***************************************************************************)
(* A lost packet with a later one that arrived is reported, or is about to *)
(* be, unless its NACK was lost (there is no second one) or the ring has   *)
(* wrapped over its cell.                                                  *)
(***************************************************************************)
NoLossForgotten ==
    \A s \in lost :
        s < rNext =>
            \/ s \in found \cup unasked
            \/ s \in Gap(loop)
            \/ \E i \in DOMAIN bwd : s \in Gap(bwd[i])
            \/ s + BufferSize < sNext

(***************************************************************************)
(* The event cache neither loses nor invents losses, whatever the order in *)
(* which flows evict each other: what the failure events of a cell's flows *)
(* say, and the count still in the cell, add up to the losses found among  *)
(* those flows.                                                            *)
(***************************************************************************)
FlowsOfCell(c) == {f \in Flows : Hash[f] = c}

FoundOf(fs) == Cardinality({s \in found : flowOf[s + 1] \in fs})

EventsConserveLosses ==
    /\ \A c \in 0 .. CacheSize - 1 :
           SumOf([f \in FlowsOfCell(c) |-> numDrops[f]]) + cache[c].count
               = FoundOf(FlowsOfCell(c))
    /\ detected = Cardinality(found)

(***************************************************************************)
(* "if the packet in the cache is the same we increase the counter": the   *)
(* counter is that of the flow in the cell, and no flow is reported with   *)
(* more drops than it had.                                                 *)
(***************************************************************************)
FlowNotOverblamed == \A f \in Flows : numDrops[f] <= FoundOf({f})
=============================================================================
