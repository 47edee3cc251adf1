---------------------------- MODULE LinkMonitor ----------------------------
(***************************************************************************)
(* The keep-alive protocol of P4SwitchFancy for one direction of a link:   *)
(* SendProbe at the upstream port fills silences of the traffic with       *)
(* keep-alive packets, CheckPortState at the downstream port declares the  *)
(* link down when it has heard nothing for longer than the check period,   *)
(* and up again when it has.                                               *)
(*                                                                         *)
(* Time is discrete and explicit.  The code compares differences of        *)
(* instants only, so the state holds ages and remaining times instead of   *)
(* instants.  Events due at the same instant happen in any order.  Packets *)
(* cross an idle link in LinkDelay ticks.                                  *)
(*                                                                         *)
(* Three things disturb the probes: the link may be down, it may lose      *)
(* single packets, and with TmDropRate > 0 the traffic manager drops       *)
(* keep-alive packets as it drops traffic, before they count as sent.      *)
(*                                                                         *)
(* An operator that stands just before a definition and is used nowhere is *)
(* a faulty variant of it, kept to show that the properties notice it.     *)
(***************************************************************************)
EXTENDS Integers

CONSTANTS
    CheckPortStateMs,  \* m_check_port_state_ms
    TicksPerMs,        \* resolution of the model's clock
    LinkDelay,         \* delay of the channel between the switches, in ticks
    StartDelay         \* m_start_system_sec, in ticks: the first check

(***************************************************************************)
(* m_send_port_state_ms is half of m_check_port_state_ms, and the whole    *)
(* milliseconds of it once MilliSeconds(uint64_t) has taken it.            *)
(***************************************************************************)
CheckDelay == CheckPortStateMs * TicksPerMs

SameAsCheckDelay == CheckPortStateMs * TicksPerMs
ProbeDelay == (CheckPortStateMs \div 2) * TicksPerMs

(* The first probe is sent, and has arrived, when the first check is made. *)
ASSUME LinkAssumption ==
    /\ CheckPortStateMs \in Nat \ {0, 1}
    /\ TicksPerMs \in Nat \ {0}
    /\ LinkDelay \in Nat
    /\ StartDelay \in Nat
    /\ ProbeDelay + LinkDelay < StartDelay

VARIABLES
    sentAge,    \* Now() - last_time_sent of the upstream port
    recvAge,    \* Now() - last_time_received of the downstream port
    probeIn,    \* time until the next SendProbe
    checkIn,    \* time until the next CheckPortState
    flight,     \* remaining delays of the packets on the link
    linkState,  \* the downstream port's linkState
    cut,        \* environment: is the link down (LinkDown)?
    stable,     \* history: for how long has cut not changed and, if the
                \* link is up, no probe been dropped and no packet lost?
    faults,     \* history: what has gone wrong so far
    checked     \* history: has CheckPortState ever run?

Faults == {"down", "congestion", "loss"}

vars == <<sentAge, recvAge, probeIn, checkIn, flight, linkState, cut, stable,
          faults, checked>>

(* Longer ages than these are not told apart by the code or the properties. *)
SentHorizon == 2 * ProbeDelay
RecvHorizon == 2 * CheckDelay + 1
StableHorizon == 2 * CheckDelay + 2 * ProbeDelay + LinkDelay + 1

Older(age, horizon) == IF age < horizon THEN age + 1 ELSE age

(* SendProbe is called, and its own repetition scheduled, by Init. *)
Init ==
    /\ sentAge = 0 /\ recvAge = 0
    /\ probeIn = ProbeDelay /\ checkIn = StartDelay
    /\ flight = {}
    /\ linkState = TRUE
    /\ cut = FALSE /\ stable = StableHorizon /\ faults = {} /\ checked = FALSE

(* A packet leaves: last_time_sent changes even if the device is down. *)
Transmit ==
    /\ sentAge' = 0
    /\ flight' = IF cut THEN flight ELSE flight \cup {LinkDelay}

(***************************************************************************)
(* A packet that the traffic manager or a gray failure of the egress drops *)
(* changes nothing here: last_time_sent is set behind both.                *)
(***************************************************************************)
SendTraffic ==
    /\ Transmit
    /\ UNCHANGED <<recvAge, probeIn, checkIn, linkState, cut, stable, faults,
                   checked>>

SilentForLonger == sentAge > ProbeDelay
NoTrafficSent == sentAge >= ProbeDelay

Fault(kind) ==
    /\ faults' = faults \cup {kind}
    /\ stable' = IF cut THEN stable ELSE 0

(* DoTrafficManager: KEEP_ALIVE is action 0, as in packets without header. *)
TmDrop == Fault("congestion") /\ UNCHANGED <<sentAge, flight>>

SendProbe ==
    /\ probeIn = 0
    /\ probeIn' = ProbeDelay
    /\ \/ NoTrafficSent /\ Transmit /\ UNCHANGED <<stable, faults>>
       \/ NoTrafficSent /\ TmDrop
       \/ ~NoTrafficSent /\ UNCHANGED <<sentAge, flight, stable, faults>>
    /\ UNCHANGED <<recvAge, checkIn, linkState, cut, checked>>

(***************************************************************************)
(* The first lines of IngressCounterBox, for every packet that arrives; a  *)
(* device that is down drops it instead.                                   *)
(***************************************************************************)
Receive ==
    /\ 0 \in flight
    /\ flight' = flight \ {0}
    /\ recvAge' = IF cut THEN recvAge ELSE 0
    /\ UNCHANGED <<sentAge, probeIn, checkIn, linkState, cut, stable, faults,
                   checked>>

(* The error model of a working link corrupts a packet. *)
LoseOnLink ==
    /\ ~cut /\ 0 \in flight
    /\ flight' = flight \ {0}
    /\ Fault("loss")
    /\ UNCHANGED <<sentAge, recvAge, probeIn, checkIn, linkState, cut, checked>>

SilentForTwice == recvAge > 2 * CheckDelay
NothingReceived == recvAge > CheckDelay

ReceivedJustNow == recvAge < ProbeDelay - 1
ReceivedAgain == recvAge < CheckDelay

CheckPortState ==
    /\ checkIn = 0
    /\ checkIn' = CheckDelay /\ checked' = TRUE
    /\ linkState' = ((linkState /\ ~NothingReceived) \/
                     (~linkState /\ ReceivedAgain))
    /\ UNCHANGED <<sentAge, recvAge, probeIn, flight, cut, stable, faults>>

Tick ==
    /\ probeIn > 0 /\ checkIn > 0 /\ 0 \notin flight
    /\ sentAge' = Older(sentAge, SentHorizon)
    /\ recvAge' = Older(recvAge, RecvHorizon)
    /\ probeIn' = probeIn - 1 /\ checkIn' = checkIn - 1
    /\ flight' = {d - 1 : d \in flight}
    /\ stable' = Older(stable, StableHorizon)
    /\ UNCHANGED <<linkState, cut, faults, checked>>

(* Both devices stop sending and receiving. *)
LinkDown ==
    /\ ~cut
    /\ cut' = TRUE /\ faults' = faults \cup {"down"} /\ stable' = 0
    /\ UNCHANGED <<sentAge, recvAge, probeIn, checkIn, flight, linkState,
                   checked>>

LinkUp ==
    /\ cut
    /\ cut' = FALSE /\ stable' = 0
    /\ UNCHANGED <<sentAge, recvAge, probeIn, checkIn, flight, linkState,
                   faults, checked>>

Next ==
    \/ SendTraffic \/ SendProbe \/ Receive \/ LoseOnLink \/ CheckPortState \/ Tick
    \/ LinkDown \/ LinkUp

Spec == Init /\ [][Next]_vars

-----------------------------------------------------------------------------
(* Properties *)

(***************************************************************************)
(* Types.  The range of sentAge is what the probes achieve: the upstream   *)
(* port is silent for two probe periods only if the traffic manager        *)
(* dropped a probe.                                                        *)
(***************************************************************************)
TypeOK ==
    /\ sentAge \in 0 .. SentHorizon /\ recvAge \in 0 .. RecvHorizon
    /\ sentAge = SentHorizon => "congestion" \in faults
    /\ probeIn \in 0 .. ProbeDelay
    /\ checkIn \in Nat
    /\ flight \subseteq 0 .. LinkDelay
    /\ linkState \in BOOLEAN /\ cut \in BOOLEAN
    /\ faults \subseteq Faults /\ checked \in BOOLEAN
    /\ stable \in 0 .. StableHorizon

(***************************************************************************)
(* While nothing has gone wrong CheckPortState never declares the link     *)
(* down, however the traffic comes and goes between two probes and         *)
(* whatever the phase of the checks: half a check period is short enough   *)
(* for the probes, though a packet sent just before a probe suppresses it. *)
(***************************************************************************)
NoFalseLinkFailure == faults = {} => linkState

(***************************************************************************)
(* Once the checks have begun, a link that stays down is declared down     *)
(* within two check periods, even if a check falls on the instant at which *)
(* the silence is exactly one period long and neither test of              *)
(* CheckPortState holds.                                                   *)
(***************************************************************************)
DetectedInTime ==
    checked /\ cut /\ stable > 2 * CheckDelay => ~linkState

(***************************************************************************)
(* CheckPortState has the link up within the longest silence of the        *)
(* upstream port, the delay of the link and one check period after the     *)
(* repair of the link, the last probe dropped or the last packet lost: a   *)
(* false alarm does not outlive what caused it.                            *)
(***************************************************************************)
RestoredInTime ==
    ~cut /\ stable > 2 * ProbeDelay + LinkDelay + CheckDelay => linkState
=============================================================================
