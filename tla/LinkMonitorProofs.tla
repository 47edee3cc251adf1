------------------------- MODULE LinkMonitorProofs -------------------------
(***************************************************************************)
(* The four invariants of LinkMonitor, for every check period, clock       *)
(* resolution, link delay and starting time.                               *)
(*                                                                         *)
(* The argument follows the packets.  A port is never silent for two probe *)
(* periods (Busy), unless it is Muted by a dropped probe.  Place the       *)
(* packets of the link at their remaining delays and the last one received *)
(* at minus its age: each of them is either the newest packet sent or has  *)
(* another less than two probe periods behind it (Regular).  So while the  *)
(* link is Flowing, recvAge is below two probe periods, which is at most   *)
(* one check period.  Until the first packet after the start, or after a   *)
(* fault, has arrived the link is not Flowing; Fed bounds for how long.    *)
(***************************************************************************)
EXTENDS LinkMonitor, TLAPS

(* Probes were dropped, the last one not long ago. *)
Muted ==
    /\ "congestion" \in faults
    /\ ~cut => stable <= sentAge /\ stable + probeIn <= 2 * ProbeDelay - 1

(* The silence of the upstream port ends at the next probe but one. *)
Talking == sentAge + probeIn <= 2 * ProbeDelay - 1

Busy == Talking \/ Muted

(* x, a packet's place, is the newest one's or has a successor near. *)
Regular(x) ==
    \/ x = LinkDelay - sentAge
    \/ \E y \in flight : x < y /\ y < x + 2 * ProbeDelay

Flowing ==
    /\ Regular(0 - recvAge)
    /\ \A x \in flight : Regular(x)

(* y was sent after the start or the fault, and all that follow it. *)
Underway(y) == \A x \in flight : y <= x => Regular(x)

(* Before the first check: the first probe is due, or sent and not late. *)
Starting ==
    /\ ~checked
    /\ \/ sentAge + probeIn = ProbeDelay /\ sentAge + checkIn = StartDelay
       \/ \E y \in flight : Underway(y) /\ y < checkIn

(* After a fault: nothing was sent since, or a packet is underway. *)
Recovering ==
    /\ faults # {}
    /\ \/ stable <= sentAge
       \/ \E y \in flight :
              Underway(y) /\ y + stable <= 2 * ProbeDelay - 1 + LinkDelay

Fed == ~cut => Flowing \/ Recovering \/ (faults = {} /\ Starting)

(* The age of the last packet is at least the time the link has been down. *)
Starved ==
    /\ cut => faults # {} /\ (stable <= recvAge \/ recvAge = RecvHorizon)
    /\ ~linkState => faults # {} /\ checked
    /\ checked => checkIn <= CheckDelay

(* How much of the time for a detection, or after a fault, is left. *)
Deadlines ==
    /\ checked /\ cut /\ linkState => stable + checkIn <= 2 * CheckDelay
    /\ ~cut /\ ~linkState =>
           stable + checkIn <= 2 * ProbeDelay + LinkDelay + CheckDelay

IInv == TypeOK /\ Busy /\ Fed /\ Starved /\ Deadlines

-----------------------------------------------------------------------------
(* What the proofs use of the two delays: probes are twice as frequent as   *)
(* checks, or more.                                                         *)
LEMMA Delays ==
    /\ CheckDelay \in Int /\ ProbeDelay \in Int
    /\ 0 < ProbeDelay /\ 2 * ProbeDelay <= CheckDelay
<1> DEFINE h == CheckPortStateMs \div 2
<1>1. h \in Int /\ 1 <= h /\ 2 * h <= CheckPortStateMs
  BY LinkAssumption
<1>2. \A a, b, t \in Int : 0 < t /\ a <= b => a * t <= b * t
  BY SMT
<1>3. (2 * h) * TicksPerMs <= CheckPortStateMs * TicksPerMs
  BY <1>1, <1>2, LinkAssumption
<1>4. 1 * TicksPerMs <= h * TicksPerMs
  BY <1>1, <1>2, LinkAssumption
<1>5. (2 * h) * TicksPerMs = 2 * (h * TicksPerMs)
  BY <1>1, LinkAssumption
<1>6. h * TicksPerMs \in Int /\ CheckPortStateMs * TicksPerMs \in Int
  BY <1>1, LinkAssumption
<1>7. ProbeDelay = h * TicksPerMs
  BY DEF ProbeDelay
<1> HIDE DEF h
<1> QED
  BY <1>3, <1>4, <1>5, <1>6, <1>7, LinkAssumption DEF CheckDelay

(* The numbers of the other bounds. *)
LEMMA Horizons ==
    /\ LinkDelay \in Int /\ 0 <= LinkDelay
    /\ StartDelay \in Int /\ ProbeDelay + LinkDelay < StartDelay
    /\ SentHorizon \in Int /\ SentHorizon = 2 * ProbeDelay
    /\ RecvHorizon \in Int /\ RecvHorizon = 2 * CheckDelay + 1
    /\ StableHorizon \in Int
    /\ StableHorizon = 2 * CheckDelay + 2 * ProbeDelay + LinkDelay + 1
BY Delays, LinkAssumption DEF SentHorizon, RecvHorizon, StableHorizon

(* What Older does to an age within its horizon. *)
LEMMA OlderFacts ==
    ASSUME NEW horizon \in Int, NEW age \in 0 .. horizon
    PROVE  /\ Older(age, horizon) \in 0 .. horizon
           /\ Older(age, horizon) = age + 1 \/
              (age = horizon /\ Older(age, horizon) = age)
BY DEF Older

-----------------------------------------------------------------------------
(* While packets flow, the last one is younger than two probe periods. *)
LEMMA FlowingIsFresh ==
    ASSUME TypeOK, Talking, Flowing
    PROVE  recvAge <= 2 * ProbeDelay - 1
<1>1. /\ sentAge \in Int /\ recvAge \in Int /\ probeIn \in Int
      /\ 0 <= probeIn /\ 0 <= sentAge
      /\ \A y \in flight : y \in Int /\ 0 <= y
  BY Delays, Horizons DEF TypeOK
<1>2. CASE 0 - recvAge = LinkDelay - sentAge
  BY <1>1, <1>2, Delays, Horizons DEF Talking
<1>3. CASE \E y \in flight : 0 - recvAge < y /\ y < 0 - recvAge + 2 * ProbeDelay
  BY <1>1, <1>3, Delays
<1> QED
  BY <1>2, <1>3 DEF Flowing, Regular

(* The first packet has arrived when the first check is made. *)
LEMMA StartingNotDue ==
    ASSUME TypeOK, checkIn = 0
    PROVE  ~Starting
<1>1. /\ sentAge \in Int /\ probeIn \in Int /\ 0 <= probeIn
      /\ \A y \in flight : y \in Int /\ 0 <= y
  BY Delays, Horizons DEF TypeOK
<1>2. ~(sentAge + probeIn = ProbeDelay /\ sentAge + checkIn = StartDelay)
  BY <1>1, Delays, Horizons
<1>3. ~(\E y \in flight : y < checkIn)
  BY <1>1
<1> QED
  BY <1>2, <1>3 DEF Starting

(* Without a repair to wait for, a check finds the link Flowing. *)
LEMMA FedAtCheck ==
    ASSUME TypeOK, Busy, Fed, ~cut, checkIn = 0
    PROVE  \/ recvAge <= 2 * ProbeDelay - 1
           \/ faults # {} /\ stable <= 2 * ProbeDelay - 1 + LinkDelay
<1>1. /\ sentAge \in Int /\ probeIn \in Int /\ stable \in Int
      /\ 0 <= probeIn
      /\ \A y \in flight : y \in Int /\ 0 <= y
  BY Delays, Horizons DEF TypeOK
<1>5. CASE Muted
  BY <1>1, <1>5, Delays, Horizons DEF Muted
<1>2. CASE Talking /\ Flowing
  BY <1>2, FlowingIsFresh
<1>3. CASE Talking /\ Recovering
  <2>1. CASE stable <= sentAge
    BY <1>1, <1>3, <2>1, Delays, Horizons DEF Talking, Recovering
  <2>2. CASE \E y \in flight : y + stable <= 2 * ProbeDelay - 1 + LinkDelay
    BY <1>1, <1>3, <2>2, Delays, Horizons DEF Recovering
  <2> QED
    BY <1>3, <2>1, <2>2 DEF Recovering
<1>4. ~Starting
  BY StartingNotDue
<1> QED
  BY <1>2, <1>3, <1>4, <1>5 DEF Fed, Busy

-----------------------------------------------------------------------------
(* The initial state. *)
LEMMA IInvInit == Init => IInv
<1> SUFFICES ASSUME Init PROVE IInv
  OBVIOUS
<1>1. TypeOK
  <2>1. /\ sentAge \in 0 .. SentHorizon /\ recvAge \in 0 .. RecvHorizon
        /\ sentAge # SentHorizon
        /\ probeIn \in 0 .. ProbeDelay /\ checkIn \in Nat
        /\ flight \subseteq 0 .. LinkDelay
    BY Delays, Horizons DEF Init
  <2>2. stable \in 0 .. StableHorizon
    BY Delays, Horizons DEF Init
  <2> QED
    BY <2>1, <2>2 DEF Init, TypeOK
<1>2. Busy
  BY Delays DEF Init, Busy, Talking
<1>3. Starting /\ faults = {}
  BY Delays, Horizons DEF Init, Starting
<1>4. Starved /\ Deadlines
  BY DEF Init, Starved, Deadlines
<1> QED
  BY <1>1, <1>2, <1>3, <1>4 DEF IInv, Fed

(***************************************************************************)
(* A packet that leaves keeps the places regular: the one that was newest  *)
(* is less than two probe periods ahead of it.                             *)
(***************************************************************************)
LEMMA TransmitRegular ==
    ASSUME TypeOK, ~cut, Transmit
    PROVE  /\ LinkDelay \in flight'
           /\ Regular(LinkDelay)'
           /\ Talking => \A x \in Int : Regular(x) => Regular(x)'
<1>1. /\ sentAge \in Int /\ 0 <= sentAge
      /\ Talking => sentAge <= 2 * ProbeDelay - 1
  BY Delays, Horizons DEF TypeOK, Talking
<1>2. sentAge' = 0 /\ flight' = flight \cup {LinkDelay}
  BY DEF Transmit
<1>3. Regular(LinkDelay)'
  BY <1>2, Horizons DEF Regular
<1>4. ASSUME Talking, NEW x \in Int, Regular(x)
      PROVE  Regular(x)'
  <2>1. CASE x = LinkDelay - sentAge /\ sentAge = 0
    BY <1>2, <2>1, Horizons DEF Regular
  <2>2. CASE x = LinkDelay - sentAge /\ sentAge # 0
    <3>1. x < LinkDelay /\ LinkDelay < x + 2 * ProbeDelay
      BY <1>1, <1>4, <2>2, Horizons, Delays
    <3> QED
      BY <1>2, <3>1 DEF Regular
  <2>3. CASE \E y \in flight : x < y /\ y < x + 2 * ProbeDelay
    BY <1>2, <2>3 DEF Regular
  <2> QED
    BY <1>4, <2>1, <2>2, <2>3 DEF Regular
<1> QED
  BY <1>2, <1>3, <1>4

(***************************************************************************)
(* A transmission, by traffic or by a probe, keeps the link fed.           *)
(***************************************************************************)
LEMMA TransmitFed ==
    ASSUME TypeOK, Busy, Fed, Transmit,
           UNCHANGED <<recvAge, checkIn, cut, stable, faults, checked>>
    PROVE  Fed'
<1> SUFFICES ASSUME ~cut
             PROVE  Flowing' \/ Recovering' \/ (faults' = {} /\ Starting')
  BY DEF Fed
<1>1. /\ LinkDelay \in flight'
      /\ Regular(LinkDelay)'
      /\ Talking => \A x \in Int : Regular(x) => Regular(x)'
  BY TransmitRegular
<1>2. /\ sentAge \in Int /\ stable \in Int /\ recvAge \in Int
      /\ checkIn \in Int /\ probeIn \in Int /\ 0 <= probeIn
      /\ \A y \in flight : y \in Int /\ y <= LinkDelay
  BY Delays, Horizons DEF TypeOK
<1>3. flight' = flight \cup {LinkDelay}
  BY DEF Transmit
<1>4. Underway(LinkDelay)'
  <2> SUFFICES ASSUME NEW x \in flight', LinkDelay <= x
               PROVE  Regular(x)'
    BY DEF Underway
  <2>1. x = LinkDelay
    BY <1>2, <1>3, Horizons
  <2> QED
    BY <1>1, <2>1
<1>9. CASE Muted
  <2>1. LinkDelay + stable' <= 2 * ProbeDelay - 1 + LinkDelay
    BY <1>2, <1>9, Delays, Horizons DEF Muted
  <2> QED
    BY <1>1, <1>4, <1>9, <2>1 DEF Recovering, Muted
<1> SUFFICES ASSUME Talking
             PROVE  Flowing' \/ Recovering' \/ (faults' = {} /\ Starting')
  BY <1>9 DEF Busy
<1>5. ASSUME NEW y \in flight, Underway(y)
      PROVE  Underway(y)'
  <2> SUFFICES ASSUME NEW x \in flight', y <= x
               PROVE  Regular(x)'
    BY DEF Underway
  <2>1. CASE x = LinkDelay
    BY <1>1, <2>1
  <2>2. CASE x \in flight
    BY <1>1, <1>2, <1>5, <2>2 DEF Underway
  <2> QED
    BY <1>3, <2>1, <2>2
<1>6. CASE Flowing
  <2>1. Regular(0 - recvAge)'
    <3>1. 0 - recvAge \in Int /\ Regular(0 - recvAge)
      BY <1>2, <1>6 DEF Flowing
    <3>2. 0 - recvAge' = 0 - recvAge
      OBVIOUS
    <3> QED
      BY <1>1, <3>1, <3>2 DEF Regular
  <2>2. \A x \in flight' : Regular(x)'
    BY <1>1, <1>2, <1>3, <1>6 DEF Flowing
  <2> QED
    BY <2>1, <2>2 DEF Flowing
<1>7. CASE Recovering
  <2>1. CASE stable <= sentAge
    <3>1. LinkDelay + stable' <= 2 * ProbeDelay - 1 + LinkDelay
      BY <1>2, <2>1, Delays, Horizons DEF Talking
    <3> QED
      BY <1>1, <1>4, <1>7, <3>1 DEF Recovering
  <2>2. ASSUME NEW y \in flight, Underway(y),
               y + stable <= 2 * ProbeDelay - 1 + LinkDelay
        PROVE  Recovering'
    <3>1. y \in flight' /\ Underway(y)'
      BY <1>3, <1>5, <2>2
    <3>2. y + stable' <= 2 * ProbeDelay - 1 + LinkDelay
      BY <2>2
    <3> QED
      BY <1>7, <3>1, <3>2 DEF Recovering
  <2> QED
    BY <1>7, <2>1, <2>2 DEF Recovering
<1>8. CASE faults = {} /\ Starting
  <2>1. CASE sentAge + probeIn = ProbeDelay /\ sentAge + checkIn = StartDelay
    <3>1. LinkDelay < checkIn'
      BY <1>2, <2>1, Delays, Horizons
    <3> QED
      BY <1>1, <1>4, <1>8, <3>1 DEF Starting
  <2>2. ASSUME NEW y \in flight, Underway(y), y < checkIn
        PROVE  Starting'
    <3>1. y \in flight' /\ Underway(y)'
      BY <1>3, <1>5, <2>2
    <3>2. y < checkIn'
      BY <2>2
    <3> QED
      BY <1>8, <3>1, <3>2 DEF Starting
  <2> QED
    BY <1>8, <2>1, <2>2 DEF Starting
<1> QED
  BY <1>6, <1>7, <1>8 DEF Fed

-----------------------------------------------------------------------------
(* One lemma per action: it preserves the invariant. *)

(* What a transmission does to the other parts of the invariant. *)
LEMMA TransmitTypes ==
    ASSUME TypeOK, Transmit
    PROVE  /\ sentAge' \in 0 .. SentHorizon /\ sentAge' # SentHorizon
           /\ flight' \subseteq 0 .. LinkDelay
<1>1. sentAge' = 0 /\ flight' \subseteq flight \cup {LinkDelay}
  BY DEF Transmit
<1>2. flight \subseteq 0 .. LinkDelay
  BY DEF TypeOK
<1> QED
  BY <1>1, <1>2, Delays, Horizons

LEMMA SendTrafficStep ==
    ASSUME IInv, SendTraffic
    PROVE  IInv'
<1>1. TypeOK /\ Busy /\ Fed /\ Starved /\ Deadlines
  BY DEF IInv
<1>2. /\ Transmit
      /\ UNCHANGED <<recvAge, probeIn, checkIn, linkState, cut, stable,
                     faults, checked>>
  BY DEF SendTraffic
<1>3. TypeOK'
  <2>1. sentAge' \in 0 .. SentHorizon /\ sentAge' # SentHorizon /\ flight' \subseteq 0 .. LinkDelay
    BY <1>1, <1>2, TransmitTypes
  <2> QED
    BY <1>1, <1>2, <2>1 DEF TypeOK
<1>4. Busy'
  <2>1. sentAge' = 0 /\ sentAge \in Int /\ 0 <= sentAge /\ probeIn \in Int
    BY <1>1, <1>2, Delays, Horizons DEF Transmit, TypeOK
  <2>2. probeIn <= ProbeDelay
    BY <1>1, Delays DEF TypeOK
  <2> QED
    BY <1>2, <2>1, <2>2, Delays DEF Busy, Talking
<1>5. Fed'
  BY <1>1, <1>2, TransmitFed
<1>6. Starved' /\ Deadlines'
  BY <1>1, <1>2 DEF Starved, Deadlines, RecvHorizon
<1> QED
  BY <1>3, <1>4, <1>5, <1>6 DEF IInv

(***************************************************************************)
(* A dropped probe or a lost packet restarts the clock of Recovering.      *)
(***************************************************************************)
LEMMA FaultStep ==
    ASSUME TypeOK, Busy, Fed, Starved, Deadlines, NEW kind \in Faults, Fault(kind),
           UNCHANGED <<sentAge, recvAge, checkIn, linkState, cut, checked>>,
           flight' \subseteq flight,
           probeIn' \in 0 .. ProbeDelay,
           "congestion" \in faults' \/ UNCHANGED probeIn
    PROVE  IInv'
<1>1. /\ sentAge \in Int /\ 0 <= sentAge /\ stable \in Int
      /\ checkIn \in Int /\ probeIn' \in Int /\ probeIn' <= 2 * ProbeDelay - 1
  BY Delays, Horizons DEF TypeOK
<1>2. /\ faults' = faults \cup {kind}
      /\ cut => stable' = stable
      /\ ~cut => stable' = 0
  BY DEF Fault
<1>3. TypeOK'
  <2>1. stable' \in 0 .. StableHorizon
    BY <1>2, Delays, Horizons DEF TypeOK
  <2>2. flight' \subseteq 0 .. LinkDelay
    BY DEF TypeOK
  <2> QED
    BY <1>2, <2>1, <2>2 DEF TypeOK
<1>4. Busy'
  <2>1. CASE "congestion" \in faults'
    <3>2. sentAge' = sentAge
      OBVIOUS
    <3>3. 0 <= sentAge' /\ 0 + probeIn' <= 2 * ProbeDelay - 1
      BY <1>1, <3>2
    <3>1. ~cut => stable' <= sentAge' /\ stable' + probeIn' <= 2 * ProbeDelay - 1
      BY <1>2, <3>3
    <3> QED
      BY <2>1, <3>1 DEF Busy, Muted
  <2>2. CASE UNCHANGED probeIn /\ "congestion" \notin faults'
    BY <1>2, <2>2 DEF Busy, Muted, Talking
  <2> QED
    BY <2>1, <2>2
<1>5. Fed'
  <2>1. ~cut => stable' <= sentAge'
    BY <1>1, <1>2
  <2> QED
    BY <1>2, <2>1 DEF Fed, Recovering
<1>6. Starved'
  BY <1>2 DEF Starved, RecvHorizon
<1>7. checkIn <= CheckDelay =>
          0 + checkIn <= 2 * ProbeDelay + LinkDelay + CheckDelay
  BY <1>1, Delays, Horizons
<1>8. Deadlines'
  BY <1>2, <1>7 DEF Deadlines, Starved
<1> QED
  BY <1>3, <1>4, <1>5, <1>6, <1>8 DEF IInv

(***************************************************************************)
(* A probe that is not due finds a packet sent less than a probe period    *)
(* ago; in the state of the start it is always due.                        *)
(***************************************************************************)
LEMMA SendProbeStep ==
    ASSUME IInv, SendProbe
    PROVE  IInv'
<1>1. TypeOK /\ Busy /\ Fed /\ Starved /\ Deadlines
  BY DEF IInv
<1>2. /\ probeIn = 0 /\ probeIn' = ProbeDelay
      /\ UNCHANGED <<recvAge, checkIn, linkState, cut, checked>>
  BY DEF SendProbe
<1>3. UNCHANGED <<stable, faults>> => Starved' /\ Deadlines'
  BY <1>1, <1>2 DEF Starved, Deadlines, RecvHorizon
<1>4. probeIn' \in 0 .. ProbeDelay
  BY <1>2, Delays
<1>5. CASE NoTrafficSent /\ Transmit /\ UNCHANGED <<stable, faults>>
  <2>1. TypeOK'
    <3>1. sentAge' \in 0 .. SentHorizon /\ sentAge' # SentHorizon
      BY <1>1, <1>5, TransmitTypes
    <3>2. flight' \subseteq 0 .. LinkDelay
      BY <1>1, <1>5, TransmitTypes
    <3> QED
      BY <1>1, <1>2, <1>4, <1>5, <3>1, <3>2 DEF TypeOK
  <2>2. Busy'
    BY <1>2, <1>5, Delays DEF Busy, Talking, Transmit
  <2>3. Fed'
    BY <1>1, <1>2, <1>5, TransmitFed
  <2> QED
    BY <1>3, <1>5, <2>1, <2>2, <2>3 DEF IInv
<1>6. CASE ~NoTrafficSent /\ UNCHANGED <<sentAge, flight, stable, faults>>
  <2>1. TypeOK'
    BY <1>1, <1>2, <1>4, <1>6 DEF TypeOK
  <2>2. sentAge \in Int /\ sentAge < ProbeDelay
    BY <1>1, <1>6, Delays, Horizons DEF TypeOK, NoTrafficSent
  <2>3. Busy'
    BY <1>2, <1>6, <2>2, Delays DEF Busy, Talking
  <2>4. Fed'
    <3>1. sentAge + probeIn # ProbeDelay
      BY <1>2, <2>2, Delays
    <3>2. \A x : Regular(x)' <=> Regular(x)
      BY <1>6 DEF Regular
    <3>3. Flowing => Flowing'
      BY <1>2, <1>6, <3>2 DEF Flowing, Regular
    <3>4. \A y : Underway(y) => Underway(y)'
      BY <1>6, <3>2 DEF Underway
    <3>5. Recovering => Recovering'
      BY <1>2, <1>6, <3>4 DEF Recovering
    <3>6. Starting => Starting'
      BY <1>2, <1>6, <3>1, <3>4 DEF Starting
    <3> QED
      BY <1>1, <1>2, <1>6, <3>3, <3>5, <3>6 DEF Fed
  <2> QED
    BY <1>3, <1>6, <2>1, <2>3, <2>4 DEF IInv
<1>7. CASE NoTrafficSent /\ TmDrop
  <2>1. Fault("congestion") /\ UNCHANGED <<sentAge, flight>>
    BY <1>7 DEF TmDrop
  <2>2. "congestion" \in faults' /\ "congestion" \in Faults
    BY <2>1 DEF Fault, Faults
  <2>3. probeIn' <= 2 * ProbeDelay - 1 /\ probeIn' \in Int
    BY <1>2, Delays
  <2> QED
    BY <1>1, <1>2, <1>4, <2>1, <2>2, <2>3, FaultStep
<1> QED
  BY <1>5, <1>6, <1>7 DEF SendProbe

(* The packet that arrives takes its predecessor's place with it. *)
LEMMA ReceiveStep ==
    ASSUME IInv, Receive
    PROVE  IInv'
<1>1. TypeOK /\ Busy /\ Fed /\ Starved /\ Deadlines
  BY DEF IInv
<1>2. /\ 0 \in flight /\ flight' = flight \ {0}
      /\ recvAge' = IF cut THEN recvAge ELSE 0
      /\ UNCHANGED <<sentAge, probeIn, checkIn, linkState, cut, stable,
                     faults, checked>>
  BY DEF Receive
<1>3. TypeOK'
  <2>1. recvAge' \in 0 .. RecvHorizon
    BY <1>1, <1>2, Delays, Horizons DEF TypeOK
  <2>2. flight' \subseteq 0 .. LinkDelay
    BY <1>1, <1>2 DEF TypeOK
  <2> QED
    BY <1>1, <1>2, <2>1, <2>2 DEF TypeOK
<1>4. Busy'
  BY <1>1, <1>2 DEF Busy, Talking, Muted
<1>5. Starved' /\ Deadlines'
  <2>1. cut => UNCHANGED recvAge
    BY <1>2
  <2> QED
    BY <1>1, <1>2, <2>1 DEF Starved, Deadlines, RecvHorizon
<1>6. Fed'
  <2> SUFFICES ASSUME ~cut
               PROVE  Flowing' \/ Recovering' \/ (faults' = {} /\ Starting')
    BY <1>2 DEF Fed
  <2>1. \A y \in flight : y \in Int /\ 0 <= y
    BY <1>1, Horizons DEF TypeOK
  <2>2. ASSUME NEW x \in Int, 0 <= x, Regular(x)
        PROVE  Regular(x)'
    <3>1. CASE x = LinkDelay - sentAge
      BY <1>2, <3>1 DEF Regular
    <3>2. ASSUME NEW y \in flight, x < y, y < x + 2 * ProbeDelay
          PROVE  Regular(x)'
      <4>1. y \in flight'
        BY <1>2, <2>1, <2>2, <3>2
      <4> QED
        BY <3>2, <4>1 DEF Regular
    <3> QED
      BY <2>2, <3>1, <3>2 DEF Regular
  <2>3. (\A x \in flight : Regular(x)) => Flowing'
    <3> SUFFICES ASSUME \A x \in flight : Regular(x)
                 PROVE  Flowing'
      OBVIOUS
    <3>1. \A x \in flight : Regular(x)'
      BY <2>1, <2>2
    <3>2. 0 - recvAge' = 0
      <4>1. recvAge' = 0
        BY <1>2
      <4> QED
        BY <4>1
    <3>3. Regular(0 - recvAge)'
      BY <1>2, <3>1, <3>2 DEF Regular
    <3> QED
      BY <1>2, <3>1, <3>3 DEF Flowing
  <2>4. ASSUME NEW y \in flight, Underway(y)
        PROVE  Flowing' \/ (y \in flight' /\ Underway(y)')
    <3>1. CASE y = 0
      <4>1. \A x \in flight : Regular(x)
        BY <2>1, <2>4, <3>1 DEF Underway
      <4> QED
        BY <2>3, <4>1
    <3>2. CASE y # 0
      <4>1. y \in flight'
        BY <1>2, <3>2
      <4>2. Underway(y)'
        BY <1>2, <2>1, <2>2, <2>4 DEF Underway
      <4> QED
        BY <4>1, <4>2
    <3> QED
      BY <3>1, <3>2
  <2>5. CASE Flowing
    BY <2>3, <2>5 DEF Flowing
  <2>6. CASE Recovering
    <3>1. CASE stable <= sentAge
      BY <1>2, <2>6, <3>1 DEF Recovering
    <3>2. ASSUME NEW y \in flight, Underway(y),
                 y + stable <= 2 * ProbeDelay - 1 + LinkDelay
          PROVE  Flowing' \/ Recovering'
      <4>1. Flowing' \/ (y \in flight' /\ Underway(y)')
        BY <2>4, <3>2
      <4> QED
        BY <1>2, <2>6, <3>2, <4>1 DEF Recovering
    <3> QED
      BY <2>6, <3>1, <3>2 DEF Recovering
  <2>7. CASE faults = {} /\ Starting
    <3>1. CASE sentAge + probeIn = ProbeDelay /\ sentAge + checkIn = StartDelay
      BY <1>2, <2>7, <3>1 DEF Starting
    <3>2. ASSUME NEW y \in flight, Underway(y), y < checkIn
          PROVE  Flowing' \/ Starting'
      <4>1. Flowing' \/ (y \in flight' /\ Underway(y)')
        BY <2>4, <3>2
      <4> QED
        BY <1>2, <2>7, <3>2, <4>1 DEF Starting
    <3> QED
      BY <1>2, <2>7, <3>1, <3>2 DEF Starting
  <2> QED
    BY <1>1, <2>5, <2>6, <2>7 DEF Fed
<1> QED
  BY <1>3, <1>4, <1>5, <1>6 DEF IInv

LEMMA LoseOnLinkStep ==
    ASSUME IInv, LoseOnLink
    PROVE  IInv'
<1>1. probeIn' \in 0 .. ProbeDelay
  BY DEF IInv, TypeOK, LoseOnLink
<1> QED
  BY <1>1, FaultStep DEF IInv, LoseOnLink, Faults

(***************************************************************************)
(* A check changes linkState only as the age of the last packet tells.     *)
(***************************************************************************)
LEMMA CheckPortStateStep ==
    ASSUME IInv, CheckPortState
    PROVE  IInv'
<1>1. TypeOK /\ Busy /\ Fed /\ Starved /\ Deadlines
  BY DEF IInv
<1>2. /\ checkIn = 0 /\ checkIn' = CheckDelay /\ checked' = TRUE
      /\ UNCHANGED <<sentAge, recvAge, probeIn, flight, cut, stable, faults>>
  BY DEF CheckPortState
<1>3. linkState' <=> (linkState /\ ~NothingReceived) \/ (~linkState /\ ReceivedAgain)
  BY DEF CheckPortState
<1>4. /\ recvAge \in Int /\ stable \in Int /\ 0 <= recvAge
      /\ recvAge <= RecvHorizon
  BY <1>1, Delays, Horizons DEF TypeOK
<1>5. linkState' => recvAge <= CheckDelay
  <2>1. ~NothingReceived => recvAge <= CheckDelay
    BY <1>4, Delays DEF NothingReceived
  <2>2. ReceivedAgain => recvAge <= CheckDelay
    BY <1>4, Delays DEF ReceivedAgain
  <2> QED
    BY <1>3, <2>1, <2>2
<1>6. recvAge <= 2 * ProbeDelay - 1 => linkState'
  <2>1. recvAge <= 2 * ProbeDelay - 1 => ~NothingReceived /\ ReceivedAgain
    BY <1>4, Delays DEF NothingReceived, ReceivedAgain
  <2> QED
    BY <1>3, <2>1
<1>7. TypeOK'
  <2>1. checkIn' \in Nat
    BY <1>2, Delays
  <2>2. linkState' \in BOOLEAN
    BY DEF CheckPortState
  <2> QED
    BY <1>1, <1>2, <2>1, <2>2 DEF TypeOK
<1>8. Busy'
  BY <1>1, <1>2 DEF Busy, Talking, Muted
<1>9. Fed'
  <2>1. ~Starting
    BY <1>1, <1>2, StartingNotDue
  <2>2. \A x : Regular(x)' <=> Regular(x)
    BY <1>2 DEF Regular
  <2>3. Flowing => Flowing'
    BY <1>2, <2>2 DEF Flowing, Regular
  <2>4. Recovering => Recovering'
    BY <1>2, <2>2 DEF Recovering, Underway
  <2> QED
    BY <1>1, <1>2, <2>1, <2>3, <2>4 DEF Fed
<1>10. ~cut /\ ~linkState' =>
           faults # {} /\ stable <= 2 * ProbeDelay - 1 + LinkDelay
  BY <1>1, <1>2, <1>6, FedAtCheck
<1>11. Starved'
  <2>1. checkIn' <= CheckDelay
    BY <1>2, Delays
  <2>2. ~linkState' => faults # {}
    BY <1>1, <1>10 DEF Starved
  <2> QED
    BY <1>1, <1>2, <2>1, <2>2 DEF Starved, RecvHorizon
<1>12. Deadlines'
  <2>1. ASSUME cut, linkState'
        PROVE  stable' + checkIn' <= 2 * CheckDelay
    <3>1. recvAge <= CheckDelay
      BY <1>5, <2>1
    <3>2. stable <= recvAge \/ recvAge = RecvHorizon
      BY <1>1, <2>1 DEF Starved
    <3>3. stable <= CheckDelay
      BY <1>4, <3>1, <3>2, Delays, Horizons
    <3> QED
      BY <1>2, <1>4, <3>3, Delays
  <2>2. ASSUME ~cut, ~linkState'
        PROVE  stable' + checkIn' <= 2 * ProbeDelay + LinkDelay + CheckDelay
    <3>1. stable <= 2 * ProbeDelay - 1 + LinkDelay
      BY <1>10, <2>2
    <3> QED
      BY <1>2, <1>4, <3>1, Delays, Horizons
  <2> QED
    BY <1>2, <2>1, <2>2 DEF Deadlines
<1> QED
  BY <1>7, <1>8, <1>9, <1>11, <1>12 DEF IInv

(***************************************************************************)
(* A tick moves every place by one, and happens only when nothing is due.  *)
(***************************************************************************)
LEMMA TickStep ==
    ASSUME IInv, Tick
    PROVE  IInv'
<1>1. TypeOK /\ Busy /\ Fed /\ Starved /\ Deadlines
  BY DEF IInv
<1>2. /\ probeIn > 0 /\ checkIn > 0 /\ 0 \notin flight
      /\ probeIn' = probeIn - 1 /\ checkIn' = checkIn - 1
      /\ flight' = {d - 1 : d \in flight}
      /\ UNCHANGED <<linkState, cut, faults, checked>>
  BY DEF Tick
<1>3. /\ sentAge \in 0 .. SentHorizon
      /\ probeIn \in Int /\ probeIn <= ProbeDelay
      /\ checkIn \in Int /\ recvAge \in 0 .. RecvHorizon
      /\ stable \in 0 .. StableHorizon
      /\ \A y \in flight : y \in Int /\ 0 < y /\ y <= LinkDelay
  BY <1>1, <1>2, Delays, Horizons DEF TypeOK
<1>4. /\ recvAge' \in 0 .. RecvHorizon
      /\ recvAge' = recvAge + 1 \/ (recvAge = RecvHorizon /\ recvAge' = recvAge)
  BY <1>3, Horizons, OlderFacts DEF Tick
<1>5. /\ stable' \in 0 .. StableHorizon
      /\ stable' = stable + 1 \/ (stable = StableHorizon /\ stable' = stable)
  BY <1>3, Horizons, OlderFacts DEF Tick
<1>8. stable' <= stable + 1 /\ stable \in Int /\ stable' \in Int
  BY <1>3, <1>5, Horizons
<1>12. /\ sentAge' \in 0 .. SentHorizon
       /\ sentAge' = sentAge + 1 \/ (sentAge = SentHorizon /\ sentAge' = sentAge)
  BY <1>3, Horizons, OlderFacts DEF Tick
<1>15. /\ sentAge \in Int /\ sentAge' \in Int
       /\ probeIn \in Int /\ probeIn' \in Int
       /\ 1 <= probeIn /\ 0 <= probeIn' /\ probeIn = probeIn' + 1
  BY <1>2, <1>3, <1>12, Delays, Horizons
<1>13. Talking => sentAge' = sentAge + 1 /\ Talking' /\ sentAge' # SentHorizon
  <2> SUFFICES ASSUME sentAge + probeIn <= 2 * ProbeDelay - 1
               PROVE  /\ sentAge' = sentAge + 1 /\ sentAge' # SentHorizon
                      /\ sentAge' + probeIn' <= 2 * ProbeDelay - 1
    BY DEF Talking
  <2>1. SentHorizon \in Int /\ SentHorizon - 1 \in Int /\ sentAge + probeIn <= SentHorizon - 1
    BY Delays, Horizons
  <2>2. \A a, q, h \in Int : 0 <= q /\ a + (q + 1) <= h - 1 =>
            a + 1 # h /\ a # h /\ (a + 1) + q <= h - 1
    OBVIOUS
  <2>3. sentAge # SentHorizon /\ sentAge + 1 # SentHorizon /\ (sentAge + 1) + probeIn' <= SentHorizon - 1
    BY <1>15, <2>1, <2>2
  <2>4. sentAge' = sentAge + 1
    BY <1>12, <2>3
  <2> QED
    BY <2>3, <2>4, Horizons
<1>14. Muted => Muted'
  <2>1. ~cut /\ Muted => stable' <= sentAge' /\ stable' + probeIn' <= 2 * ProbeDelay - 1
    <3> SUFFICES ASSUME stable <= sentAge, stable + probeIn <= 2 * ProbeDelay - 1
                 PROVE  stable' <= sentAge' /\ stable' + probeIn' <= 2 * ProbeDelay - 1
      BY DEF Muted
    <3>0. \A t, u, q, h \in Int :
              0 <= q /\ u <= t + 1 /\ t + (q + 1) <= h => u + q <= h /\ u <= h + 1
      OBVIOUS
    <3>1. 2 * ProbeDelay - 1 \in Int /\ SentHorizon = (2 * ProbeDelay - 1) + 1
      BY Delays, Horizons
    <3>2. stable' + probeIn' <= 2 * ProbeDelay - 1 /\ stable' <= SentHorizon
      BY <1>8, <1>15, <3>0, <3>1
    <3> QED
      BY <1>8, <1>12, <1>15, <3>2
  <2> QED
    BY <1>2, <2>1 DEF Muted
<1>6. Busy'
  BY <1>1, <1>13, <1>14 DEF Busy
<1>7. TypeOK'
  <2>1. sentAge' = SentHorizon => "congestion" \in faults'
    BY <1>1, <1>2, <1>13 DEF Busy, Muted
  <2>2. probeIn' \in 0 .. ProbeDelay /\ checkIn' \in Nat
    BY <1>2, <1>3, Delays
  <2>3. flight' \subseteq 0 .. LinkDelay
    BY <1>2, <1>3, Horizons
  <2> QED
    BY <1>1, <1>2, <1>4, <1>5, <1>12, <2>1, <2>2, <2>3 DEF TypeOK
<1>9. Starved'
  <2>1. cut => stable' <= recvAge' \/ recvAge' = RecvHorizon
    <3>1. stable <= recvAge \/ recvAge = RecvHorizon =>
              stable' <= recvAge' \/ recvAge' = RecvHorizon
      BY <1>3, <1>4, <1>8, Horizons
    <3> QED
      BY <1>1, <3>1 DEF Starved
  <2>2. checked => checkIn' <= CheckDelay
    <3>1. checkIn <= CheckDelay => checkIn' <= CheckDelay
      BY <1>2, <1>3, Delays
    <3> QED
      BY <1>1, <3>1 DEF Starved
  <2> QED
    BY <1>1, <1>2, <2>1, <2>2 DEF Starved, RecvHorizon
<1>10. Deadlines'
  <2>1. /\ checkIn \in Int /\ checkIn' \in Int /\ checkIn' <= checkIn - 1
    BY <1>2, <1>3
  <2>2. ASSUME NEW b \in Int, stable + checkIn <= b
        PROVE  stable' + checkIn' <= b
    <3>1. \A s, t, c, d \in Int :
              t <= s + 1 /\ d <= c - 1 /\ s + c <= b => t + d <= b
      OBVIOUS
    <3>2. stable \in Int /\ stable' \in Int /\ checkIn \in Int /\ checkIn' \in Int
      BY <1>8, <2>1
    <3>3. stable' <= stable + 1 /\ checkIn' <= checkIn - 1
      BY <1>8, <2>1
    <3> QED
      BY <2>2, <3>1, <3>2, <3>3
  <2>3. /\ 2 * CheckDelay \in Int
        /\ 2 * ProbeDelay + LinkDelay + CheckDelay \in Int
    BY Delays, Horizons
  <2> QED
    BY <1>1, <1>2, <2>2, <2>3 DEF Deadlines
<1>11. Fed'
  <2>6. CASE Muted
    BY <1>2, <1>14, <2>6 DEF Fed, Recovering, Muted
  <2> SUFFICES ASSUME Talking
               PROVE  Fed'
    BY <1>1, <2>6 DEF Busy
  <2>7. sentAge' = sentAge + 1 /\ sentAge \in Int
    BY <1>3, <1>13, Horizons
  <2>1. ASSUME NEW x \in Int, Regular(x)
        PROVE  Regular(x - 1)'
    <3>1. CASE x = LinkDelay - sentAge
      <4>1. x - 1 = LinkDelay - sentAge'
        BY <2>7, <3>1, Horizons
      <4> QED
        BY <4>1 DEF Regular
    <3>2. ASSUME NEW y \in flight, x < y, y < x + 2 * ProbeDelay
          PROVE  Regular(x - 1)'
      <4>1. y - 1 \in flight'
        BY <1>2
      <4>2. x - 1 < y - 1 /\ y - 1 < (x - 1) + 2 * ProbeDelay
        BY <1>3, <3>2, Delays
      <4> QED
        BY <4>1, <4>2 DEF Regular
    <3> QED
      BY <2>1, <3>1, <3>2 DEF Regular
  <2>2. ASSUME NEW y \in flight, Underway(y)
        PROVE  y - 1 \in flight' /\ Underway(y - 1)'
    <3>1. y - 1 \in flight'
      BY <1>2
    <3>2. ASSUME NEW x \in flight', y - 1 <= x
          PROVE  Regular(x)'
      <4>1. PICK d \in flight : x = d - 1
        BY <1>2
      <4>2. y <= d /\ d \in Int
        BY <1>3, <3>2, <4>1
      <4>3. Regular(d)
        BY <2>2, <4>2 DEF Underway
      <4> QED
        BY <2>1, <4>1, <4>2, <4>3
    <3> QED
      BY <3>1, <3>2 DEF Underway
  <2>3. CASE Flowing
    <3>1. recvAge <= 2 * ProbeDelay - 1
      BY <1>1, <2>3, FlowingIsFresh
    <3>2. PICK r \in Int : r = 0 - recvAge
      BY <1>3, Horizons
    <3>3. 0 - recvAge' = r - 1
      <4>1. recvAge \in Int /\ recvAge # RecvHorizon
        BY <1>3, <3>1, Delays, Horizons
      <4>2. recvAge' = recvAge + 1
        BY <1>4, <4>1
      <4> QED
        BY <3>2, <4>1, <4>2
    <3>4. Regular(0 - recvAge)'
      <4>1. Regular(r)
        BY <2>3, <3>2 DEF Flowing
      <4>2. Regular(r - 1)'
        BY <2>1, <4>1
      <4> QED
        BY <3>3, <4>2 DEF Regular
    <3>5. ASSUME NEW x \in flight'
          PROVE  Regular(x)'
      <4>1. PICK d \in flight : x = d - 1
        BY <1>2
      <4>2. Regular(d) /\ d \in Int
        BY <1>3, <2>3 DEF Flowing
      <4> QED
        BY <2>1, <4>1, <4>2
    <3> QED
      BY <3>4, <3>5 DEF Flowing, Fed
  <2>4. CASE Recovering
    <3>1. CASE stable <= sentAge
      <4>1. stable' <= sentAge'
        BY <1>3, <1>8, <2>7, <3>1
      <4> QED
        BY <1>2, <2>4, <4>1 DEF Recovering, Fed
    <3>2. ASSUME NEW y \in flight, Underway(y),
                 y + stable <= 2 * ProbeDelay - 1 + LinkDelay
          PROVE  Recovering'
      <4>1. y - 1 \in flight' /\ Underway(y - 1)'
        BY <2>2, <3>2
      <4>2. (y - 1) + stable' <= 2 * ProbeDelay - 1 + LinkDelay
        BY <1>3, <1>8, <3>2, Delays, Horizons
      <4> QED
        BY <1>2, <2>4, <4>1, <4>2 DEF Recovering
    <3> QED
      BY <2>4, <3>1, <3>2 DEF Recovering, Fed
  <2>5. CASE faults = {} /\ Starting
    <3>1. CASE sentAge + probeIn = ProbeDelay /\ sentAge + checkIn = StartDelay
      <4>1. /\ sentAge' + probeIn' = ProbeDelay
            /\ sentAge' + checkIn' = StartDelay
        BY <1>2, <1>3, <2>7, <3>1, Delays, Horizons
      <4> QED
        BY <1>2, <2>5, <4>1 DEF Starting, Fed
    <3>2. ASSUME NEW y \in flight, Underway(y), y < checkIn
          PROVE  Starting'
      <4>1. y - 1 \in flight' /\ Underway(y - 1)'
        BY <2>2, <3>2
      <4>2. y - 1 < checkIn'
        BY <1>2, <1>3, <3>2
      <4> QED
        BY <1>2, <2>5, <4>1, <4>2 DEF Starting
    <3> QED
      BY <1>2, <2>5, <3>1, <3>2 DEF Starting, Fed
  <2> QED
    BY <1>1, <1>2, <2>3, <2>4, <2>5 DEF Fed
<1> QED
  BY <1>6, <1>7, <1>9, <1>10, <1>11 DEF IInv

(* A failure and a repair of the link start their clocks. *)
LEMMA LinkDownStep ==
    ASSUME IInv, LinkDown
    PROVE  IInv'
<1>1. TypeOK /\ Busy /\ Fed /\ Starved /\ Deadlines
  BY DEF IInv
<1>2. /\ cut' = TRUE /\ faults' = faults \cup {"down"} /\ stable' = 0
      /\ UNCHANGED <<sentAge, recvAge, probeIn, checkIn, flight, linkState,
                     checked>>
  BY DEF LinkDown
<1>3. 0 \in 0 .. StableHorizon
  BY Delays, Horizons
<1>4. TypeOK' /\ Busy' /\ Fed'
  BY <1>1, <1>2, <1>3 DEF TypeOK, Faults, Busy, Talking, Muted, Fed
<1>5. recvAge \in Int /\ checkIn \in Int /\ 0 <= recvAge
  BY <1>1, Horizons DEF TypeOK
<1>6. stable' <= recvAge'
  BY <1>2, <1>5
<1>7. Starved'
  BY <1>1, <1>2, <1>6 DEF Starved
<1>8. checkIn <= CheckDelay => stable' + checkIn' <= 2 * CheckDelay
  BY <1>2, <1>5, Delays
<1>9. Deadlines'
  BY <1>1, <1>2, <1>8 DEF Starved, Deadlines
<1> QED
  BY <1>4, <1>7, <1>9 DEF IInv

LEMMA LinkUpStep ==
    ASSUME IInv, LinkUp
    PROVE  IInv'
<1>1. TypeOK /\ Busy /\ Fed /\ Starved /\ Deadlines
  BY DEF IInv
<1>2. /\ cut /\ cut' = FALSE /\ stable' = 0
      /\ UNCHANGED <<sentAge, recvAge, probeIn, checkIn, flight, linkState,
                     faults, checked>>
  BY DEF LinkUp
<1>3. 0 \in 0 .. StableHorizon
  BY Delays, Horizons
<1>5. /\ sentAge \in Int /\ checkIn \in Int /\ 0 <= sentAge
      /\ probeIn \in Int /\ probeIn <= 2 * ProbeDelay - 1
  BY <1>1, Delays, Horizons DEF TypeOK
<1>4. TypeOK' /\ Busy'
  <2>1. TypeOK'
    BY <1>1, <1>2, <1>3 DEF TypeOK
  <2>2. stable' <= sentAge' /\ stable' + probeIn' <= 2 * ProbeDelay - 1
    <3>1. sentAge' = sentAge /\ probeIn' = probeIn
      BY <1>2
    <3> QED
      BY <1>2, <1>5, <3>1
  <2> QED
    BY <1>1, <1>2, <2>1, <2>2 DEF Busy, Talking, Muted
<1>6. Fed'
  <2>1. stable' <= sentAge'
    BY <1>2, <1>5
  <2> QED
    BY <1>1, <1>2, <2>1 DEF Fed, Recovering, Starved
<1>7. Starved'
  BY <1>1, <1>2 DEF Starved, RecvHorizon
<1>8. checkIn <= CheckDelay =>
          stable' + checkIn' <= 2 * ProbeDelay + LinkDelay + CheckDelay
  BY <1>2, <1>5, Delays, Horizons
<1>9. Deadlines'
  BY <1>1, <1>2, <1>8 DEF Starved, Deadlines
<1> QED
  BY <1>4, <1>6, <1>7, <1>9 DEF IInv

(* The invariant is inductive. *)
LEMMA IInvStep == IInv /\ [Next]_vars => IInv'
<1> SUFFICES ASSUME IInv, [Next]_vars PROVE IInv'
  OBVIOUS
<1>1. CASE UNCHANGED vars
  <2>1. UNCHANGED <<sentAge, recvAge, probeIn, checkIn, flight, linkState, cut,
                    stable, faults, checked>>
    BY <1>1 DEF vars
  <2>2. TypeOK' /\ Busy' /\ Starved' /\ Deadlines'
    BY <2>1 DEF IInv, TypeOK, Busy, Talking, Muted, Starved, Deadlines, RecvHorizon
  <2>3. \A x : Regular(x)' <=> Regular(x)
    BY <2>1 DEF Regular
  <2>4. Flowing => Flowing'
    BY <2>1, <2>3 DEF Flowing, Regular
  <2>5. \A y : Underway(y) => Underway(y)'
    BY <2>1, <2>3 DEF Underway
  <2>6. (Recovering => Recovering') /\ (Starting => Starting')
    BY <2>1, <2>5 DEF Recovering, Starting
  <2>7. Fed'
    BY <2>1, <2>4, <2>6 DEF IInv, Fed
  <2> QED
    BY <2>2, <2>7 DEF IInv
<1> QED
  BY <1>1, SendTrafficStep, SendProbeStep, ReceiveStep, LoseOnLinkStep, CheckPortStateStep,
     TickStep, LinkDownStep, LinkUpStep DEF Next

LEMMA IInvAlways == Spec => []IInv
BY IInvInit, IInvStep, PTL DEF Spec

-----------------------------------------------------------------------------
(***************************************************************************)
(* SendProbe keeps the upstream port from being silent for two probe       *)
(* periods, unless DoTrafficManager drops a probe, and every variable is   *)
(* in its range.                                                           *)
(***************************************************************************)
THEOREM TypeCorrect == Spec => []TypeOK
<1>1. IInv => TypeOK
  BY DEF IInv
<1> QED
  BY <1>1, IInvAlways, PTL

(***************************************************************************)
(* CheckPortState never declares a link down that has always worked, lost  *)
(* no packet and had no probe dropped by DoTrafficManager, for any check   *)
(* period, any delay of the link and any traffic.                          *)
(***************************************************************************)
THEOREM NoFalseLinkFailureCorrect == Spec => []NoFalseLinkFailure
<1>1. IInv => NoFalseLinkFailure
  BY DEF IInv, Starved, NoFalseLinkFailure
<1> QED
  BY <1>1, IInvAlways, PTL

(***************************************************************************)
(* CheckPortState declares a link that stays down down within two check    *)
(* periods.                                                                *)
(***************************************************************************)
THEOREM DetectedInTimeCorrect == Spec => []DetectedInTime
<1>1. ASSUME IInv PROVE DetectedInTime
  <2>1. stable \in Int /\ checkIn \in Int /\ 0 <= checkIn
    BY <1>1, Horizons DEF IInv, TypeOK
  <2>2. stable + checkIn <= 2 * CheckDelay => ~(stable > 2 * CheckDelay)
    BY <2>1, Delays
  <2> QED
    BY <1>1, <2>2 DEF IInv, Deadlines, DetectedInTime
<1> QED
  BY <1>1, IInvAlways, PTL

(***************************************************************************)
(* CheckPortState has a link up within the longest silence of its upstream *)
(* port, its delay and one check period after the repair, the last dropped *)
(* probe or the last lost packet, for any number of them before.           *)
(***************************************************************************)
THEOREM RestoredInTimeCorrect == Spec => []RestoredInTime
<1>1. ASSUME IInv PROVE RestoredInTime
  <2>1. stable \in Int /\ checkIn \in Int /\ 0 <= checkIn
    BY <1>1, Horizons DEF IInv, TypeOK
  <2>2. stable + checkIn <= 2 * ProbeDelay + LinkDelay + CheckDelay =>
            ~(stable > 2 * ProbeDelay + LinkDelay + CheckDelay)
    BY <2>1, Delays, Horizons
  <2> QED
    BY <1>1, <2>2 DEF IInv, Deadlines, RestoredInTime
<1> QED
  BY <1>1, IInvAlways, PTL
=============================================================================
