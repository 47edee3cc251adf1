# A TLA+ model of the FANCY switches (ns3-fancy)

The repository simulates, in ns-3, programmable switches that detect *gray
failures*: links that silently lose some packets. Three detectors share one
switch pipeline: FANCY (the paper's system), and NetSeer and LossRadar, which it
is compared with. This directory holds TLA+ modules translated from the C++
under `src/contrib/p4-switch/model/`, the configurations with which TLC checks
them, and proofs that TLAPS checks. Paths below are relative to that directory
unless they start with `src/`; `F` is `p4-switch-fancy.cc`.

- [The system](#the-system)
- [Modules and code](#modules-and-code)
- [Runs](#runs)
- [Proofs](#proofs)
- [Findings](#findings)
- [What is not modelled](#what-is-not-modelled)
- [Plan](#plan)

## The system

| component | state | operations | interacts with |
|---|---|---|---|
| FANCY counting protocol (`F`) | per port and id: `greyState`, `currentSEQ`, `localCounter`, `currentEvent` for the sender (`greySend`) and the receiver (`greyRecv`) | events `SendGreyAction`, `SendGreyCounter`; packets in `IngressCounterBox`, `EgressCounterBox` | the peer switch by START, STOP, COUNTER and their acknowledgements; the tree; the reroute tables |
| Zooming tree (`F`) | cells of each node, `max_cells` (the last maxima) on both ends | `PipelinedPacketCounting`, `PipelinedInitReceiverStep`, `PipelinedCounterExchangeAlgorithm`, and the same three without pipeline | driven by the protocol's START and COUNTER of the id `m_numTopEntries` |
| Rerouting (`F`) | `reroute_top`, a Bloom filter | end of the exchange, end of `IngressCounterBox` | reads the verdicts; a packet of a flagged entry or path is dropped, which stands for sending it elsewhere |
| Link monitoring (`F`) | `last_time_sent`, `last_time_received`, `linkState` | events `SendProbe`, `CheckPortState` | the timestamps are written by every packet |
| FANCY header (`fancy-header.cc`) | a packed header, 16-bit session number | setters, `Serialize`, `Deserialize` | carries the protocol |
| Switch pipeline (`p4-switch-net-device.cc`) | forwarding tables, learned addresses | parser, ingress, traffic manager, egress, deparser, egress traffic manager | calls the three detectors' stages |
| NetSeer (`p4-switch-net-seer.cc`) | next numbers, ring buffer of flows, event cache | number and save a packet, notice a gap, NACK, look up, aggregate, report | the peer switch by numbers and NACKs |
| LossRadar (`p4-switch-loss-radar.cc`) | alternating batches of invertible Bloom filters at both ends | count, change batch, compare and decode | a controller event reads both ends |
| NAT switch (`p4-switch-nat.cc`) | translation table | translate | the pipeline |
| Flow error model (`src/contrib/utils/model/flow-error-model.cc`) | red and green flows, drop rate | `DoCorrupt` | loses packets when they arrive |
| Traffic generators, drivers, utilities, ns-3 | | | sources of packets, topology, files, the simulator |

What is hard about it:

- Two switches run a session protocol over a link that loses messages, with
  timers that repeat messages and are cancelled by answers. Answers race with
  timers; a timer may survive the session it was set in.
- The two ends of a tree must count a packet in the same cells, with a history of
  maxima each shifts by itself when a message arrives.
- The verdict is a difference of two unsigned counters of two machines.
- The wildcard id counts without looking at tags, so its correctness rests on the
  order of START and STOP alone.
- Probes are suppressed by traffic, and checks run at their own phase.
- NetSeer's NACKs are sent once, look up a ring that goes on being overwritten,
  and flows share cells of the event cache.
- The tree's exchange puts a path together from maxima that earlier sessions chose,
  while flows compete for the few cells that are zoomed into.
- The filter of rerouted paths is asked about the protocol's own messages as well.
- LossRadar reads and clears a batch by the clock, while packets are in flight, and
  decodes it by removing packets from cells in which others are mixed.

What makes each correct is stated as properties below; the exposed lines are
listed as hazards in `PROJECT.json`, each with the properties that would notice
it going wrong.

## Modules and code

Operators that stand just before a definition and are used nowhere (for example
`KeepCounter` before `ResetCounter`) are faulty variants of that definition. They
show that a property is able to fail: `PROJECT.json` says which variant breaks
which property.

### FancyFSM: the counting protocol

One state machine id between the egress of an upstream port and the ingress of
the downstream port. The ids of a port share the link, of which each sees a FIFO of
its own messages, and the reroute filter, which can stop the answers of all of them
(`ControlPasses` of `ZoomTree`; here the answers are lost). `Kind` selects the three sorts of id:
`dedicated` (one entry of the top table), `tree` (the zooming tree) and `wildcard`
(all traffic, `m_treeEnableSoftDetections`).

| variable | code |
|---|---|
| `sState`, `sSEQ`, `sCounter`, `sEvent` | `greySend.greyState[id]`, `currentSEQ[id]`, `localCounter[id]`, the action that the pending `currentEvent[id]` sends |
| `rState`, `rSEQ`, `rCounter` | the same of `greyRecv` |
| `rEvent`, `rOrphans` | is `greyRecv.currentEvent[id]` pending; pending `SendGreyCounter` events that were overwritten in `currentEvent[id]` and cannot be cancelled |
| `sMax`, `rMax` | `max_cells` of a tree, the latest first |
| `fwd`, `bwd` | the link's two FIFO directions |
| `flagged`, `failures`, `report` | `reroute_top[id].set`, `failures_count`, the drops of the last exchange |
| `lost`, `everLost` | history: counted packets the link lost |

| action | code |
|---|---|
| `SendStart`, `SendStop` | `SendGreyAction` (F 1019-1088) |
| `SendPacket` | counting and tagging at the end of `EgressCounterBox` (F 2753-2809) |
| `RecvStart`, `RecvStop`, `RecvCounterAck`, `RecvPacket` | the receiver in `IngressCounterBox` (F 2051-2390) |
| `SendGreyCounter` | F 1090-1132 |
| `RecvStartAck`, `RecvCounter` | the sender in `EgressCounterBox` (F 2536-2748) |
| `LoseForward`, `LoseBackward` | `DoEgressTrafficManager` gray drop, full queues, `FlowErrorModel` |

Abstractions. Time: a pending event may fire at any moment, which includes the
real delays and every ratio of timeout to round trip. Loss at the head of a FIFO
stands for loss anywhere on it, as nobody reads a message before. A packet is its
session number and its rank; the tree's cells are not there, only the maxima. The
session number is compared in full by the sender and cut to `SeqMod` by the
header, as in the code, and the drops are a difference modulo `Word`.

`LossMeter` is the abstract specification: sessions follow one another, each
reports exactly the packets lost in it, and the entry is flagged at the end of the
first session whose loss exceeds the threshold. `FancyFSM!ImplementsMeter` maps
`session <- sSEQ` and `sent <- sCounter`.

### LinkMonitor: probes and port checks

One direction of a link, in discrete time. The code compares differences of
instants, so the variables are ages (`sentAge`, `recvAge`) and remaining times
(`probeIn`, `checkIn`, and the set `flight` of the remaining delays of packets on
the link). `Tick` advances time when nothing is due; events due at one instant
happen in any order, as the order of their scheduling depends on things outside
the model. `SendTraffic` may happen at every instant.

Three things go wrong, and `faults` records which have. `LinkDown` and `LinkUp`
(`src/contrib/utils/model/utils.cc`, the branch for CSMA devices) may happen at any
time; they switch sending and receiving off and on, so a packet on the link may
survive a short failure. `LoseOnLink` is the error model of a working link. `TmDrop`
is `DoTrafficManager` with `TmDropRate` above 0 (F 739-760): a probe carries action
`KEEP_ALIVE`, which is 0, and is dropped like normal traffic, before `last_time_sent`
is set (F 856). Traffic that is dropped there, or by a gray failure at the egress,
changes none of the variables; a gray failure drops IPv4 packets only, and so no
probe. `stable` is the time since the link was cut or repaired and, while it is up,
since the last dropped probe or lost packet.

Ages saturate at horizons beyond which neither the code nor a property tells them
apart. `m_send_port_state_ms` is half of `m_check_port_state_ms`, cut to whole
milliseconds.

### NetSeer: numbers, ring, NACK and event cache

One direction of the link between two NetSeer switches, as in the drivers.
`SendPacket` is `DoEgress` with `SaveFlow`, `RecvPacket` is `DoIngress` of a
numbered packet with `SendNACK`, `RecvNack` is the NACK turned round by `DoIngress`
to `DoEgress`, and `CheckPacketLosses` is one iteration of the loop of that
function with `ReportPacket`. A simulator event runs to its end, so while the loop
runs (`loop[1] < loop[2]`) no other action is enabled. `Hash` is any function from
flows to cells. `numDrops[f]` adds up the failure events of `f`; `lost`, `found`,
`unasked` and `flowOf` are history.

### ZoomTree: cells, maxima, paths and rerouting

The tree's state on both ends of one direction of a link, session by session. What
FancyFSM establishes about a session (both ends take part in it, and a counted
packet is counted by both or lost) is built in: `Start` is the START taken by the
receiver, `RepeatStart` a repeated one, `AckStart`, `Stop` and `Exchange` the rest of
the session, and `Count` counts a packet at both ends, or at the sender only.

| variable | code |
|---|---|
| `attr` | the attributes `TreeDepth`, `LayerSplit`, `CounterWidth`, `Pipeline`, `PipelineBoost`, `RerouteEnabled`, `CostType`, `UniformLossThreshold`, chosen in `Init` |
| `sendMax`, `recvMax` | `counter_tree[i].max_cells` of `greySend`, `greyRecv` |
| `sendCnt`, `recvCnt` | `counter_tree[i].counters` |
| `bits` | `counter_tree[i].bloom_filter` of the sender, one set of bits per cell |
| `reroute` | the bits set in the port's `reroute` |
| `detected`, `collided` | the failure events and the collision events of the last exchange, by path |
| `sent`, `lost`, `streak` | history |

`CellsOf` is the walk of `PipelinedPacketCounting` (level n looks its ancestors up
in maxima that are one session older per level) and of `PacketCounting` (one level
per session, the newest maxima). `Exchange` is the whole of
`PipelinedCounterExchangeAlgorithm` or `CounterExchangeAlgorithm`: differences and
costs, new maxima with or without the boost, paths, Bloom filter, uniform loss,
reset. `TakenBefore` is the order in which cells become maxima: by cost
(`SortedBefore`), and with the boost the cells that `Preferred` describes first and the
`backup` behind them. The nodes of a message come in ascending order, so the maxima
above a node are those of this exchange when its paths are put together
(`PathUp(sendMax', ...)`). Nodes are numbered level by level: `FirstNode(l)` is the
sum that gives `m_nodesInTree` and `last_layer_index`, with `Pow` for the code's `pow`
as a recursive function, which proofs can unfold (`MCZoomTree` compares it with `^`).
`KArryTreeDepth` is the exact level of a node; the code's function truncates a quotient
of doubles, which is off by one for some nodes of large trees, and is used for logs
and the record of soft detections only.

Abstractions. Messages, as said. `currentSEQ` is kept modulo the depth, which is all
the tree reads of it. Hash values are parameters: `Hash` per flow and level,
`CellBit` for the filter of a cell, `RerouteBits` for the filter of paths. Costs are
fractions compared exactly where the code compares doubles. Equal costs keep the
order of the cells: `std::sort` promises no order, and libstdc++ gives this one for
up to 16 elements. `Simulator::Stop` on uniform loss ends the behaviour (`ENDED`).
The answers of the receiver pass the sender's ingress with an all-zero flow, and
`ControlPasses` says whether the filter lets them (F 2245, 2459).

### LossRadar: batches, meters and the controller

One direction of the link between two LossRadar switches. `Send` is `DoIngress`
upstream with `UmMeter`, followed by the fate of the packet: dropped by
`DoTrafficManager`, dropped by `DoEgressTrafficManager`, or sent. `Arrive` is
`DoIngress` downstream with `DmMeter`. `UpdateBatchId` is the event of that name; the
controller's event is split into `StartController` (the subtraction), `DecodeCell`
(one cell of the loop), `NextPass` and `FinishController`, during which nothing
else happens, as a simulator event runs to its end.

Abstractions. A tuple is a set of packets, a packet p the set {p}, and XOR the
symmetric difference of sets: the XOR of several packets is taken never to be the
tuple of another packet, which with 15 random bytes is a matter of luck and not
of the algorithm. Time is in ticks. `MaxDelay` bounds the time from ingress to
ingress and `2 * MaxDelay < BatchTime` is the assumption that the comment in
`UpdateBatchId` makes ("We assume that in that time packets should be for sure at
the downstream"). The batch travels in four bits of the TOS (`BatchOf`), which the
assumption `NumBatches <= 16` makes enough ("max of 16 batch ids",
`p4-switch-loss-radar.h:72`; the code does not check it). `lost` and `congested` are history.

## Runs

`zoom_tree` takes about two and a half minutes with two workers, the others less
than half a minute. `CHECK_DEADLOCK FALSE` is given where the model stops at a bound
that stands for the end of the simulation (`MaxSeq`), and in `ZoomTree`, where uniform
loss ends the simulation and a filter that drops the protocol's own answers ends all
sessions; `LinkMonitor` and `LossRadar` never stop and have deadlock checked.

| run | checks | shows |
|---|---|---|
| `dedicated_lossy` | `TypeOK`, `SessionsAgree`, `NoUnderflow`, `EventsBounded`, `ResetOnlyForNewSession`, `SessionsComplete` | a dedicated entry over a link that may lose everything, until its session number no longer fits the header: messages keep to the header's field, the ends agree on the session, the unsigned difference does not wrap, repeated STOPs leave at most one chain of `SendGreyCounter` events per session, a repeated START erases nothing, every session whose number fits the header ends |
| `dedicated_exact` | `CountersExact`, `NoFalseAlarm`, `CounterNotSentYet`, `ImplementsMeter` | if acknowledgements of counters are not lost, the drops reported are exactly those of the session, and the protocol implements `LossMeter` |
| `tree_exact` | `SameHistory`, `ShiftOncePerSession`, `ImplementsMeter` | the same for a tree, whose ends count each packet with the same history of maxima |
| `wildcard_reliable` | `CountersExact`, `ImplementsMeter` | the wildcard machine counts exactly, and implements `LossMeter`, if no STOP and no acknowledgement of a counter is lost; packets, STARTs, counters and the unused START acknowledgements may be |
| `link_monitor` | `TypeOK`, `NoFalseLinkFailure`, `DetectedInTime`, `RestoredInTime` | the link is not declared down while nothing has gone wrong; a dead one is within two check periods; it is up again within two probe periods, the link's delay and a check period of the repair, the last dropped probe or the last lost packet |
| `net_seer` | `TypeOK`, `OnlyRealLosses`, `NoLossForgotten`, `EventsConserveLosses` | only lost packets are reported, no loss is forgotten except by a lost NACK or a wrapped ring, the event cache accounts for each |
| `zoom_tree` | `TypeOK`, `DifferencesAreLosses`, `PathsBlameLosers`, `FoundWithinDepth`, `AllFailuresRerouted` | with six settings of the attributes: the differences of the cells are the losses of their flows, every reported path is that of a flow that lost packets, the only flow that keeps losing is found in as many sessions as the tree is deep, and if all lossy flows keep losing, all end up rerouted (or a collision, a uniform loss or a false hit on the protocol's own messages is on record) |
| `loss_radar` | `TypeOK`, `BatchComplete`, `MetersConserve`, `ReportTrue`, `DecodingMaximal`, `DecodingTerminates` | a batch is read when nothing of it is on its way and before it is used again, upstream cells are downstream cells plus flying plus lost packets at every step of the decoding, what is reported was lost and adds up, and the loop ends only when no cell holds a single packet |
| `stale_timer_false_alarm`, `wildcard_lost_stop`, `net_seer_eviction`, `loss_radar_congestion` | one property each, violated | see [Findings](#findings) |

Bounds. Two or three sessions (`MaxSeq`) are enough for a message, an event or a
counter of one session to be met in the next, which is all the protocol can
confuse: numbers of older sessions are compared for equality only. Two or three
packets a session (`MaxPkts`) let a session lose none, some and all, before and
after a repeated message. `MaxChan` lets several copies of a repeated message be on
the link with packets between them. `InFlightBound` limits what is sent
spontaneously; replies only take the place of what they answer. The tree run has
three maxima and a history of three, so that a wrong shift cannot go unnoticed by
coincidence. `LinkMonitor` uses an odd check period (5, so that the probe period is
cut from 2.5 to 2), a delay longer than a probe period, so that two probes are on
the link at once, and a start (13) later than two check periods, so that a link
may have been dead for long when the first check is made; drops, losses, failures and
repairs are not bounded in number. `dedicated_lossy` has a header field of one bit, so that the
third session is beyond it. `NetSeer` sends six
packets through a ring of three, so that the ring wraps, with two flows that share
a cell of the cache and a threshold of two. `ZoomTree` has four flows with at most one
packet each per session (a session loses none, one or several of them), of which
three may lose packets: two share a path and collide, three share the root's cell,
and one lies in the cells the maxima point to at the start. The chain of depth 3 and
width 2 makes flows compete for one cell; the tree of split 2 and width 3 for two of
three. The hashes of paths are chosen so that with depth 3 the filter contains the path of
the protocol's own messages as soon as it contains those of two flows, before or after the
other flows are found, and with depth 2 has no false positives: `AllFailuresRerouted` needs its
exception for `ControlPasses` in the first case only. The number of sessions is not bounded: the state returns. `CounterMod` is
above the number of packets, as `ZoomTreeAssumption` requires; the code's is 2^32.
`LossRadar` has three packets, three cells and two hashes, chosen so that decoding
needs a second pass, one packet has both its indexes in one cell and cannot be
decoded, and a tuple may be sent up to three times in batch 0 and once in batch 1; a
batch is four ticks long and a delay is up to one.

Fairness. For `SessionsComplete` (`FairSpec`): the simulator fires every
scheduled event, so the timers are fair; strongly, since at the bound `MaxChan`,
which the code does not have, an event waits for room. Receive actions are strongly fair: a message
that is sent for ever is received at some time, as the loss models are random. For
START acknowledgements and counters this also assumes that the reroute filter does not
contain the path of the all-zero flow, with which the sender's ingress looks them up (F
2450-2500): such a filter stops them for good. `ZoomTree` has the filter, and there a
session may stop for that reason.
`RecvPacket` is weakly fair: a packet at the head of the link arrives or is lost.
Nothing is assumed of the traffic: `SendPacket` need never happen. For
`AllFailuresRerouted`: `Start`, `AckStart`, `Stop` and `Exchange` are weakly fair, which
is what `SessionsComplete` shows of the protocol below; packets are not fair, and
the property's premise says that the flows keep losing. For `DecodingTerminates`:
the controller's loop is weakly fair, as any running program is.

## Proofs

TLC checks the instances above; the following holds for every value of the
constants allowed by the named assumptions `ConstantsAssumption`,
`LinkAssumption`, `NetSeerAssumption`, `ZoomTreeAssumption` and
`LossRadarAssumption`, which the runs evaluate. Every invariant of the passing runs is
proved; what is left to TLC is at the end.

`FancyFSMProofs`
- `TypeCorrect`: `Spec => []TypeOK`.
- `HandshakeCorrect`: `Kind # "wildcard" => (Spec => []SessionsAgree)`.
- `NoUnderflowCorrect`: `Kind # "wildcard" => (Spec => []NoUnderflow)`.
- `EventsAlwaysBounded`: `Kind # "wildcard" => (Spec => []EventsBounded)`.

The last three rest on the inductive invariant `IInv`. No property is inductive:
a START acknowledgement or a counter that lies in a channel must be known to be of
a session the receiver has been in. `RingOrder` says that the numbers met when
going round from the messages on `fwd` over the receiver to the messages on `bwd`
never increase, and are bounded by the sender's: the link is FIFO both ways, and
the receiver answers with the number it has just taken. `IdleBehind` places the
receiver strictly behind a sender that has not yet announced its session; `CountsOrdered` does
the same for the ranks of packets, the receiver's count and the counters sent back
within one session; `SenderInStep` ties the sender's timer to its
state and says that it counts only in a session the receiver is in. The
first three are stated while `sSEQ < SeqMod`; from there on the sender's number
equals no number in a header, and both properties follow from `SenderInStep`
alone, since the sender never counts again. There is one lemma per action. `EventsAlwaysBounded`
adds `PInv`: on the link no START of a session follows its STOP (`StopOrder`), so that a session whose
STOP was taken is over at the receiver (`OverAtReceiver`) and adds no second event
(`OnePerSession`).

`FancyExactProofs`
- `ResetsOnlyForNewSession`, for dedicated and tree ids and any loss.
- `CountersAlwaysExact`, `NeverFalseAlarm`, `CounterNeverSentYet`, `HistoriesAgree`
  (`Kind = "tree"`), `ShiftsOnce`, and `MeterImplemented` (the refinement of `LossMeter`),
  under `SignalsArrive`: an id of any kind whose counter acknowledgements are not
  lost and, if it is the wildcard id, whose STOPs are not lost either. `MeterImplemented` also needs `MaxPkts < Word`: the packets of a session fit the
  counter.

Neither part of the hypothesis can be dropped: `stale_timer_false_alarm` shows that a
receiver that misses the acknowledgement keeps the counter timer, which then fires in
the next session, and `wildcard_lost_stop` that a wildcard receiver that misses a STOP counts
on. Everything else may be lost. The inductive invariant is `EInv`. `SenderPhase`, `ReceiverPhase` and `EventPhase`
tie each machine's timer to its state and the two states to each other;
`AckComing` says that a receiver still waiting for the acknowledgement of a session the sender
has left finds it on the link. `FwdFacts` and
`FwdOrder` describe each message on the way and each pair of them: within one session
START, packets and STOP are in this order, at stages no later than the sender's and no
earlier than the receiver's; `BwdFacts` and `BwdOrder` do so for the answers. `AllCounted` is the
balance of the session: what the receiver has counted and the link has lost never exceeds
the sender's counter, and every later rank is on the link. The packets of the wildcard id carry no session; for them
`WildcardOrder` says that a STOP the receiver still has to take is on the link, and that every packet
which is not of the session has the START behind it or the STOP ahead of it. `Stranded`
names the session whose wildcard START was lost: the receiver never joins it, it never ends, and nothing
is compared or reported. `Histories` keeps the receiver's
history of maxima one shift behind until it joins the session; `Verdict` is what the comparison
of counters has left behind. `RInv` (`StartsFirst`, `NoStartLeft`, `Overflowed`) is the smaller invariant behind
`ResetsOnlyForNewSession`: no packet of a session precedes its START.

`LinkMonitorProofs`
- `TypeCorrect`, `NoFalseLinkFailureCorrect`, `DetectedInTimeCorrect`,
  `RestoredInTimeCorrect`: all four invariants of the run.

`Busy` bounds the silence of the upstream port: `sentAge + probeIn` is less than two
probe periods (`Talking`), or a probe was dropped less than that ago (`Muted`), from
where on `FaultStep` starts again as after a repair. Place the packets on the link at their remaining delays and the
last packet received at minus its age: each is the newest packet sent or has a
successor less than two probe periods behind it (`Regular`, `Flowing`). So
`recvAge` stays below two probe periods, hence below a check period. `Starting` and
`Recovering` say what holds instead until the first packet after the start, or
after a repair, has arrived, and `Deadlines` how much of the time allowed is left.

`NetSeerProofs`
- `TypeCorrect`, `OnlyRealLossesCorrect`, `NoLossForgottenCorrect`, `EventsAlwaysConserve`.

Numbers on the link ascend from `rNext` (`InOrder`), and a number from `rNext` on is
on the link or lost (`Known`), so a gap holds lost packets only (`NacksReal`). The
last `BufferSize` packets are in the ring, in cells of their own (`RingHolds`, by
`OwnCell` on remainders), so the loop misses a number only when it was overwritten
or reported before. The conservation of events has an invariant of its own, `CInv`: what was
found was sent (`FoundSent`), the ring holds the flow of the packet it names
(`RingTrue`), and the events and the cached count of each cell add up.

`SumsProofs` states what the proofs about totals need. `SumOf(f)` (module `Sums`) is the size of
the set of pairs `<<a, k>>` with `k \in 1 .. f[a]`, so that the library's facts on finite sets give
how a sum splits, changes at one point, adds and exchanges with another, where induction over the domain
could not; the run `loss_radar` compares it with `SumFunction` of the community
modules (`SumIsSum` in `MCLossRadar`).

`LossRadarProofs`
- `TypeCorrect`, `BatchAlwaysComplete`, `MetersAlwaysConserve`, `DecodingAlwaysMaximal`,
  `ReportAlwaysTrue`: all five invariants of the run.

`IInv`: `Schedule` relates the clocks (the age of flying packets, the time since the batch
changed and the controller's delay), from which a batch is read when none of its packets flies and
before it is used again; `Quiet` says that a batch neither in use nor to be read is empty, and
`Bounded` that a cell counts no more than its batch may meter, so a batch that is used again
does not wrap; `Conserved` is `MetersConserve`, cell by cell; `Decoded` says that what was decoded so far are
lost packets, none more often than it was lost; `PassDone` that a pass which has decoded nothing so far has
passed no cell with a single packet. `TotalKept` relates the total the controller
reads at its start to the losses of the batch.

`ZoomTreeProofs`
- `TypeCorrect`, `DifferencesAlwaysLosses`.

`ZoomPathProofs`
- `PathsAlwaysBlameLosers`, `AlwaysFoundWithinDepth`.

The library's induction theorems take an operator, which these provers cannot
instantiate; `SetInduction` and `Recursion` say the same of sets of numbers and of functions, and so
give what `Pow` computes and that the walks down and up the tree exist. On them rest the lemmas on the tree:
the nodes of a level are consecutive, a child is in the next level and has its node as parent, and the way
up from a node of the last level retraces the walk down to it (`ClimbIsWalk`). The order in which an
exchange takes the cells ranks each differently (`RankBijective`), and the cell of a lone loser
first (`OnlyLossRanksFirst`).

`ZInv` adds to the types that both ends count with the same maxima, and are one shift apart
between sessions (`SameMaxima`), that nothing was sent before START is acknowledged (`NothingSent`), that each
cell counts the packets of its flows and the two ends differ by the lost ones (`Metered`), and which cells
are empty between sessions (`Emptied`). `PInv` adds that only flows hit by the failure have
lost packets (`OnlyLossyLose`); that without pipeline the maxima above the current level are the ones an exchange
would choose again (`Settled`); and that a flow which alone lost packets in the last sessions is counted in
as many levels (`Followed`).

Only model-checked: liveness under fairness (`SessionsComplete`, `DecodingTerminates`,
`AllFailuresRerouted`), which is out of the prover's reach.

## Findings

- `stale_timer_false_alarm` (F 2195): a START taken in `COUNTER_ACK` does not cancel
  the pending `SendGreyCounter`. After one lost counter acknowledgement that event
  fires inside the next session and ends the receiver's counting; packets that
  arrived are reported as drops and the entry is flagged. A comment in
  `src/scratch/main.cc` (499-503) describes "weird corner cases" of this sort.
  In a tree the same event lets a repeated START shift the receiver's history twice
  in a session (F 2367), although it should be shifted "the first time we receive
  the Init signal" (F 1347); `tree_exact` therefore assumes, as `dedicated_exact`
  does, that no acknowledgement of a counter is lost.
- `wildcard_lost_stop` (F 2063): with one STOP lost the wildcard receiver counts
  packets the sender does not count.
- `net_seer_eviction` (`p4-switch-net-seer.cc` 544): the flow that evicts another
  from the event cache is reported with the other's count.
- `loss_radar_congestion` (`p4-switch-loss-radar.cc` 538): a packet is metered before
  the traffic manager drops it, so congestion is reported as loss on the link; the
  comment at 568 says that "congestion does not affect us".

Not runs of their own:

- The traffic manager drops keep-alive probes with normal traffic (F 751), since both
  have action 0, and before they count as sent. On an idle link two such drops make a
  silence longer than the check period, and a working link is declared down, although
  comments say that "congestion does not affect us" (F 736) and "only normal traffic,
  we do not drop good traffic" (F 750). With the invariant
  `faults \subseteq {"congestion"} => linkState` in `LinkMonitor.cfg` TLC shows it;
  `NoFalseLinkFailure` states what is left, and `RestoredInTime` that the alarm ends
  in time.
- The sender compares its 32-bit session number with the 16 bits
  of the header (F 2556), so that from session 65536 of an id on no acknowledgement
  matches and START is repeated for ever. `dedicated_lossy` shows that nothing is
  counted or reported wrongly there; that such a session never ends is why
  `SessionsComplete` speaks of the sessions that fit the header only.
- `SessionsComplete` also holds of a tree with the configuration of `dedicated_lossy`:
  its counters are never acknowledged twice (F 2538), but the next START frees the
  receiver.

## What is not modelled

- The vendored ns-3: its events (each fires once unless cancelled) and FIFO links are
  assumed as the code uses them. All the Python of the repository belongs to it
  (generated bindings, build scripts, the test runner); the program modelled here is
  the C++ under `src/contrib`, so a measure by Python lines shows nothing of it.
- Traffic generators (a packet may leave at any time), drivers, files, printing,
  simulation records and hashing (any function).
- The pipeline's tables and the header's byte layout: a fixed sequence of calls and
  plain serialisation, which no property is about.
- The NAT switch, which `src/scratch/main.cc` installs under `--EnableNat` only (1132-1135)
  and no other component touches.
- `LinkUp` of a point-to-point link, which calls `LinkDown`
  (`src/contrib/utils/model/utils.cc` 312-313): the switches' links are CSMA.
- Red and green flows of the error model: the models let every packet be lost.
- The soft detections of the tree, a record with undefined behaviour (F 1597), and
  the early stop of the simulation, which only cuts behaviours short.
- The reroute filter of the opposite direction, which can drop a receiver's START
  acknowledgement at the receiver's own ingress in the same way as `ControlPasses`.

## Plan

Done: `FancyFSM`, `LossMeter`, `LinkMonitor`, `NetSeer`, `ZoomTree` (with rerouting) and
`LossRadar`, and proofs of every invariant and action property that their runs check, and of
the refinement of `LossMeter`. Left to TLC: the three liveness properties, and the
four violations, which are counterexamples.
