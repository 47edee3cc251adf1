----------------------------- MODULE LossRadar -----------------------------
(***************************************************************************)
(* P4SwitchLossRadar on one direction of the link between two switches.    *)
(* The upstream switch meters a packet in the cells of the current batch,  *)
(* at ingress, and marks it with the batch; the downstream switch meters   *)
(* it in its own cells of that batch.  A cell holds a count and the XOR of *)
(* the five-tuples (with the IP id) of its packets.  Half a batch time     *)
(* after a batch has ended the controller subtracts the downstream cells   *)
(* from the upstream ones and decodes the rest: a cell of count 1 holds    *)
(* one lost packet, which is then removed from its other cells.            *)
(*                                                                         *)
(* The XOR of tuples is the symmetric difference of sets of packets, so    *)
(* that a tuple is a set of packets and the packet p is {p}: no XOR of     *)
(* several packets is itself the tuple of a packet.  The same packet may   *)
(* be sent more than once.  Time is discrete; MaxDelay bounds the time     *)
(* from ingress to ingress, queues included.  The controller is an event   *)
(* of the simulator: nothing else happens while its loop runs.             *)
(*                                                                         *)
(* An operator that stands just before a definition and is used nowhere is *)
(* a faulty variant of it, kept to show that the properties notice it.     *)
(***************************************************************************)
EXTENDS Integers, Sequences, FiniteSets, Sums

CONSTANTS
    Packets,     \* five-tuples with the IP id
    NumCells,    \* m_numCells
    NumHashes,   \* m_numHashes
    Hash,        \* the cells of a tuple, GetMeterHashIndexes
    NumBatches,  \* m_numBatches
    BatchTime,   \* m_batchTimeMs, in ticks
    TmDrops,     \* m_tm_drop_rate > 0
    MaxDelay,    \* bound: ticks from the upstream to the downstream ingress
    CounterMod,  \* pkt_counter is unsigned, modulo this (2^32)
    MaxMetered   \* bound: packets metered in a batch

Cells == 0 .. NumCells - 1
Batches == 0 .. NumBatches - 1
Tuples == SUBSET Packets
NoBatch == NumBatches
TosBatches == 16  \* the batch travels in the high four bits of the TOS

ASSUME LossRadarAssumption ==
    /\ IsFiniteSet(Packets)
    /\ NumCells \in Nat \ {0} /\ NumHashes \in Nat \ {0}
    /\ Hash \in [Tuples -> [1 .. NumHashes -> Cells]]
    /\ NumBatches \in Nat /\ NumBatches >= 2
    \* "max of 16 batch ids": the code does not check it.
    /\ NumBatches <= TosBatches
    /\ TmDrops \in BOOLEAN
    /\ MaxMetered \in [Batches -> Nat] /\ CounterMod \in Nat
    \* The counters of a batch do not overflow.
    /\ \A b \in Batches : NumHashes * MaxMetered[b] < CounterMod
    \* "We assume that in that time packets should be for sure at the
    \* downstream" (UpdateBatchId): half a batch time outlasts any delay.
    /\ BatchTime \in Nat \ {0} /\ BatchTime % 2 = 0
    /\ MaxDelay \in Nat /\ 2 * MaxDelay < BatchTime

VARIABLES
    now,      \* ticks since the batch changed
    current,  \* current_batch_id of the upstream port
    due,      \* the batch the scheduled Controller will read, or NoBatch
    um, dm,   \* um_info upstream and dm_info downstream
    fly,      \* packets between the two ingresses: tuple, batch, age
    metered,  \* bound: packets metered in the current batch
    ctl,      \* the controller's loop: running, next cell, step
    packetsLost, \* packets_lost of the controller's run
    total,    \* total_packets_lost_in_batch
    lost,     \* history: packets lost of a batch, with multiplicity
    congested \* history: those of them the traffic manager dropped

timeVars == <<now, current, due>>
meterVars == <<um, dm, fly, metered, lost, congested>>
controllerVars == <<ctl, packetsLost, total>>
vars == <<timeVars, meterVars, controllerVars>>

NoPackets == [p \in Packets |-> 0]
EmptyMeter == [c \in Cells |-> [n |-> 0, x |-> {}]]
Idle == [on |-> FALSE, i |-> 0, step |-> FALSE]

Init ==
    /\ now = 0 /\ current = 0 /\ due = NoBatch
    /\ um = [b \in Batches |-> EmptyMeter] /\ dm = um
    /\ fly = <<>> /\ metered = 0
    /\ ctl = Idle /\ packetsLost = <<>> /\ total = 0
    /\ lost = [b \in Batches |-> NoPackets] /\ congested = lost

SymDiff(s, t) == (s \ t) \cup (t \ s)

(* How often a tuple is metered in cell c, and what it adds to the XOR.     *)
Weight == [t \in Tuples |-> [c \in Cells |-> Cardinality({i \in 1 .. NumHashes : Hash[t][i] = c})]]
Share(t, c) == IF Weight[t][c] % 2 = 1 THEN t ELSE {}

(* UmMeter and DmMeter; and the removal of a decoded tuple from its cells.  *)
Meter(m, t) ==
    [c \in Cells |-> [n |-> (m[c].n + Weight[t][c]) % CounterMod,
                      x |-> SymDiff(m[c].x, Share(t, c))]]
RemoveCountOnly(m, t) ==
    [c \in Cells |-> [n |-> (m[c].n - Weight[t][c]) % CounterMod, x |-> m[c].x]]
Remove(m, t) ==
    [c \in Cells |-> [n |-> (m[c].n - Weight[t][c]) % CounterMod,
                      x |-> SymDiff(m[c].x, Share(t, c))]]
Subtract(m, other) ==
    [c \in Cells |-> [n |-> (m[c].n - other[c].n) % CounterMod,
                      x |-> SymDiff(m[c].x, other[c].x)]]

-----------------------------------------------------------------------------
Fates == {"sent", "gray"} \cup IF TmDrops THEN {"congestion"} ELSE {}

(* DoIngress upstream meters a packet; then the traffic manager drops it    *)
(* (congestion), the egress drops it (gray failure), or it is sent.         *)
Send(p, fate) ==
    /\ ~ctl.on /\ metered < MaxMetered[current]
    /\ metered' = metered + 1
    /\ um' = [um EXCEPT ![current] = Meter(@, {p})]
    /\ fly' = IF fate = "sent" THEN Append(fly, [pkt |-> p, batch |-> current, age |-> 0])
              ELSE fly
    /\ lost' = IF fate = "sent" THEN lost ELSE [lost EXCEPT ![current][p] = @ + 1]
    /\ congested' = IF fate = "congestion" THEN [congested EXCEPT ![current][p] = @ + 1]
                    ELSE congested
    /\ UNCHANGED <<timeVars, dm, controllerVars>>

(* DoIngress downstream meters a packet by the batch it carries in its TOS,  *)
(* written by setTosHi and read by getTosHi.                                 *)
BatchOfCurrent(packet) == current
BatchOf(packet) == packet.batch % TosBatches

Arrive ==
    /\ ~ctl.on /\ fly # <<>>
    /\ dm' = [dm EXCEPT ![BatchOf(Head(fly))] = Meter(@, {Head(fly).pkt})]
    /\ fly' = Tail(fly)
    /\ UNCHANGED <<timeVars, um, metered, lost, congested, controllerVars>>

(* The link loses a packet. *)
Lose ==
    /\ ~ctl.on /\ fly # <<>>
    /\ lost' = [lost EXCEPT ![Head(fly).batch][Head(fly).pkt] = @ + 1]
    /\ fly' = Tail(fly)
    /\ UNCHANGED <<timeVars, um, dm, metered, congested, controllerVars>>

-----------------------------------------------------------------------------
(* Time and the two scheduled events. *)

ControllerDelayNone == 0
ControllerDelay == BatchTime \div 2

ControllerDue == due # NoBatch /\ now >= ControllerDelay

Tick ==
    /\ ~ctl.on /\ ~ControllerDue /\ now < BatchTime
    /\ \A k \in DOMAIN fly : fly[k].age < MaxDelay
    /\ now' = now + 1
    /\ fly' = [k \in DOMAIN fly |-> [fly[k] EXCEPT !.age = @ + 1]]
    /\ UNCHANGED <<current, due, um, dm, metered, lost, congested, controllerVars>>

NextBatchUnbounded == current + 1
NextBatch == (current + 1) % NumBatches

UpdateBatchId ==
    /\ ~ctl.on /\ now = BatchTime
    /\ current' = NextBatch
    /\ due' = current
    /\ now' = 0 /\ metered' = 0
    /\ UNCHANGED <<um, dm, fly, lost, congested, controllerVars>>

(* Controller: subtract, then passes over the cells until one finds none of *)
(* count 1, then report what is left and clear both meters of the batch.    *)
FreshPassKeepStep == [on |-> TRUE, i |-> 0, step |-> ctl.step]
FreshPass == [on |-> TRUE, i |-> 0, step |-> FALSE]

StartController ==
    /\ ~ctl.on /\ ControllerDue
    /\ um' = [um EXCEPT ![due] = Subtract(@, dm[due])]
    /\ ctl' = FreshPass
    /\ packetsLost' = <<>>
    /\ total' = SumOf([c \in Cells |-> um'[due][c].n])
    /\ UNCHANGED <<timeVars, dm, fly, metered, lost, congested>>

PureCell(c) == um[due][c].n = 1

DecodeCell ==
    /\ ctl.on /\ ctl.i < NumCells
    /\ IF PureCell(ctl.i)
       THEN LET flow == um[due][ctl.i].x
            IN /\ packetsLost' = Append(packetsLost, flow)
               /\ um' = [um EXCEPT ![due] = Remove(@, flow)]
               /\ ctl' = [ctl EXCEPT !.i = @ + 1, !.step = TRUE]
       ELSE /\ ctl' = [ctl EXCEPT !.i = @ + 1]
            /\ UNCHANGED <<packetsLost, um>>
    /\ UNCHANGED <<timeVars, dm, fly, metered, lost, congested, total>>

ConvergedAtOnce == TRUE
Converged == ~ctl.step

NextPass ==
    /\ ctl.on /\ ctl.i = NumCells /\ ~Converged
    /\ ctl' = FreshPass
    /\ UNCHANGED <<timeVars, meterVars, packetsLost, total>>

(* The failure event: packets_lost, and what could not be decoded.          *)
Reporting == ctl.on /\ ctl.i = NumCells /\ Converged
NonDetected == SumOf([c \in Cells |-> um[due][c].n])

FinishController ==
    /\ Reporting
    /\ um' = [um EXCEPT ![due] = EmptyMeter]
    /\ dm' = [dm EXCEPT ![due] = EmptyMeter]
    /\ lost' = [lost EXCEPT ![due] = NoPackets]
    /\ congested' = [congested EXCEPT ![due] = NoPackets]
    /\ ctl' = Idle /\ due' = NoBatch /\ packetsLost' = <<>> /\ total' = 0
    /\ UNCHANGED <<now, current, fly, metered>>

Next ==
    \/ \E p \in Packets, fate \in Fates : Send(p, fate)
    \/ Arrive \/ Lose \/ Tick \/ UpdateBatchId
    \/ StartController \/ DecodeCell \/ NextPass \/ FinishController

(* The loop of an event runs on; nothing makes packets be sent. *)
Spec == Init /\ [][Next]_vars /\ WF_vars(DecodeCell \/ NextPass \/ FinishController)

-----------------------------------------------------------------------------
Times(t) == Cardinality({k \in DOMAIN packetsLost : packetsLost[k] = t})
Flying(b, p) == Cardinality({k \in DOMAIN fly : fly[k].batch = b /\ fly[k].pkt = p})

(* How often p is in the upstream meter of b and not in the downstream one. *)
Missing(b, p) ==
    lost[b][p] + Flying(b, p) - IF ctl.on /\ b = due THEN Times({p}) ELSE 0

(* Types; counts stay below their modulus and ages below MaxDelay. *)
TypeOK ==
    /\ now \in 0 .. BatchTime /\ current \in Batches /\ due \in Batches \cup {NoBatch}
    /\ {um, dm} \subseteq [Batches -> [Cells -> [n : 0 .. CounterMod - 1, x : Tuples]]]
    /\ fly \in Seq([pkt : Packets, batch : Batches, age : 0 .. MaxDelay])
    /\ metered \in 0 .. MaxMetered[current]
    /\ ctl \in [on : BOOLEAN, i : 0 .. NumCells, step : BOOLEAN]
    /\ packetsLost \in Seq(Tuples) /\ total \in Nat
    /\ lost \in [Batches -> [Packets -> Nat]] /\ congested \in [Batches -> [Packets -> Nat]]

(* While the controller reads a batch, no packet of that batch is metered,  *)
(* on its way, or yet to come: the half batch time it waits is long enough, *)
(* and its work is done before the batch is used again.                     *)
BatchComplete ==
    /\ ctl.on => due # current /\ \A k \in DOMAIN fly : fly[k].batch # due
    /\ now = BatchTime => due = NoBatch

(* A cell of the upstream meter is the downstream one, and the packets on   *)
(* their way, and the packets lost, but for those already decoded: count    *)
(* and XOR, at every moment, in every batch.  Hence the subtraction leaves  *)
(* the lost packets only, and no count ever falls below zero ("What happens *)
(* if we go negative here?", Controller).                                   *)
MetersConserve ==
    \A b \in Batches, c \in Cells :
        LET rest == [p \in Packets |-> Missing(b, p) * Weight[{p}][c]]
            base == IF ctl.on /\ b = due THEN [n |-> 0, x |-> {}] ELSE dm[b][c]
        IN /\ um[b][c].n = base.n + SumOf(rest)
           /\ um[b][c].x = SymDiff(base.x, {p \in Packets : rest[p] % 2 = 1})

(* What the controller reports is true of the batch: the packets decoded    *)
(* were lost, each as often as it is reported, and the decoded ones and     *)
(* the undecoded ones are all that were lost.                               *)
ReportTrue ==
    Reporting =>
        /\ \A k \in DOMAIN packetsLost : \E p \in Packets : packetsLost[k] = {p}
        /\ \A p \in Packets : Times({p}) <= lost[due][p]
        /\ total \div NumHashes = SumOf(lost[due])
        /\ Len(packetsLost) + NonDetected \div NumHashes = SumOf(lost[due])

(* The controller stops only where no cell has exactly one lost packet      *)
(* left: whatever the order of its passes, all that peeling can decode is   *)
(* decoded.                                                                 *)
DecodingMaximal ==
    Reporting =>
        \A c \in Cells :
            SumOf([p \in Packets |-> (lost[due][p] - Times({p})) * Weight[{p}][c]]) # 1

(* The controller's loop ends. *)
DecodingTerminates == ctl.on ~> ~ctl.on

(* "We just used this to show that congestion does not affect us"           *)
(* (DoTrafficManager): a packet that the traffic manager drops is not       *)
(* reported as lost.  Violated: it is metered at ingress, before the drop.  *)
CongestionNotReported ==
    Reporting => \A p \in Packets : Times({p}) <= lost[due][p] - congested[due][p]
=============================================================================
