-------------------------- MODULE LossRadarProofs --------------------------
(***************************************************************************)
(* Proofs about LossRadar.                                                 *)
(***************************************************************************)
EXTENDS LossRadar, SumsProofs

-----------------------------------------------------------------------------
(* Constants and operators. *)

LEMMA Constants ==
    /\ NumCells \in Nat /\ NumCells > 0 /\ NumHashes \in Nat /\ NumHashes > 0
    /\ CounterMod \in Nat /\ CounterMod > 0
    /\ NumBatches \in Nat /\ NumBatches >= 2 /\ NoBatch \notin Batches
    /\ ControllerDelay \in Nat /\ MaxDelay \in Nat /\ BatchTime \in Nat
    /\ MaxDelay < ControllerDelay /\ ControllerDelay < BatchTime
    /\ IsFiniteSet(Cells) /\ IsFiniteSet(Packets)
<1>1. CounterMod > 0
  <2>1. 0 \in Batches
    BY LossRadarAssumption DEF Batches
  <2>2. NumHashes * MaxMetered[0] < CounterMod /\ MaxMetered[0] \in Nat /\ NumHashes \in Nat
    BY <2>1, LossRadarAssumption
  <2>3. NumHashes * MaxMetered[0] \in Nat
    BY <2>2
  <2> QED
    BY <2>2, <2>3, LossRadarAssumption
<1>2. IsFiniteSet(Cells)
  BY LossRadarAssumption, FS_Interval DEF Cells
<1>3. /\ ControllerDelay \in Nat /\ MaxDelay < ControllerDelay /\ ControllerDelay < BatchTime
  BY LossRadarAssumption DEF ControllerDelay
<1> QED
  BY <1>1, <1>2, <1>3, LossRadarAssumption DEF Batches, NoBatch

LEMMA Metering ==
    ASSUME NEW t \in Tuples, NEW c \in Cells
    PROVE  Weight[t][c] \in 0 .. NumHashes
<1> DEFINE slots == {i \in 1 .. NumHashes : Hash[t][i] = c}
<1>1. IsFiniteSet(1 .. NumHashes) /\ Cardinality(1 .. NumHashes) = NumHashes
  BY Constants, FS_Interval
<1>2. slots \in SUBSET (1 .. NumHashes)
  OBVIOUS
<1> HIDE DEF slots
<1>3. IsFiniteSet(slots) /\ Cardinality(slots) <= NumHashes
  BY <1>1, <1>2, FS_Subset
<1>4. Cardinality(slots) \in Nat
  BY <1>3, FS_CardinalityType
<1>5. Weight[t][c] = Cardinality(slots)
  BY DEF Weight, slots
<1> QED
  BY <1>3, <1>4, <1>5, Constants

(* Every index of a tuple is a cell: its weights add up to NumHashes. *)
LEMMA MeteredInAll ==
    ASSUME NEW t \in Tuples, NEW w \in [Cells -> Nat], \A c \in Cells : w[c] = Weight[t][c]
    PROVE  SumOf(w) = NumHashes
<1> DEFINE T == 1 .. NumHashes
           class == [c \in Cells |-> {i \in T : Hash[t][i] = c}]
           h == Hash[t]
<1>1. IsFiniteSet(T) /\ Cardinality(T) = NumHashes
  BY Constants, FS_Interval
<1>2. h \in [T -> Cells]
  BY LossRadarAssumption
<1>3. DOMAIN class = Cells /\ \A c \in Cells : w[c] = Cardinality(class[c])
  BY DEF Weight
<1>4. \A c \in Cells : class[c] = {i \in T : h[i] = c}
  OBVIOUS
<1>5. IsFiniteSet(Cells)
  BY Constants
<1> HIDE DEF T, class, h
<1> QED
  BY <1>1, <1>2, <1>3, <1>4, <1>5, SumOfClasses

CellValues == [n : 0 .. CounterMod - 1, x : Tuples]

LEMMA Modulo ==
    ASSUME NEW a \in Int
    PROVE  /\ a % CounterMod \in 0 .. CounterMod - 1
           /\ a \in 0 .. CounterMod - 1 => a % CounterMod = a
BY Constants

(* The operations on meters have meters as results. *)
LEMMA MeterTypes ==
    ASSUME NEW m \in [Cells -> CellValues], NEW o \in [Cells -> CellValues], NEW t \in Tuples
    PROVE  /\ Meter(m, t) \in [Cells -> CellValues]
           /\ Remove(m, t) \in [Cells -> CellValues]
           /\ Subtract(m, o) \in [Cells -> CellValues]
           /\ EmptyMeter \in [Cells -> CellValues]
<1>1. \A c \in Cells : Weight[t][c] \in Int /\ m[c].n \in Int /\ o[c].n \in Int
  BY Metering, Constants DEF CellValues
<1>2. \A c \in Cells : /\ SymDiff(m[c].x, Share(t, c)) \in Tuples
                       /\ SymDiff(m[c].x, o[c].x) \in Tuples
  BY DEF SymDiff, Share, CellValues, Tuples
<1>3. \A c \in Cells : /\ (m[c].n + Weight[t][c]) % CounterMod \in 0 .. CounterMod - 1
                       /\ (m[c].n - Weight[t][c]) % CounterMod \in 0 .. CounterMod - 1
                       /\ (m[c].n - o[c].n) % CounterMod \in 0 .. CounterMod - 1
  BY <1>1, Modulo
<1>4. EmptyMeter \in [Cells -> CellValues]
  BY Constants DEF EmptyMeter, CellValues, Tuples
<1> QED
  BY <1>2, <1>3, <1>4 DEF Meter, Remove, Subtract, CellValues

(* How often an element of a set occurs in a sequence. *)
Occurrences(s, Q) == Cardinality({k \in DOMAIN s : s[k] \in Q})

LEMMA OccurrencesType ==
    ASSUME NEW X, NEW s \in Seq(X), NEW Q
    PROVE  IsFiniteSet({k \in DOMAIN s : s[k] \in Q}) /\ Occurrences(s, Q) \in Nat
<1>1. DOMAIN s = 1 .. Len(s) /\ Len(s) \in Nat
  OBVIOUS
<1>2. IsFiniteSet(DOMAIN s)
  BY <1>1, FS_Interval
<1>3. {k \in DOMAIN s : s[k] \in Q} \in SUBSET DOMAIN s
  OBVIOUS
<1>4. IsFiniteSet({k \in DOMAIN s : s[k] \in Q})
  BY <1>2, <1>3, FS_Subset
<1> QED
  BY <1>4, FS_CardinalityType DEF Occurrences

LEMMA OccurrencesAppend ==
    ASSUME NEW X, NEW s \in Seq(X), NEW x \in X, NEW Q
    PROVE  Occurrences(Append(s, x), Q) = Occurrences(s, Q) + IF x \in Q THEN 1 ELSE 0
<1> DEFINE old == {k \in DOMAIN s : s[k] \in Q}
           new == {k \in DOMAIN Append(s, x) : Append(s, x)[k] \in Q}
           n == Len(s) + 1
<1>1. IsFiniteSet(old) /\ Cardinality(old) \in Nat
  BY OccurrencesType DEF Occurrences
<1>2. n \notin old
  OBVIOUS
<1>3. new = IF x \in Q THEN old \cup {n} ELSE old
  OBVIOUS
<1> HIDE DEF old, new, n
<1>4. Cardinality(old \cup {n}) = Cardinality(old) + 1
  BY <1>1, <1>2, FS_AddElement
<1>5. Cardinality(new) = Cardinality(old) + IF x \in Q THEN 1 ELSE 0
  BY <1>1, <1>3, <1>4
<1> QED
  BY <1>5 DEF Occurrences, old, new

LEMMA OccurrencesTail ==
    ASSUME NEW X, NEW s \in Seq(X), s # <<>>, NEW Q
    PROVE  Occurrences(s, Q) = Occurrences(Tail(s), Q) + IF Head(s) \in Q THEN 1 ELSE 0
<1> DEFINE old == {k \in DOMAIN s : s[k] \in Q}
           new == {k \in DOMAIN Tail(s) : Tail(s)[k] \in Q}
           h == [k \in new |-> k + 1]
<1>1. Tail(s) \in Seq(X) /\ Len(Tail(s)) = Len(s) - 1 /\ Len(s) \in Nat /\ Len(s) > 0
  OBVIOUS
<1>2. DOMAIN s = 1 .. Len(s) /\ DOMAIN Tail(s) = 1 .. Len(s) - 1
  BY <1>1
<1>3. \A k \in 1 .. Len(s) - 1 : Tail(s)[k] = s[k + 1]
  OBVIOUS
<1>4. IsFiniteSet(old) /\ IsFiniteSet(new) /\ Cardinality(new) \in Nat
  BY <1>1, OccurrencesType DEF Occurrences
<1>5. h \in [new -> old \ {1}]
  BY <1>1, <1>2, <1>3
<1>6. \A j, k \in new : h[j] = h[k] => j = k
  BY <1>2
<1>7. \A k \in old \ {1} : \E j \in new : h[j] = k
  <2> TAKE k \in old \ {1}
  <2>1. k - 1 \in new
    BY <1>1, <1>2, <1>3
  <2> QED
    BY <1>2, <2>1
<1>8. 1 \in old <=> Head(s) \in Q
  BY <1>1, <1>2
<1> HIDE DEF old, new, h
<1>9. Cardinality(old \ {1}) = Cardinality(new)
  BY <1>4, <1>5, <1>6, <1>7, SameSize
<1>10. Cardinality(old \ {1}) = IF 1 \in old THEN Cardinality(old) - 1 ELSE Cardinality(old)
  BY <1>4, FS_RemoveElement
<1>11. Cardinality(old) \in Nat
  BY <1>4, FS_CardinalityType
<1>12. Cardinality(old) = Cardinality(new) + IF Head(s) \in Q THEN 1 ELSE 0
  BY <1>4, <1>8, <1>9, <1>10, <1>11
<1> QED
  BY <1>12 DEF Occurrences, old, new

-----------------------------------------------------------------------------
(* The batches in time.  A batch is due for the first half of the next one  *)
(* only; a packet is of the current batch, or of the due one and then at    *)
(* least as old as the current one.                                         *)

Schedule ==
    /\ due # NoBatch => due # current /\ now <= ControllerDelay
    /\ ctl.on => due # NoBatch /\ now >= ControllerDelay
    /\ \A k \in DOMAIN fly : \/ fly[k].batch = current
                             \/ fly[k].batch = due /\ fly[k].age >= now

FlyRecords == [pkt : Packets, batch : Batches, age : 0 .. MaxDelay]
MeterArrays == [Batches -> [Cells -> CellValues]]

LEMMA TypeFacts ==
    ASSUME TypeOK
    PROVE  /\ now \in Nat /\ now <= BatchTime /\ current \in Batches
           /\ due \in Batches \cup {NoBatch}
           /\ um \in MeterArrays /\ dm \in MeterArrays
           /\ fly \in Seq(FlyRecords) /\ metered \in Nat /\ metered <= MaxMetered[current]
           /\ MaxMetered[current] \in Nat
           /\ ctl \in [on : BOOLEAN, i : 0 .. NumCells, step : BOOLEAN]
           /\ packetsLost \in Seq(Tuples) /\ total \in Nat
           /\ lost \in [Batches -> [Packets -> Nat]]
           /\ congested \in [Batches -> [Packets -> Nat]]
<1>1. MaxMetered[current] \in Nat
  BY LossRadarAssumption DEF TypeOK
<1> QED
  BY <1>1, LossRadarAssumption DEF TypeOK, FlyRecords, MeterArrays, CellValues

LEMMA FlyFacts ==
    ASSUME TypeOK, NEW k \in DOMAIN fly
    PROVE  /\ fly[k] \in FlyRecords /\ fly[k].pkt \in Packets /\ fly[k].batch \in Batches
           /\ fly[k].age \in Nat /\ fly[k].age <= MaxDelay
<1>1. fly \in Seq(FlyRecords)
  BY TypeFacts
<1>2. fly[k] \in FlyRecords
  BY <1>1
<1> QED
  BY <1>2, Constants DEF FlyRecords

(* The four bits of the TOS that carry the batch are enough for its number. *)
LEMMA BatchFitsTos ==
    ASSUME NEW packet, packet.batch \in Batches
    PROVE  BatchOf(packet) = packet.batch
<1>1. packet.batch \in Nat /\ packet.batch < 16
  BY LossRadarAssumption DEF Batches, TosBatches
<1>2. \A n \in Nat : n < 16 => n % 16 = n
  OBVIOUS
<1> QED
  BY <1>1, <1>2 DEF BatchOf, TosBatches

LEMMA OneMore ==
    ASSUME NEW l \in [Batches -> [Packets -> Nat]], NEW b \in Batches, NEW p \in Packets
    PROVE  /\ [l EXCEPT ![b][p] = @ + 1] \in [Batches -> [Packets -> Nat]]
           /\ \A a \in Batches, q \in Packets :
                [l EXCEPT ![b][p] = @ + 1][a][q] =
                    IF a = b /\ q = p THEN l[a][q] + 1 ELSE l[a][q]
<1>1. l[b] \in [Packets -> Nat] /\ l[b][p] \in Nat
  OBVIOUS
<1>2. [l[b] EXCEPT ![p] = @ + 1] \in [Packets -> Nat]
  BY <1>1
<1> QED
  BY <1>1, <1>2

LEMMA InitType == Init => TypeOK /\ Schedule
<1> SUFFICES ASSUME Init PROVE TypeOK /\ Schedule
  OBVIOUS
<1>1. EmptyMeter \in [Cells -> CellValues]
  BY Constants DEF EmptyMeter, CellValues, Tuples
<1>2. um \in MeterArrays /\ dm \in MeterArrays
  BY <1>1 DEF Init, MeterArrays
<1>3. current \in Batches /\ MaxMetered[current] \in Nat
  BY LossRadarAssumption DEF Init, Batches
<1>4. lost \in [Batches -> [Packets -> Nat]] /\ congested \in [Batches -> [Packets -> Nat]]
  BY DEF Init, NoPackets
<1>5. ctl \in [on : BOOLEAN, i : 0 .. NumCells, step : BOOLEAN] /\ ~ctl.on
  BY Constants DEF Init, Idle
<1>6. TypeOK
  BY <1>2, <1>3, <1>4, <1>5, Constants DEF Init, TypeOK, FlyRecords, MeterArrays, CellValues
<1>7. Schedule
  BY <1>5 DEF Init, Schedule
<1> QED
  BY <1>6, <1>7

LEMMA SendType ==
    ASSUME TypeOK, Schedule, NEW p \in Packets, NEW fate \in Fates, Send(p, fate)
    PROVE  TypeOK' /\ Schedule'
<1> USE TypeFacts
<1>1. {p} \in Tuples
  BY DEF Tuples
<1>2. Meter(um[current], {p}) \in [Cells -> CellValues]
  BY <1>1, MeterTypes DEF MeterArrays
<1>3. um' \in MeterArrays /\ dm' \in MeterArrays
  BY <1>2 DEF Send, MeterArrays
<1>4. [pkt |-> p, batch |-> current, age |-> 0] \in FlyRecords
  BY Constants DEF FlyRecords
<1>5. fly' \in Seq(FlyRecords)
  BY <1>4 DEF Send
<1>6. lost' \in [Batches -> [Packets -> Nat]] /\ congested' \in [Batches -> [Packets -> Nat]]
  <2>1. /\ [lost EXCEPT ![current][p] = @ + 1] \in [Batches -> [Packets -> Nat]]
        /\ [congested EXCEPT ![current][p] = @ + 1] \in [Batches -> [Packets -> Nat]]
    BY OneMore
  <2> QED
    BY <2>1 DEF Send
<1>7. metered' \in Nat /\ metered' <= MaxMetered[current']
  BY DEF Send, timeVars
<1>8. TypeOK'
  <2>1. UNCHANGED <<now, current, due, ctl, packetsLost, total>>
    BY DEF Send, timeVars, controllerVars
  <2> QED
    BY <1>3, <1>5, <1>6, <1>7, <2>1, Constants DEF TypeOK, FlyRecords, MeterArrays, CellValues
<1>9. \A k \in DOMAIN fly' : fly'[k].batch = current \/ (k \in DOMAIN fly /\ fly'[k] = fly[k])
  BY <1>4 DEF Send
<1>10. Schedule'
  BY <1>9 DEF Send, Schedule, timeVars, controllerVars
<1> QED
  BY <1>8, <1>10

LEMMA HeadAndTail ==
    ASSUME TypeOK, fly # <<>>
    PROVE  /\ Head(fly) \in FlyRecords /\ Head(fly).pkt \in Packets /\ Head(fly).batch \in Batches
           /\ Head(fly) = fly[1] /\ 1 \in DOMAIN fly
           /\ Tail(fly) \in Seq(FlyRecords)
           /\ \A k \in DOMAIN Tail(fly) : k + 1 \in DOMAIN fly /\ Tail(fly)[k] = fly[k + 1]
<1>1. fly \in Seq(FlyRecords)
  BY TypeFacts
<1>2. /\ Head(fly) \in FlyRecords /\ Head(fly) = fly[1] /\ 1 \in DOMAIN fly
      /\ Tail(fly) \in Seq(FlyRecords)
      /\ \A k \in DOMAIN Tail(fly) : k + 1 \in DOMAIN fly /\ Tail(fly)[k] = fly[k + 1]
  BY <1>1
<1> QED
  BY <1>2 DEF FlyRecords

LEMMA ArriveType ==
    ASSUME TypeOK, Schedule, Arrive
    PROVE  TypeOK' /\ Schedule'
<1> DEFINE head == Head(fly)
<1>1. head.pkt \in Packets /\ head.batch \in Batches /\ Tail(fly) \in Seq(FlyRecords)
  BY HeadAndTail DEF Arrive
<1>2. {head.pkt} \in Tuples
  BY <1>1 DEF Tuples
<1>3. Meter(dm[head.batch], {head.pkt}) \in [Cells -> CellValues]
  BY <1>1, <1>2, MeterTypes, TypeFacts DEF MeterArrays
<1>4. dm' = [dm EXCEPT ![head.batch] = Meter(@, {head.pkt})]
  BY <1>1, BatchFitsTos DEF Arrive
<1> HIDE DEF head
<1>5. dm' \in MeterArrays
  BY <1>1, <1>3, <1>4, TypeFacts DEF MeterArrays
<1>6. TypeOK'
  BY <1>1, <1>5, TypeFacts, Constants
     DEF Arrive, timeVars, controllerVars, TypeOK, FlyRecords, MeterArrays, CellValues
<1>7. Schedule'
  BY HeadAndTail DEF Arrive, Schedule, timeVars, controllerVars
<1> QED
  BY <1>6, <1>7

LEMMA LoseType ==
    ASSUME TypeOK, Schedule, Lose
    PROVE  TypeOK' /\ Schedule'
<1> DEFINE head == Head(fly)
<1>1. head.pkt \in Packets /\ head.batch \in Batches /\ Tail(fly) \in Seq(FlyRecords)
  BY HeadAndTail DEF Lose
<1>2. lost' = [lost EXCEPT ![head.batch][head.pkt] = @ + 1]
  BY DEF Lose
<1> HIDE DEF head
<1>4. lost' \in [Batches -> [Packets -> Nat]]
  <2>1. [lost EXCEPT ![head.batch][head.pkt] = @ + 1] \in [Batches -> [Packets -> Nat]]
    BY <1>1, TypeFacts, OneMore
  <2> QED
    BY <1>2, <2>1
<1>5. TypeOK'
  BY <1>1, <1>4, TypeFacts, Constants
     DEF Lose, timeVars, controllerVars, TypeOK, FlyRecords, MeterArrays, CellValues
<1>6. Schedule'
  BY HeadAndTail DEF Lose, Schedule, timeVars, controllerVars
<1> QED
  BY <1>5, <1>6

LEMMA TickFly ==
    ASSUME TypeOK, Tick
    PROVE  /\ fly' \in Seq(FlyRecords) /\ DOMAIN fly' = DOMAIN fly
           /\ \A k \in DOMAIN fly : /\ fly'[k].pkt = fly[k].pkt /\ fly'[k].batch = fly[k].batch
                                    /\ fly'[k].age = fly[k].age + 1
<1>1. fly \in Seq(FlyRecords) /\ DOMAIN fly = 1 .. Len(fly) /\ Len(fly) \in Nat
  BY TypeFacts
<1>2. \A k \in DOMAIN fly : fly[k] \in FlyRecords /\ fly[k].age < MaxDelay
  BY <1>1 DEF Tick
<1>3. \A k \in DOMAIN fly : [fly[k] EXCEPT !.age = @ + 1] \in FlyRecords
  BY <1>2, Constants DEF FlyRecords
<1>4. fly' = [k \in DOMAIN fly |-> [fly[k] EXCEPT !.age = @ + 1]]
  BY DEF Tick
<1>5. fly' \in [1 .. Len(fly) -> FlyRecords]
  BY <1>1, <1>3, <1>4
<1>6. fly' \in Seq(FlyRecords) /\ DOMAIN fly' = DOMAIN fly
  BY <1>1, <1>5
<1> QED
  BY <1>2, <1>4, <1>6 DEF FlyRecords

LEMMA TickType ==
    ASSUME TypeOK, Schedule, Tick
    PROVE  TypeOK' /\ Schedule'
<1>1. now' = now + 1 /\ now' \in Nat /\ now' <= BatchTime
  BY TypeFacts, Constants DEF Tick
<1>2. UNCHANGED <<current, due, um, dm, metered, lost, congested, ctl, packetsLost, total>>
  BY DEF Tick, controllerVars
<1>3. TypeOK'
  <2>1. fly' \in Seq(FlyRecords)
    BY TickFly
  <2> HIDE DEF Tick
  <2> QED
    BY <1>1, <1>2, <2>1, Constants DEF TypeOK, FlyRecords
<1>4. due # NoBatch => now' <= ControllerDelay
  BY <1>1, TypeFacts, Constants DEF Tick, ControllerDue
<1>5. ~ctl.on
  BY DEF Tick
<1>6. \A k \in DOMAIN fly : fly[k].age \in Nat
  BY FlyFacts
<1>7. ASSUME NEW k \in DOMAIN fly'
      PROVE  fly'[k].batch = current \/ (fly'[k].batch = due /\ fly'[k].age >= now')
  <2>1. k \in DOMAIN fly /\ fly'[k].batch = fly[k].batch /\ fly'[k].age = fly[k].age + 1
    BY TickFly
  <2>2. now \in Nat /\ fly[k].age \in Nat
    BY <1>6, <2>1, TypeFacts
  <2> QED
    BY <1>1, <2>1, <2>2 DEF Schedule
<1>8. Schedule'
  BY <1>2, <1>4, <1>5, <1>7 DEF Schedule
<1> QED
  BY <1>3, <1>8

LEMMA NextBatchFacts ==
    ASSUME TypeOK
    PROVE  NextBatch \in Batches /\ NextBatch # current
<1>1. current \in Nat /\ current < NumBatches /\ NumBatches \in Nat /\ NumBatches >= 2
  BY TypeFacts, Constants DEF Batches
<1>2. CASE current + 1 < NumBatches
  BY <1>1, <1>2 DEF NextBatch, Batches
<1>3. CASE current + 1 = NumBatches
  BY <1>1, <1>3 DEF NextBatch, Batches
<1> QED
  BY <1>1, <1>2, <1>3

(* When a batch ends, no batch is due. *)
LEMMA NothingDue ==
    ASSUME TypeOK, Schedule, now = BatchTime
    PROVE  due = NoBatch
BY TypeFacts, Constants DEF Schedule

LEMMA UpdateBatchIdType ==
    ASSUME TypeOK, Schedule, UpdateBatchId
    PROVE  TypeOK' /\ Schedule'
<1>1. due = NoBatch
  BY NothingDue DEF UpdateBatchId
<1>2. current' \in Batches /\ current' # current
  BY NextBatchFacts DEF UpdateBatchId
<1>3. MaxMetered[current'] \in Nat
  BY <1>2, LossRadarAssumption
<1>4. UNCHANGED <<um, dm, fly, lost, congested, ctl, packetsLost, total>>
  BY DEF UpdateBatchId, controllerVars
<1>5. due' = current /\ now' = 0 /\ metered' = 0
  BY DEF UpdateBatchId
<1>6. TypeOK'
  BY <1>2, <1>3, <1>4, <1>5, TypeFacts, Constants
     DEF TypeOK, FlyRecords, MeterArrays, CellValues
<1>7. \A k \in DOMAIN fly : fly[k].batch \in Batches /\ fly[k].age \in Nat
  BY FlyFacts
<1>8. \A k \in DOMAIN fly : fly[k].batch = current /\ fly[k].age >= 0
  BY <1>1, <1>7, Constants DEF Schedule
<1>9. Schedule'
  BY <1>2, <1>4, <1>5, <1>8, Constants DEF Schedule, UpdateBatchId
<1> QED
  BY <1>6, <1>9

LEMMA StartControllerType ==
    ASSUME TypeOK, Schedule, StartController
    PROVE  TypeOK' /\ Schedule'
<1>1. due \in Batches
  BY TypeFacts DEF StartController, ControllerDue
<1>2. Subtract(um[due], dm[due]) \in [Cells -> CellValues]
  <2>1. {} \in Tuples
    BY DEF Tuples
  <2> QED
    BY <1>1, <2>1, TypeFacts, MeterTypes DEF MeterArrays
<1>3. um' = [um EXCEPT ![due] = Subtract(um[due], dm[due])]
  BY DEF StartController
<1>4. um' \in MeterArrays
  BY <1>1, <1>2, <1>3, TypeFacts DEF MeterArrays
<1>5. total' \in Nat
  <2> DEFINE f == [c \in Cells |-> um'[due][c].n]
  <2>1. f \in [Cells -> Nat]
    BY <1>1, <1>4, Constants DEF MeterArrays, CellValues
  <2>2. total' = SumOf(f)
    BY DEF StartController
  <2> HIDE DEF f
  <2> QED
    BY <2>1, <2>2, Constants, UnitsFinite
<1>6. UNCHANGED <<now, current, due, dm, fly, metered, lost, congested>>
  BY DEF StartController, timeVars
<1>7. ctl' = FreshPass /\ packetsLost' = <<>>
  BY DEF StartController
<1>8. TypeOK'
  BY <1>4, <1>5, <1>6, <1>7, TypeFacts, Constants
     DEF TypeOK, FlyRecords, MeterArrays, CellValues, FreshPass
<1>9. Schedule'
  BY <1>6 DEF Schedule, StartController, ControllerDue
<1> QED
  BY <1>8, <1>9

LEMMA DecodeCellType ==
    ASSUME TypeOK, Schedule, DecodeCell
    PROVE  TypeOK' /\ Schedule'
<1> DEFINE flow == um[due][ctl.i].x
<1>1. due \in Batches /\ ctl.i \in Cells
  BY TypeFacts, Constants DEF DecodeCell, Schedule, Cells
<1>2. flow \in Tuples
  BY <1>1, TypeFacts DEF MeterArrays, CellValues
<1>3. \/ UNCHANGED <<packetsLost, um>> /\ ctl' = [ctl EXCEPT !.i = @ + 1]
      \/ /\ packetsLost' = Append(packetsLost, flow)
         /\ um' = [um EXCEPT ![due] = Remove(um[due], flow)]
         /\ ctl' = [ctl EXCEPT !.i = @ + 1, !.step = TRUE]
  BY DEF DecodeCell
<1> HIDE DEF flow
<1>4. um[due] \in [Cells -> CellValues] /\ um \in [Batches -> [Cells -> CellValues]]
  BY <1>1, TypeFacts DEF MeterArrays
<1>5. um' \in MeterArrays /\ packetsLost' \in Seq(Tuples)
  <2>1. Remove(um[due], flow) \in [Cells -> CellValues]
    BY <1>2, <1>4, MeterTypes
  <2>2. packetsLost \in Seq(Tuples)
    BY TypeFacts
  <2>3. Append(packetsLost, flow) \in Seq(Tuples)
    BY <1>2, <2>2
  <2>4. [um EXCEPT ![due] = Remove(um[due], flow)] \in [Batches -> [Cells -> CellValues]]
    BY <1>1, <1>4, <2>1
  <2> QED
    BY <1>3, <1>4, <2>2, <2>3, <2>4 DEF MeterArrays
<1>6. ctl' \in [on : BOOLEAN, i : 0 .. NumCells, step : BOOLEAN] /\ ctl'.on
  <2>1. ctl \in [on : BOOLEAN, i : 0 .. NumCells, step : BOOLEAN]
    BY TypeFacts
  <2>2. ctl.i + 1 \in 0 .. NumCells /\ ctl.on
    BY <1>1, Constants DEF Cells, DecodeCell
  <2> QED
    BY <1>3, <2>1, <2>2
<1>7. UNCHANGED <<now, current, due, dm, fly, metered, lost, congested, total>>
  BY DEF DecodeCell, timeVars
<1>8. TypeOK'
  BY <1>5, <1>6, <1>7, TypeFacts, Constants DEF TypeOK, FlyRecords, MeterArrays, CellValues
<1>9. Schedule'
  BY <1>7 DEF Schedule, DecodeCell
<1> QED
  BY <1>8, <1>9

LEMMA NextPassType ==
    ASSUME TypeOK, Schedule, NextPass
    PROVE  TypeOK' /\ Schedule'
<1>1. UNCHANGED <<now, current, due, um, dm, fly, metered, lost, congested, packetsLost, total>>
  BY DEF NextPass, timeVars, meterVars
<1>2. ctl' = [on |-> TRUE, i |-> 0, step |-> FALSE]
  BY DEF NextPass, FreshPass
<1>3. TypeOK'
  BY <1>1, <1>2, Constants DEF TypeOK
<1>4. Schedule'
  BY <1>1 DEF Schedule, NextPass
<1> QED
  BY <1>3, <1>4

LEMMA FinishControllerType ==
    ASSUME TypeOK, Schedule, FinishController
    PROVE  TypeOK' /\ Schedule'
<1>1. due \in Batches
  BY TypeFacts DEF FinishController, Reporting, Schedule
<1>2. EmptyMeter \in [Cells -> CellValues]
  BY Constants DEF EmptyMeter, CellValues, Tuples
<1>3. um' \in MeterArrays /\ dm' \in MeterArrays
  BY <1>1, <1>2, TypeFacts DEF FinishController, MeterArrays
<1>4. NoPackets \in [Packets -> Nat]
  BY DEF NoPackets
<1>5. lost' \in [Batches -> [Packets -> Nat]] /\ congested' \in [Batches -> [Packets -> Nat]]
  BY <1>1, <1>4, TypeFacts DEF FinishController
<1>6. UNCHANGED <<now, current, fly, metered>>
  BY DEF FinishController
<1>7. due' = NoBatch /\ packetsLost' = <<>> /\ total' = 0
  BY DEF FinishController
<1>8. ctl' = [on |-> FALSE, i |-> 0, step |-> FALSE]
  BY DEF FinishController, Idle
<1>9. TypeOK'
  BY <1>3, <1>5, <1>6, <1>7, <1>8, TypeFacts, Constants
     DEF TypeOK, FlyRecords, MeterArrays, CellValues
<1>10. \A k \in DOMAIN fly : fly[k].batch = current
  <2> SUFFICES ASSUME NEW k \in DOMAIN fly PROVE fly[k].batch = current
    OBVIOUS
  <2>1. fly[k].age <= MaxDelay /\ fly[k].age \in Nat
    BY FlyFacts
  <2>2. now >= ControllerDelay /\ now \in Nat
    BY TypeFacts DEF Schedule, FinishController, Reporting
  <2> QED
    BY <2>1, <2>2, Constants DEF Schedule
<1>11. Schedule'
  BY <1>6, <1>7, <1>8, <1>10 DEF Schedule
<1> QED
  BY <1>9, <1>11

LEMMA TypeStep ==
    ASSUME TypeOK, Schedule, [Next]_vars
    PROVE  TypeOK' /\ Schedule'
<1>1. CASE UNCHANGED vars
  BY <1>1 DEF vars, timeVars, meterVars, controllerVars, TypeOK, Schedule
<1>2. ASSUME NEW p \in Packets, NEW fate \in Fates, Send(p, fate)
      PROVE  TypeOK' /\ Schedule'
  BY <1>2, SendType
<1> QED
  BY <1>1, <1>2, ArriveType, LoseType, TickType, UpdateBatchIdType, StartControllerType,
     DecodeCellType, NextPassType, FinishControllerType DEF Next

(* When the controller is due, no packet of its batch is on its way. *)
LEMMA NoneFlying ==
    ASSUME TypeOK, Schedule, ControllerDue, NEW k \in DOMAIN fly
    PROVE  fly[k].batch # due
<1>1. fly[k].age <= MaxDelay /\ fly[k].age \in Nat
  BY FlyFacts
<1>2. now >= ControllerDelay /\ now \in Nat /\ due # NoBatch /\ due # current
  BY TypeFacts DEF Schedule, ControllerDue
<1> QED
  BY <1>1, <1>2, Constants DEF Schedule

LEMMA BatchCompleteHolds ==
    ASSUME TypeOK, Schedule
    PROVE  BatchComplete
BY NoneFlying, NothingDue DEF BatchComplete, Schedule, ControllerDue

-----------------------------------------------------------------------------
(* What a number of copies of each packet adds to a cell. *)

Entries(r, c) == [p \in Packets |-> r[p] * Weight[{p}][c]]
Odd(r, c) == {p \in Packets : Entries(r, c)[p] % 2 = 1}

LEMMA Multiples ==
    ASSUME NEW m \in Nat, NEW a \in Nat, NEW b \in Nat
    PROVE  m * a \in Nat /\ m * (a + 1) = m * a + m /\ (a <= b => m * a <= m * b)
<1>1. m * a \in Nat /\ m * (a + 1) = m * a + m
  OBVIOUS
<1>2. ASSUME a <= b
      PROVE  m * a <= m * b
  <2>1. b - a \in Nat /\ b = a + (b - a)
    BY <1>2
  <2>2. m * b = m * a + m * (b - a) /\ m * (b - a) \in Nat
    BY <2>1
  <2> QED
    BY <1>1, <2>2
<1> QED
  BY <1>1, <1>2

LEMMA EntriesType ==
    ASSUME NEW r \in [Packets -> Nat], NEW c \in Cells
    PROVE  Entries(r, c) \in [Packets -> Nat] /\ SumOf(Entries(r, c)) \in Nat
<1>1. \A p \in Packets : Weight[{p}][c] \in Nat /\ r[p] * Weight[{p}][c] \in Nat
  <2> TAKE p \in Packets
  <2>1. {p} \in Tuples
    BY DEF Tuples
  <2>2. Weight[{p}][c] \in Nat /\ r[p] \in Nat
    BY <2>1, Metering, Constants
  <2> QED
    BY <2>2, Multiples
<1>2. Entries(r, c) \in [Packets -> Nat]
  BY <1>1 DEF Entries
<1> QED
  BY <1>2, Constants, UnitsFinite

(* One more copy of p. *)
LEMMA OneMoreCopy ==
    ASSUME NEW r \in [Packets -> Nat], NEW s \in [Packets -> Nat], NEW p \in Packets,
           s[p] = r[p] + 1, \A q \in Packets \ {p} : s[q] = r[q], NEW c \in Cells
    PROVE  /\ SumOf(Entries(s, c)) = SumOf(Entries(r, c)) + Weight[{p}][c]
           /\ Odd(s, c) = SymDiff(Odd(r, c), Share({p}, c))
<1> DEFINE w == Weight[{p}][c]
<1>1. w \in Nat
  <2>1. {p} \in Tuples
    BY DEF Tuples
  <2> QED
    BY <2>1, Metering, Constants
<1>2. Entries(r, c) \in [Packets -> Nat] /\ Entries(s, c) \in [Packets -> Nat]
  BY EntriesType
<1>3. Entries(r, c)[p] = r[p] * w /\ Entries(s, c)[p] = s[p] * w
  BY DEF Entries
<1>4. \A q \in Packets \ {p} : Entries(s, c)[q] = Entries(r, c)[q]
  BY DEF Entries
<1>5. Share({p}, c) = IF w % 2 = 1 THEN {p} ELSE {}
  BY DEF Share
<1> HIDE DEF w
<1>6. Entries(s, c)[p] = Entries(r, c)[p] + w
  BY <1>1, <1>3
<1>7. SumOf(Entries(s, c)) = SumOf(Entries(r, c)) + Entries(s, c)[p] - Entries(r, c)[p]
  BY <1>2, <1>4, Constants, SumChange
<1>8. SumOf(Entries(s, c)) = SumOf(Entries(r, c)) + w
  BY <1>1, <1>2, <1>6, <1>7, EntriesType
<1>9. p \in Odd(s, c) <=> ~(p \in Odd(r, c) <=> w % 2 = 1)
  <2>1. Entries(r, c)[p] \in Nat
    BY <1>2
  <2> QED
    BY <1>1, <1>6, <2>1 DEF Odd
<1>10. \A q \in Packets \ {p} : q \in Odd(s, c) <=> q \in Odd(r, c)
  BY <1>4 DEF Odd
<1>11. Odd(s, c) \subseteq Packets /\ Odd(r, c) \subseteq Packets
  BY DEF Odd
<1>12. Odd(s, c) = SymDiff(Odd(r, c), Share({p}, c))
  BY <1>5, <1>9, <1>10, <1>11 DEF SymDiff
<1> QED
  BY <1>8, <1>12 DEF w

(* A cell with one entry has one copy of one packet. *)
LEMMA OneEntry ==
    ASSUME NEW r \in [Packets -> Nat], NEW c \in Cells, SumOf(Entries(r, c)) = 1
    PROVE  \E p \in Packets : r[p] > 0 /\ Odd(r, c) = {p}
<1>1. Entries(r, c) \in [Packets -> Nat]
  BY EntriesType
<1>2. PICK p \in Packets :
        Entries(r, c)[p] = 1 /\ \A q \in Packets \ {p} : Entries(r, c)[q] = 0
  BY <1>1, Constants, SumOne
<1>3. r[p] * Weight[{p}][c] = 1
  BY <1>2 DEF Entries
<1>4. {p} \in Tuples
  BY DEF Tuples
<1>5. Weight[{p}][c] \in Nat /\ r[p] \in Nat
  BY <1>4, Metering, Constants
<1>6. r[p] # 0
  BY <1>3, <1>5
<1>7. Odd(r, c) = {p}
  BY <1>2 DEF Odd
<1> QED
  BY <1>5, <1>6, <1>7

-----------------------------------------------------------------------------
(* The inductive invariant. *)

Rest(b) == [p \in Packets |-> Missing(b, p)]
Base(b, c) == IF ctl.on /\ b = due THEN [n |-> 0, x |-> {}] ELSE dm[b][c]

ConservedAt(b, c) ==
    /\ um[b][c].n = Base(b, c).n + SumOf(Entries(Rest(b), c))
    /\ um[b][c].x = SymDiff(Base(b, c).x, Odd(Rest(b), c))

(* A batch that is neither current nor due is empty. *)
Quiet ==
    \A b \in Batches : b # current /\ b # due =>
        um[b] = EmptyMeter /\ dm[b] = EmptyMeter /\ lost[b] = NoPackets

(* A cell counts no more than the packets metered in its batch. *)
Allowed(b) == NumHashes * (IF b = current THEN metered ELSE MaxMetered[b])
Bounded == \A b \in Batches, c \in Cells : um[b][c].n <= Allowed(b)

(* What was decoded so far are lost packets. *)
Decoded ==
    ctl.on =>
        /\ \A k \in DOMAIN packetsLost : \E p \in Packets : packetsLost[k] = {p}
        /\ \A p \in Packets : Times({p}) <= lost[due][p]

(* A pass that has decoded nothing so far has seen no pure cell. *)
PassDone ==
    ctl.on /\ ~ctl.step => \A c \in Cells : c < ctl.i => um[due][c].n # 1

Conserved == \A b \in Batches, c \in Cells : ConservedAt(b, c)

(* TypeOK and Schedule bound the delays, so that the batch the controller   *)
(* reads is complete; Quiet and Bounded keep a batch that is used again     *)
(* from wrapping a counter; Conserved is MetersConserve.                    *)
IInv == TypeOK /\ Schedule /\ Quiet /\ Bounded /\ Conserved /\ Decoded /\ PassDone

LEMMA ConservedIs == Conserved <=> MetersConserve
<1> SUFFICES ASSUME NEW b \in Batches, NEW c \in Cells
             PROVE  LET rest == [p \in Packets |-> Missing(b, p) * Weight[{p}][c]]
                        base == IF ctl.on /\ b = due THEN [n |-> 0, x |-> {}] ELSE dm[b][c]
                    IN  ConservedAt(b, c) <=>
                            /\ um[b][c].n = base.n + SumOf(rest)
                            /\ um[b][c].x = SymDiff(base.x, {p \in Packets : rest[p] % 2 = 1})
  BY DEF Conserved, MetersConserve
<1> DEFINE rest == [p \in Packets |-> Missing(b, p) * Weight[{p}][c]]
           odd == {p \in Packets : rest[p] % 2 = 1}
<1>1. Entries(Rest(b), c) = rest
  BY DEF Entries, Rest
<1> HIDE DEF rest
<1>2. Odd(Rest(b), c) = odd
  BY <1>1 DEF Odd
<1> HIDE DEF odd
<1>3. ConservedAt(b, c) <=> /\ um[b][c].n = Base(b, c).n + SumOf(rest)
                            /\ um[b][c].x = SymDiff(Base(b, c).x, odd)
  BY <1>1, <1>2 DEF ConservedAt
<1> QED
  BY <1>3 DEF rest, odd, Base

(* Packets on their way, and decoded tuples, as occurrences. *)
Sort(b, p) == {r \in FlyRecords : r.batch = b /\ r.pkt = p}

LEMMA FlyingIs ==
    ASSUME NEW f \in Seq(FlyRecords), NEW b, NEW p
    PROVE  Cardinality({k \in DOMAIN f : f[k].batch = b /\ f[k].pkt = p})
             = Occurrences(f, Sort(b, p))
<1>1. \A k \in DOMAIN f : f[k] \in FlyRecords
  OBVIOUS
<1>2. {k \in DOMAIN f : f[k].batch = b /\ f[k].pkt = p} = {k \in DOMAIN f : f[k] \in Sort(b, p)}
  BY <1>1 DEF Sort
<1> QED
  BY <1>2 DEF Occurrences

LEMMA TimesIs ==
    ASSUME NEW s \in Seq(Tuples), NEW t
    PROVE  Cardinality({k \in DOMAIN s : s[k] = t}) = Occurrences(s, {t})
<1>1. {k \in DOMAIN s : s[k] = t} = {k \in DOMAIN s : s[k] \in {t}}
  OBVIOUS
<1> QED
  BY <1>1 DEF Occurrences

LEMMA RestType ==
    ASSUME TypeOK, Decoded, NEW b \in Batches
    PROVE  /\ Rest(b) \in [Packets -> Nat]
           /\ \A p \in Packets : Flying(b, p) \in Nat /\ Times({p}) \in Nat
<1> SUFFICES ASSUME NEW p \in Packets
             PROVE  Missing(b, p) \in Nat /\ Flying(b, p) \in Nat /\ Times({p}) \in Nat
  BY DEF Rest
<1>1. Flying(b, p) \in Nat
  <2>1. fly \in Seq(FlyRecords)
    BY TypeFacts
  <2>2. Flying(b, p) = Occurrences(fly, Sort(b, p))
    BY <2>1, FlyingIs DEF Flying
  <2> QED
    BY <2>1, <2>2, OccurrencesType
<1>2. Times({p}) \in Nat
  <2>1. packetsLost \in Seq(Tuples)
    BY TypeFacts
  <2>2. Times({p}) = Occurrences(packetsLost, {{p}})
    BY <2>1, TimesIs DEF Times
  <2> QED
    BY <2>1, <2>2, OccurrencesType
<1>3. lost[b][p] \in Nat
  BY TypeFacts
<1>4. Missing(b, p) \in Nat
  <2>1. CASE ctl.on /\ b = due
    <3>1. Times({p}) <= lost[b][p]
      BY <2>1 DEF Decoded
    <3> QED
      BY <1>1, <1>2, <1>3, <2>1, <3>1 DEF Missing
  <2>2. CASE ~(ctl.on /\ b = due)
    <3>1. Missing(b, p) = lost[b][p] + Flying(b, p) - 0
      BY <2>2 DEF Missing
    <3> QED
      BY <1>1, <1>3, <3>1
  <2> QED
    BY <2>1, <2>2
<1> QED
  BY <1>1, <1>2, <1>4

LEMMA BaseType ==
    ASSUME TypeOK, NEW b \in Batches, NEW c \in Cells
    PROVE  /\ Base(b, c).n \in Nat /\ Base(b, c).x \in Tuples
           /\ dm[b][c] \in CellValues /\ um[b][c] \in CellValues
           /\ dm[b][c].n \in Nat /\ um[b][c].n \in Nat /\ um[b][c].n < CounterMod
           /\ dm[b][c].x \in Tuples /\ um[b][c].x \in Tuples
<1>1. dm[b][c] \in CellValues /\ um[b][c] \in CellValues
  BY TypeFacts DEF MeterArrays
<1> QED
  BY <1>1, Constants DEF Base, CellValues, Tuples

LEMMA InitIInv == Init => IInv
<1> SUFFICES ASSUME Init PROVE IInv
  OBVIOUS
<1>1. TypeOK /\ Schedule
  BY InitType
<1>2. ~ctl.on
  BY DEF Init, Idle
<1>3. Quiet
  BY DEF Init, Quiet
<1>4. Decoded /\ PassDone
  BY <1>2 DEF Decoded, PassDone
<1>5. \A b \in Batches, c \in Cells : um[b][c] = [n |-> 0, x |-> {}] /\ dm[b][c] = um[b][c]
  BY DEF Init, EmptyMeter
<1>6. Bounded
  <2> SUFFICES ASSUME NEW b \in Batches, NEW c \in Cells
               PROVE  um[b][c].n <= Allowed(b)
    BY DEF Bounded
  <2>1. metered \in Nat /\ MaxMetered[b] \in Nat
    BY <1>1, TypeFacts, LossRadarAssumption
  <2>2. Allowed(b) \in Nat
    BY <2>1, Multiples, Constants DEF Allowed
  <2> QED
    BY <1>5, <2>2
<1>7. Conserved
  <2> SUFFICES ASSUME NEW b \in Batches, NEW c \in Cells
               PROVE  ConservedAt(b, c)
    BY DEF Conserved
  <2>1. Rest(b) \in [Packets -> Nat]
    BY <1>1, <1>4, RestType
  <2>2. \A p \in Packets : Rest(b)[p] = 0
    <3> SUFFICES ASSUME NEW p \in Packets PROVE Missing(b, p) = 0
      BY DEF Rest
    <3>1. fly = <<>> /\ lost[b][p] = 0
      BY DEF Init, NoPackets
    <3>2. {k \in DOMAIN fly : fly[k].batch = b /\ fly[k].pkt = p} = {}
      BY <3>1
    <3>3. Flying(b, p) = 0
      BY <3>2, FS_EmptySet DEF Flying
    <3> QED
      BY <1>2, <3>1, <3>3 DEF Missing
  <2>3. \A p \in Packets : Entries(Rest(b), c)[p] = 0
    <3> SUFFICES ASSUME NEW p \in Packets PROVE Rest(b)[p] * Weight[{p}][c] = 0
      BY DEF Entries
    <3>1. {p} \in Tuples
      BY DEF Tuples
    <3>2. Weight[{p}][c] \in Nat
      BY <3>1, Metering, Constants
    <3> QED
      BY <2>2, <3>2
  <2>4. SumOf(Entries(Rest(b), c)) = 0
    BY <2>1, <2>3, EntriesType, SumZero
  <2>5. Odd(Rest(b), c) = {}
    BY <2>3 DEF Odd
  <2> QED
    BY <1>2, <1>5, <2>4, <2>5 DEF ConservedAt, Base, SymDiff
<1> QED
  BY <1>1, <1>3, <1>4, <1>6, <1>7 DEF IInv

-----------------------------------------------------------------------------
(* Every step keeps it. *)

(* What one more packet of a batch adds to its cells, without wrapping. *)
LEMMA MeterOneMore ==
    ASSUME NEW m \in [Cells -> CellValues], NEW p \in Packets, NEW c \in Cells,
           m[c].n + Weight[{p}][c] < CounterMod
    PROVE  /\ Meter(m, {p})[c].n = m[c].n + Weight[{p}][c]
           /\ Meter(m, {p})[c].x = SymDiff(m[c].x, Share({p}, c))
<1>1. {p} \in Tuples
  BY DEF Tuples
<1>2. Weight[{p}][c] \in Nat /\ m[c].n \in Nat
  BY <1>1, Metering, Constants DEF CellValues
<1>3. (m[c].n + Weight[{p}][c]) % CounterMod = m[c].n + Weight[{p}][c]
  BY <1>2, Modulo, Constants
<1> QED
  BY <1>3 DEF Meter

LEMMA SendMissing ==
    ASSUME TypeOK, NEW p \in Packets, NEW fate \in Fates, Send(p, fate),
           NEW b \in Batches, NEW q \in Packets
    PROVE  Missing(b, q)' = Missing(b, q) + IF b = current /\ q = p THEN 1 ELSE 0
<1> DEFINE r == [pkt |-> p, batch |-> current, age |-> 0]
<1>1. ~ctl.on /\ ~ctl'.on /\ lost[b][q] \in Nat
  BY TypeFacts DEF Send, controllerVars
<1>2. fly \in Seq(FlyRecords)
  BY TypeFacts
<1>3. r \in FlyRecords
  BY Constants, TypeFacts DEF FlyRecords
<1>4. r \in Sort(b, q) <=> (b = current /\ q = p)
  BY <1>3 DEF Sort
<1>5. Flying(b, q) = Occurrences(fly, Sort(b, q)) /\ Flying(b, q) \in Nat
  <2>1. Flying(b, q) = Occurrences(fly, Sort(b, q))
    BY <1>2, FlyingIs DEF Flying
  <2> QED
    BY <1>2, <2>1, OccurrencesType
<1> HIDE DEF r
<1>6. CASE fate = "sent"
  <2>1. fly' = Append(fly, r) /\ lost' = lost
    BY <1>6 DEF Send, r
  <2>2. Append(fly, r) \in Seq(FlyRecords)
    BY <1>2, <1>3
  <2>3. Flying(b, q)' = Occurrences(Append(fly, r), Sort(b, q))
    BY <2>1, <2>2, FlyingIs DEF Flying
  <2>4. Flying(b, q)' = Flying(b, q) + IF b = current /\ q = p THEN 1 ELSE 0
    BY <1>2, <1>3, <1>4, <1>5, <2>3, OccurrencesAppend
  <2> QED
    BY <1>1, <1>5, <2>1, <2>4 DEF Missing
<1>7. CASE fate # "sent"
  <2>1. fly' = fly /\ lost' = [lost EXCEPT ![current][p] = @ + 1]
    BY <1>7 DEF Send
  <2>2. lost'[b][q] = IF b = current /\ q = p THEN lost[b][q] + 1 ELSE lost[b][q]
    <3>1. lost \in [Batches -> [Packets -> Nat]] /\ current \in Batches
      BY TypeFacts
    <3>2. [lost EXCEPT ![current][p] = @ + 1][b][q]
            = IF b = current /\ q = p THEN lost[b][q] + 1 ELSE lost[b][q]
      BY <3>1, OneMore
    <3> QED
      BY <2>1, <3>2
  <2>3. Flying(b, q)' = Flying(b, q)
    BY <2>1 DEF Flying
  <2> QED
    BY <1>1, <1>5, <2>2, <2>3 DEF Missing
<1> QED
  BY <1>6, <1>7

LEMMA SendStep ==
    ASSUME IInv, NEW p \in Packets, NEW fate \in Fates, Send(p, fate)
    PROVE  Quiet' /\ Bounded' /\ Conserved' /\ Decoded' /\ PassDone'
<1>1. TypeOK /\ Decoded /\ current \in Batches /\ ~ctl.on
  BY TypeFacts DEF IInv, Send
<1>2. UNCHANGED <<now, current, due, dm, ctl, packetsLost, total>>
  BY DEF Send, timeVars, controllerVars
<1>3. um' = [um EXCEPT ![current] = Meter(um[current], {p})]
  BY DEF Send
<1>4. \A b \in Batches : b # current => um'[b] = um[b]
  BY <1>1, <1>3, TypeFacts DEF MeterArrays
<1>5. um'[current] = Meter(um[current], {p}) /\ um[current] \in [Cells -> CellValues]
  BY <1>1, <1>3, TypeFacts DEF MeterArrays
<1>6. {p} \in Tuples
  BY DEF Tuples
<1>7. ASSUME NEW c \in Cells
      PROVE  /\ um[current][c].n + Weight[{p}][c] <= NumHashes * metered'
             /\ um[current][c].n + Weight[{p}][c] < CounterMod
             /\ Weight[{p}][c] \in Nat
  <2>1. Weight[{p}][c] \in Nat /\ Weight[{p}][c] <= NumHashes
    BY <1>6, Metering, Constants
  <2>2. um[current][c].n <= NumHashes * metered /\ um[current][c].n \in Nat
    BY <1>1, BaseType DEF IInv, Bounded, Allowed
  <2>3. metered' = metered + 1 /\ metered' <= MaxMetered[current]
         /\ metered \in Nat /\ MaxMetered[current] \in Nat
    BY <1>1, TypeFacts DEF Send
  <2>4. NumHashes * metered \in Nat /\ NumHashes * metered' = NumHashes * metered + NumHashes
    BY <2>3, Multiples, Constants
  <2>5. NumHashes * metered' <= NumHashes * MaxMetered[current]
    BY <2>3, Multiples, Constants
  <2>6. NumHashes * MaxMetered[current] < CounterMod /\ NumHashes * MaxMetered[current] \in Nat
    BY <1>1, <2>3, LossRadarAssumption, Multiples
  <2>7. um[current][c].n + Weight[{p}][c] <= NumHashes * metered'
    BY <2>1, <2>2, <2>4, Constants
  <2> QED
    BY <2>1, <2>2, <2>4, <2>5, <2>6, <2>7, Constants
<1>8. \A c \in Cells : /\ um'[current][c].n = um[current][c].n + Weight[{p}][c]
                       /\ um'[current][c].x = SymDiff(um[current][c].x, Share({p}, c))
  BY <1>5, <1>7, MeterOneMore
<1>9. Quiet'
  <2> SUFFICES ASSUME NEW b \in Batches, b # current, b # due
               PROVE  um'[b] = EmptyMeter /\ dm'[b] = EmptyMeter /\ lost'[b] = NoPackets
    BY <1>2 DEF Quiet
  <2>1. lost'[b] = lost[b]
    BY <1>1, TypeFacts DEF Send
  <2> QED
    BY <1>2, <1>4, <2>1 DEF IInv, Quiet
<1>10. Bounded'
  <2> SUFFICES ASSUME NEW b \in Batches, NEW c \in Cells
               PROVE  um'[b][c].n <= NumHashes * (IF b = current THEN metered' ELSE MaxMetered[b])
    BY <1>2 DEF Bounded, Allowed
  <2>1. CASE b = current
    BY <1>7, <1>8, <2>1
  <2>2. CASE b # current
    BY <1>4, <2>2 DEF IInv, Bounded, Allowed
  <2> QED
    BY <2>1, <2>2
<1>11. Conserved'
  <2> SUFFICES ASSUME NEW b \in Batches, NEW c \in Cells
               PROVE  ConservedAt(b, c)'
    BY DEF Conserved
  <2>1. ConservedAt(b, c)
    BY DEF IInv, Conserved
  <2>2. Base(b, c)' = Base(b, c)
    BY <1>2 DEF Base
  <2>3. Rest(b) \in [Packets -> Nat]
    BY <1>1, RestType
  <2>4. \A q \in Packets : Rest(b)'[q] = Rest(b)[q] + IF b = current /\ q = p THEN 1 ELSE 0
    BY <1>1, SendMissing DEF Rest
  <2>5. Rest(b)' \in [Packets -> Nat]
    <3>1. Rest(b)' = [q \in Packets |-> Rest(b)'[q]]
      BY DEF Rest
    <3>2. \A q \in Packets : Rest(b)'[q] \in Nat
      BY <2>3, <2>4
    <3> QED
      BY <3>1, <3>2
  <2>6. CASE b = current
    <3>1. /\ SumOf(Entries(Rest(b)', c)) = SumOf(Entries(Rest(b), c)) + Weight[{p}][c]
          /\ Odd(Rest(b)', c) = SymDiff(Odd(Rest(b), c), Share({p}, c))
      BY <2>3, <2>4, <2>5, <2>6, OneMoreCopy
    <3>2. SumOf(Entries(Rest(b), c)) \in Nat /\ Base(b, c).n \in Nat
      BY <1>1, <2>3, EntriesType, BaseType
    <3>3. um'[b][c].n = Base(b, c).n + SumOf(Entries(Rest(b)', c))
      <4>1. um'[b][c].n = um[b][c].n + Weight[{p}][c] /\ Weight[{p}][c] \in Nat
        BY <1>7, <1>8, <2>6
      <4>2. um[b][c].n = Base(b, c).n + SumOf(Entries(Rest(b), c))
        BY <2>1 DEF ConservedAt
      <4> QED
        BY <3>1, <3>2, <4>1, <4>2
    <3>4. um'[b][c].x = SymDiff(Base(b, c).x, Odd(Rest(b)', c))
      BY <1>8, <2>1, <2>6, <3>1 DEF ConservedAt, SymDiff
    <3> QED
      BY <2>2, <3>3, <3>4 DEF ConservedAt, Entries, Odd
  <2>7. CASE b # current
    <3>1. Rest(b)' = Rest(b)
      BY <2>3, <2>4, <2>5, <2>7
    <3> QED
      BY <1>4, <2>1, <2>2, <2>7, <3>1 DEF ConservedAt, Entries, Odd
  <2> QED
    BY <2>6, <2>7
<1>12. Decoded' /\ PassDone'
  BY <1>1, <1>2 DEF Decoded, PassDone
<1> QED
  BY <1>9, <1>10, <1>11, <1>12

LEMMA TailFlying ==
    ASSUME TypeOK, fly # <<>>, fly' = Tail(fly), NEW b \in Batches, NEW q \in Packets
    PROVE  /\ Flying(b, q)' \in Nat
           /\ Flying(b, q) = Flying(b, q)' +
                IF b = Head(fly).batch /\ q = Head(fly).pkt THEN 1 ELSE 0
<1>1. fly \in Seq(FlyRecords) /\ Head(fly) \in FlyRecords /\ Tail(fly) \in Seq(FlyRecords)
  BY TypeFacts, HeadAndTail
<1>2. Head(fly) \in Sort(b, q) <=> (b = Head(fly).batch /\ q = Head(fly).pkt)
  BY <1>1 DEF Sort
<1>3. Flying(b, q) = Occurrences(fly, Sort(b, q))
  BY <1>1, FlyingIs DEF Flying
<1>4. Flying(b, q)' = Occurrences(Tail(fly), Sort(b, q))
  BY <1>1, FlyingIs DEF Flying
<1>5. Occurrences(Tail(fly), Sort(b, q)) \in Nat
  BY <1>1, OccurrencesType
<1>6. Occurrences(fly, Sort(b, q)) = Occurrences(Tail(fly), Sort(b, q))
        + IF Head(fly) \in Sort(b, q) THEN 1 ELSE 0
  BY <1>1, OccurrencesTail
<1> QED
  BY <1>2, <1>3, <1>4, <1>5, <1>6

LEMMA ArriveStep ==
    ASSUME IInv, Arrive
    PROVE  Quiet' /\ Bounded' /\ Conserved' /\ Decoded' /\ PassDone'
<1> DEFINE hb == Head(fly).batch
           hp == Head(fly).pkt
<1>1. TypeOK /\ Schedule /\ Decoded /\ fly # <<>> /\ fly' = Tail(fly) /\ ~ctl.on
  BY DEF IInv, Arrive
<1>2. hb \in Batches /\ hp \in Packets /\ {hp} \in Tuples
  BY <1>1, HeadAndTail DEF Tuples
<1>3. UNCHANGED <<now, current, due, um, metered, lost, ctl, packetsLost, total>>
  BY DEF Arrive, timeVars, controllerVars
<1>4. dm' = [dm EXCEPT ![hb] = Meter(dm[hb], {hp})]
  BY <1>2, BatchFitsTos DEF Arrive
<1>5. dm'[hb] = Meter(dm[hb], {hp}) /\ dm[hb] \in [Cells -> CellValues]
       /\ \A b \in Batches : b # hb => dm'[b] = dm[b]
  BY <1>1, <1>2, <1>4, TypeFacts DEF MeterArrays
<1>6. hb = current \/ hb = due
  BY <1>1, HeadAndTail DEF Schedule
<1>7. \A b \in Batches, q \in Packets :
        Missing(b, q) = Missing(b, q)' + IF b = hb /\ q = hp THEN 1 ELSE 0
  <2> TAKE b \in Batches, q \in Packets
  <2>1. Flying(b, q)' \in Nat /\ Flying(b, q) = Flying(b, q)' + IF b = hb /\ q = hp THEN 1 ELSE 0
    BY <1>1, TailFlying
  <2>2. lost[b][q] \in Nat /\ lost' = lost /\ ~ctl'.on
    BY <1>1, <1>3, TypeFacts
  <2>3. Missing(b, q) = lost[b][q] + Flying(b, q) /\ Missing(b, q)' = lost[b][q] + Flying(b, q)'
    <3>1. Flying(b, q) \in Nat
      BY <2>1
    <3> QED
      BY <1>1, <2>1, <2>2, <3>1 DEF Missing
  <2> QED
    BY <2>1, <2>2, <2>3
<1> HIDE DEF hb, hp
<1>8. Quiet'
  <2> SUFFICES ASSUME NEW b \in Batches, b # current, b # due
               PROVE  um'[b] = EmptyMeter /\ dm'[b] = EmptyMeter /\ lost'[b] = NoPackets
    BY <1>3 DEF Quiet
  <2> QED
    BY <1>3, <1>5, <1>6 DEF IInv, Quiet
<1>9. Bounded'
  BY <1>3 DEF IInv, Bounded, Allowed
<1>10. Conserved'
  <2> SUFFICES ASSUME NEW b \in Batches, NEW c \in Cells
               PROVE  ConservedAt(b, c)'
    BY DEF Conserved
  <2>1. ConservedAt(b, c)
    BY DEF IInv, Conserved
  <2>2. Base(b, c) = dm[b][c] /\ Base(b, c)' = dm'[b][c]
    BY <1>1, <1>3 DEF Base
  <2>3. Rest(b) \in [Packets -> Nat]
    BY <1>1, RestType
  <2>4. \A q \in Packets : /\ Rest(b)[q] = Missing(b, q) /\ Rest(b)'[q] = Missing(b, q)'
                           /\ Missing(b, q) \in Nat
    BY <2>3 DEF Rest
  <2>5. ASSUME NEW q \in Packets
        PROVE  Missing(b, q)' \in Nat
    <3>1. Flying(b, q)' \in Nat /\ lost[b][q] \in Nat
      BY <1>1, TailFlying, TypeFacts
    <3>2. lost' = lost /\ ~ctl'.on
      BY <1>1, <1>3
    <3> QED
      BY <3>1, <3>2 DEF Missing
  <2>6. Rest(b)' \in [Packets -> Nat]
    BY <2>5 DEF Rest
  <2>7. CASE b = hb
    <3>1. Rest(b)[hp] = Rest(b)'[hp] + 1 /\ \A q \in Packets \ {hp} : Rest(b)[q] = Rest(b)'[q]
      <4>1. \A q \in Packets : Missing(b, q) = Missing(b, q)' + IF q = hp THEN 1 ELSE 0
        BY <1>7, <2>7
      <4> QED
        BY <1>2, <2>4, <2>5, <4>1
    <3>2. /\ SumOf(Entries(Rest(b), c)) = SumOf(Entries(Rest(b)', c)) + Weight[{hp}][c]
          /\ Odd(Rest(b), c) = SymDiff(Odd(Rest(b)', c), Share({hp}, c))
      BY <1>2, <2>3, <2>6, <3>1, OneMoreCopy
    <3>3. SumOf(Entries(Rest(b)', c)) \in Nat /\ Weight[{hp}][c] \in Nat
      BY <1>2, <2>6, EntriesType, Metering, Constants
    <3>4. dm[b][c].n \in Nat /\ um[b][c].n \in Nat /\ um[b][c].n < CounterMod
      BY <1>1, BaseType
    <3>5. um[b][c].n = dm[b][c].n + SumOf(Entries(Rest(b), c))
      BY <2>1, <2>2 DEF ConservedAt
    <3>6. dm[b][c].n + Weight[{hp}][c] < CounterMod
      BY <3>2, <3>3, <3>4, <3>5, Constants
    <3>7. /\ dm'[b][c].n = dm[b][c].n + Weight[{hp}][c]
          /\ dm'[b][c].x = SymDiff(dm[b][c].x, Share({hp}, c))
      BY <1>2, <1>5, <2>7, <3>6, MeterOneMore
    <3>8. um'[b][c].n = dm'[b][c].n + SumOf(Entries(Rest(b)', c))
      BY <1>3, <3>2, <3>3, <3>4, <3>5, <3>7
    <3>9. um'[b][c].x = SymDiff(dm'[b][c].x, Odd(Rest(b)', c))
      BY <1>3, <2>1, <2>2, <3>2, <3>7 DEF ConservedAt, SymDiff
    <3> QED
      BY <2>2, <3>8, <3>9 DEF ConservedAt, Entries, Odd
  <2>8. CASE b # hb
    <3>1. \A q \in Packets : Missing(b, q) = Missing(b, q)'
      BY <1>7, <2>5, <2>8
    <3>2. Rest(b)' = Rest(b)
      BY <3>1 DEF Rest
    <3> QED
      BY <1>3, <1>5, <2>1, <2>2, <2>8, <3>2 DEF ConservedAt, Entries, Odd
  <2> QED
    BY <2>7, <2>8
<1>11. Decoded' /\ PassDone'
  BY <1>1, <1>3 DEF Decoded, PassDone
<1> QED
  BY <1>8, <1>9, <1>10, <1>11

LEMMA LoseStep ==
    ASSUME IInv, Lose
    PROVE  Quiet' /\ Bounded' /\ Conserved' /\ Decoded' /\ PassDone'
<1> DEFINE hb == Head(fly).batch
           hp == Head(fly).pkt
<1>1. TypeOK /\ Schedule /\ Decoded /\ fly # <<>> /\ fly' = Tail(fly) /\ ~ctl.on
  BY DEF IInv, Lose
<1>2. hb \in Batches /\ hp \in Packets
  BY <1>1, HeadAndTail
<1>3. UNCHANGED <<now, current, due, um, dm, metered, ctl, packetsLost, total>>
  BY DEF Lose, timeVars, controllerVars
<1>4. \A b \in Batches, q \in Packets :
        lost'[b][q] = IF b = hb /\ q = hp THEN lost[b][q] + 1 ELSE lost[b][q]
  <2>1. lost \in [Batches -> [Packets -> Nat]]
    BY <1>1, TypeFacts
  <2>2. \A b \in Batches, q \in Packets : [lost EXCEPT ![hb][hp] = @ + 1][b][q]
          = IF b = hb /\ q = hp THEN lost[b][q] + 1 ELSE lost[b][q]
    BY <1>2, <2>1, OneMore
  <2>3. lost' = [lost EXCEPT ![hb][hp] = @ + 1]
    BY DEF Lose
  <2> QED
    BY <2>2, <2>3
<1>5. hb = current \/ hb = due
  BY <1>1, HeadAndTail DEF Schedule
<1>6. \A b \in Batches : b # hb => lost'[b] = lost[b]
  <2>1. lost \in [Batches -> [Packets -> Nat]]
    BY <1>1, TypeFacts
  <2> QED
    BY <1>2, <2>1 DEF Lose
<1>7. ASSUME NEW b \in Batches, NEW q \in Packets
      PROVE  Missing(b, q)' = Missing(b, q)
  <2>1. Flying(b, q)' \in Nat /\ Flying(b, q) = Flying(b, q)' + IF b = hb /\ q = hp THEN 1 ELSE 0
    BY <1>1, TailFlying
  <2>2. lost[b][q] \in Nat /\ ~ctl'.on
    BY <1>1, <1>3, TypeFacts
  <2>3. Flying(b, q) \in Nat
    BY <2>1
  <2>4. Missing(b, q) = lost[b][q] + Flying(b, q) /\ Missing(b, q)' = lost'[b][q] + Flying(b, q)'
    <3>1. lost'[b][q] \in Nat
      BY <1>4, <2>2
    <3> QED
      BY <1>1, <2>1, <2>2, <2>3, <3>1 DEF Missing
  <2> QED
    BY <1>4, <2>1, <2>2, <2>3, <2>4
<1> HIDE DEF hb, hp
<1>8. Quiet'
  BY <1>3, <1>5, <1>6 DEF IInv, Quiet
<1>9. Bounded'
  BY <1>3 DEF IInv, Bounded, Allowed
<1>10. Conserved'
  <2> SUFFICES ASSUME NEW b \in Batches, NEW c \in Cells
               PROVE  ConservedAt(b, c)'
    BY DEF Conserved
  <2>1. ConservedAt(b, c)
    BY DEF IInv, Conserved
  <2>2. Base(b, c)' = Base(b, c)
    BY <1>3 DEF Base
  <2>3. Rest(b)' = Rest(b)
    BY <1>7 DEF Rest
  <2> QED
    BY <1>3, <2>1, <2>2, <2>3 DEF ConservedAt, Entries, Odd
<1>11. Decoded' /\ PassDone'
  BY <1>1, <1>3 DEF Decoded, PassDone
<1> QED
  BY <1>8, <1>9, <1>10, <1>11

(* Steps that touch neither meters, nor packets, nor the controller's list. *)
LEMMA ConservedKept ==
    ASSUME Conserved, UNCHANGED <<um, dm, lost, packetsLost>>,
           \A b \in Batches, q \in Packets : Flying(b, q)' = Flying(b, q),
           \A b \in Batches : (ctl'.on /\ b = due') <=> (ctl.on /\ b = due)
    PROVE  Conserved'
<1> SUFFICES ASSUME NEW b \in Batches, NEW c \in Cells
             PROVE  ConservedAt(b, c)'
  BY DEF Conserved
<1>1. ConservedAt(b, c)
  BY DEF Conserved
<1>2. Base(b, c)' = Base(b, c)
  BY DEF Base
<1>3. \A q \in Packets : Times({q})' = Times({q})
  BY DEF Times
<1>4. \A q \in Packets : Missing(b, q)' = Missing(b, q)
  BY <1>3 DEF Missing
<1>5. Rest(b)' = Rest(b)
  BY <1>4 DEF Rest
<1> QED
  BY <1>1, <1>2, <1>5 DEF ConservedAt, Entries, Odd

LEMMA TickStep ==
    ASSUME IInv, Tick
    PROVE  Quiet' /\ Bounded' /\ Conserved' /\ Decoded' /\ PassDone'
<1>1. UNCHANGED <<current, due, um, dm, metered, lost, congested, ctl, packetsLost, total>>
  BY DEF Tick, controllerVars
<1>2. ASSUME NEW b \in Batches, NEW q \in Packets
      PROVE  Flying(b, q)' = Flying(b, q)
  <2>1. {k \in DOMAIN fly' : fly'[k].batch = b /\ fly'[k].pkt = q}
          = {k \in DOMAIN fly : fly[k].batch = b /\ fly[k].pkt = q}
    BY TickFly DEF IInv
  <2> QED
    BY <2>1 DEF Flying
<1>3. Conserved'
  BY <1>1, <1>2, ConservedKept DEF IInv
<1>4. Quiet' /\ Bounded'
  BY <1>1 DEF IInv, Quiet, Bounded, Allowed
<1>5. Decoded' /\ PassDone'
  BY <1>1 DEF Tick, Decoded, PassDone
<1> QED
  BY <1>3, <1>4, <1>5

LEMMA UpdateBatchIdStep ==
    ASSUME IInv, UpdateBatchId
    PROVE  Quiet' /\ Bounded' /\ Conserved' /\ Decoded' /\ PassDone'
<1>1. UNCHANGED <<um, dm, fly, lost, congested, ctl, packetsLost, total>>
  BY DEF UpdateBatchId, controllerVars
<1>2. TypeOK /\ Schedule /\ ~ctl.on /\ due' = current /\ metered' = 0
  BY DEF IInv, UpdateBatchId
<1>3. current' \in Batches /\ current' # current
  BY <1>2, NextBatchFacts DEF UpdateBatchId
<1>4. due = NoBatch
  BY <1>2, NothingDue DEF UpdateBatchId
<1>5. \A b \in Batches, q \in Packets : Flying(b, q)' = Flying(b, q)
  BY <1>1 DEF Flying
<1>6. Conserved'
  BY <1>1, <1>2, <1>5, ConservedKept DEF IInv
<1>7. Quiet'
  BY <1>1, <1>2, <1>4, Constants DEF IInv, Quiet
<1>8. Bounded'
  <2> SUFFICES ASSUME NEW b \in Batches, NEW c \in Cells
               PROVE  um[b][c].n <= NumHashes * (IF b = current' THEN 0 ELSE MaxMetered[b])
    BY <1>1, <1>2 DEF Bounded, Allowed
  <2>1. CASE b = current'
    <3>1. um[b] = EmptyMeter
      BY <1>3, <1>4, <2>1, Constants DEF IInv, Quiet
    <3>2. um[b][c].n = 0
      BY <3>1 DEF EmptyMeter
    <3> QED
      BY <2>1, <3>2, Constants
  <2>2. CASE b # current' /\ b # current
    BY <2>2 DEF IInv, Bounded, Allowed
  <2>3. CASE b = current
    <3>1. um[b][c].n <= NumHashes * metered /\ um[b][c].n \in Nat
      BY <1>2, <2>3, BaseType DEF IInv, Bounded, Allowed
    <3>2. metered \in Nat /\ MaxMetered[b] \in Nat /\ metered <= MaxMetered[b]
      BY <1>2, <2>3, TypeFacts
    <3>3. NumHashes * metered <= NumHashes * MaxMetered[b] /\ NumHashes * metered \in Nat
           /\ NumHashes * MaxMetered[b] \in Nat
      BY <3>2, Multiples, Constants
    <3> QED
      BY <1>3, <2>3, <3>1, <3>3
  <2> QED
    BY <2>1, <2>2, <2>3
<1>9. Decoded' /\ PassDone'
  BY <1>1, <1>2 DEF Decoded, PassDone
<1> QED
  BY <1>6, <1>7, <1>8, <1>9

LEMMA NextPassStep ==
    ASSUME IInv, NextPass
    PROVE  Quiet' /\ Bounded' /\ Conserved' /\ Decoded' /\ PassDone'
<1>1. UNCHANGED <<now, current, due, um, dm, fly, metered, lost, congested, packetsLost, total>>
  BY DEF NextPass, timeVars, meterVars
<1>2. ctl.on /\ ctl'.on /\ ctl'.i = 0
  BY DEF NextPass, FreshPass
<1>3. \A b \in Batches, q \in Packets : Flying(b, q)' = Flying(b, q)
  BY <1>1 DEF Flying
<1>4. Conserved'
  BY <1>1, <1>2, <1>3, ConservedKept DEF IInv
<1>5. Quiet' /\ Bounded'
  BY <1>1 DEF IInv, Quiet, Bounded, Allowed
<1>6. Decoded'
  BY <1>1, <1>2 DEF IInv, Decoded, Times
<1>7. PassDone'
  <2>1. \A c \in Cells : ~(c < 0)
    BY Constants DEF Cells
  <2> QED
    BY <1>2, <2>1 DEF PassDone
<1> QED
  BY <1>4, <1>5, <1>6, <1>7

LEMMA StartSubtract ==
    ASSUME IInv, StartController, NEW c \in Cells
    PROVE  /\ um'[due][c].n = SumOf(Entries(Rest(due), c))
           /\ um'[due][c].x = Odd(Rest(due), c)
           /\ um'[due][c].n <= um[due][c].n
<1>0. TypeOK /\ Schedule /\ Decoded /\ due \in Batches /\ ~ctl.on
  BY TypeFacts DEF IInv, StartController, ControllerDue
<1>10. um'[due] = Subtract(um[due], dm[due])
  BY <1>0, TypeFacts DEF StartController, MeterArrays
<1>1. um'[due][c] = [n |-> (um[due][c].n - dm[due][c].n) % CounterMod,
                     x |-> SymDiff(um[due][c].x, dm[due][c].x)]
  BY <1>10 DEF Subtract
<1>2. /\ um[due][c].n = dm[due][c].n + SumOf(Entries(Rest(due), c))
      /\ um[due][c].x = SymDiff(dm[due][c].x, Odd(Rest(due), c))
  BY <1>0 DEF IInv, Conserved, ConservedAt, Base
<1>3. dm[due][c].n \in Nat /\ um[due][c].n \in Nat /\ um[due][c].n < CounterMod
  BY <1>0, BaseType
<1>4. SumOf(Entries(Rest(due), c)) \in Nat
  BY <1>0, RestType, EntriesType
<1>5. um[due][c].n - dm[due][c].n = SumOf(Entries(Rest(due), c))
  BY <1>2, <1>3, <1>4
<1>6. SumOf(Entries(Rest(due), c)) \in 0 .. CounterMod - 1
  BY <1>2, <1>3, <1>4, Constants
<1>7. (um[due][c].n - dm[due][c].n) % CounterMod = SumOf(Entries(Rest(due), c))
  BY <1>5, <1>6, Modulo
<1>8. SymDiff(um[due][c].x, dm[due][c].x) = Odd(Rest(due), c)
  BY <1>2 DEF SymDiff
<1> QED
  BY <1>1, <1>2, <1>3, <1>4, <1>7, <1>8

LEMMA StartControllerStep ==
    ASSUME IInv, StartController
    PROVE  /\ Quiet' /\ Bounded' /\ Conserved' /\ Decoded' /\ PassDone'
<1>1. UNCHANGED <<now, current, due, dm, fly, metered, lost, congested>>
  BY DEF StartController, timeVars
<1>2. TypeOK /\ Schedule /\ Decoded /\ due \in Batches /\ due # current /\ ~ctl.on
  BY TypeFacts DEF IInv, StartController, ControllerDue, Schedule
<1>3. ctl'.on /\ ctl'.i = 0 /\ packetsLost' = <<>>
  BY DEF StartController, FreshPass
<1>4. \A q \in Packets : Times({q})' = 0
  <2> TAKE q \in Packets
  <2>1. {k \in DOMAIN packetsLost' : packetsLost'[k] = {q}} = {}
    BY <1>3
  <2> QED
    BY <2>1, FS_EmptySet DEF Times
<1>5. um' = [um EXCEPT ![due] = Subtract(um[due], dm[due])]
  BY DEF StartController
<1>6. um'[due] = Subtract(um[due], dm[due]) /\ \A b \in Batches : b # due => um'[b] = um[b]
  BY <1>2, <1>5, TypeFacts DEF MeterArrays
<1>7. ASSUME NEW b \in Batches
      PROVE  Rest(b)' = Rest(b)
  <2> SUFFICES ASSUME NEW q \in Packets
               PROVE  Missing(b, q)' = Missing(b, q)
    BY DEF Rest
  <2>1. Flying(b, q)' = Flying(b, q)
    BY <1>1 DEF Flying
  <2>2. Flying(b, q) \in Nat /\ lost[b][q] \in Nat
    BY <1>2, RestType, TypeFacts
  <2> QED
    BY <1>1, <1>2, <1>4, <2>1, <2>2 DEF Missing
<1>8. ASSUME NEW c \in Cells
      PROVE  /\ um'[due][c].n = SumOf(Entries(Rest(due), c))
             /\ um'[due][c].x = Odd(Rest(due), c)
             /\ um'[due][c].n <= um[due][c].n
  BY StartSubtract
<1>9. Quiet'
  BY <1>1, <1>6 DEF IInv, Quiet
<1>10. Bounded'
  <2> SUFFICES ASSUME NEW b \in Batches, NEW c \in Cells
               PROVE  um'[b][c].n <= Allowed(b)
    BY <1>1 DEF Bounded, Allowed
  <2>1. um[b][c].n <= Allowed(b) /\ um[b][c].n \in Nat
    BY <1>2, BaseType DEF IInv, Bounded
  <2>2. Allowed(b) \in Nat
    <3>1. metered \in Nat /\ MaxMetered[b] \in Nat
      BY <1>2, TypeFacts, LossRadarAssumption
    <3> QED
      BY <3>1, Multiples, Constants DEF Allowed
  <2>3. CASE b = due
    <3>1. um'[b][c].n <= um[b][c].n /\ um'[b][c].n \in Nat
      <4>1. SumOf(Entries(Rest(due), c)) \in Nat
        BY <1>2, RestType, EntriesType
      <4> QED
        BY <1>8, <2>3, <4>1
    <3> QED
      BY <2>1, <2>2, <3>1
  <2>4. CASE b # due
    BY <1>6, <2>1, <2>4
  <2> QED
    BY <2>3, <2>4
<1>11. Conserved'
  <2> SUFFICES ASSUME NEW b \in Batches, NEW c \in Cells
               PROVE  ConservedAt(b, c)'
    BY DEF Conserved
  <2>1. CASE b = due
    <3>1. Base(b, c)' = [n |-> 0, x |-> {}]
      BY <1>1, <1>3, <2>1 DEF Base
    <3>2. SumOf(Entries(Rest(b), c)) \in Nat
      BY <1>2, RestType, EntriesType
    <3>3. um'[b][c].n = 0 + SumOf(Entries(Rest(b)', c)) /\ um'[b][c].x = Odd(Rest(b)', c)
      BY <1>7, <1>8, <2>1, <3>2
    <3>4. um'[b][c].x = SymDiff({}, Odd(Rest(b)', c))
      BY <3>3 DEF SymDiff
    <3>5. /\ um'[b][c].n = Base(b, c)'.n + SumOf(Entries(Rest(b)', c))
          /\ um'[b][c].x = SymDiff(Base(b, c)'.x, Odd(Rest(b)', c))
      BY <3>1, <3>3, <3>4
    <3> QED
      BY <3>5 DEF ConservedAt, Entries, Odd
  <2>2. CASE b # due
    <3>1. Base(b, c)' = Base(b, c)
      BY <1>1, <2>2 DEF Base
    <3>2. ConservedAt(b, c)
      BY DEF IInv, Conserved
    <3>3. um'[b] = um[b] /\ Rest(b)' = Rest(b)
      BY <1>6, <1>7, <2>2
    <3> QED
      BY <3>1, <3>2, <3>3 DEF ConservedAt, Entries, Odd
  <2> QED
    BY <2>1, <2>2
<1>12. Decoded'
  <2>1. \A q \in Packets : lost[due][q] \in Nat
    BY <1>2, TypeFacts
  <2> QED
    BY <1>1, <1>3, <1>4, <2>1 DEF Decoded
<1>13. PassDone'
  <2>1. \A c \in Cells : ~(c < 0)
    BY Constants DEF Cells
  <2> QED
    BY <1>3, <2>1 DEF PassDone
<1> QED
  BY <1>9, <1>10, <1>11, <1>12, <1>13

LEMMA RemoveOne ==
    ASSUME NEW m \in [Cells -> CellValues], NEW p \in Packets, NEW c \in Cells,
           Weight[{p}][c] <= m[c].n
    PROVE  /\ Remove(m, {p})[c].n = m[c].n - Weight[{p}][c]
           /\ Remove(m, {p})[c].x = SymDiff(m[c].x, Share({p}, c))
<1>1. {p} \in Tuples
  BY DEF Tuples
<1>2. Weight[{p}][c] \in Nat /\ m[c].n \in 0 .. CounterMod - 1
  BY <1>1, Metering, Constants DEF CellValues
<1>3. (m[c].n - Weight[{p}][c]) % CounterMod = m[c].n - Weight[{p}][c]
  BY <1>2, Modulo, Constants
<1> QED
  BY <1>3 DEF Remove

LEMMA NoneMissing ==
    ASSUME TypeOK, Schedule, ControllerDue, NEW p \in Packets
    PROVE  Flying(due, p) = 0
<1>1. {k \in DOMAIN fly : fly[k].batch = due /\ fly[k].pkt = p} = {}
  BY NoneFlying
<1> QED
  BY <1>1, FS_EmptySet DEF Flying

(* A pure cell holds exactly one packet that is lost and not yet decoded. *)
LEMMA PureCellHolds ==
    ASSUME IInv, ctl.on, NEW c \in Cells, PureCell(c)
    PROVE  \E p \in Packets : um[due][c].x = {p} /\ Rest(due)[p] > 0
<1>1. TypeOK /\ Schedule /\ Decoded /\ due \in Batches
  BY TypeFacts DEF IInv, Schedule
<1>2. Rest(due) \in [Packets -> Nat]
  BY <1>1, RestType
<1>3. Base(due, c) = [n |-> 0, x |-> {}]
  BY DEF Base
<1>4. /\ um[due][c].n = 0 + SumOf(Entries(Rest(due), c))
      /\ um[due][c].x = SymDiff({}, Odd(Rest(due), c))
  <2>1. ConservedAt(due, c)
    BY <1>1 DEF IInv, Conserved
  <2> QED
    BY <1>3, <2>1 DEF ConservedAt
<1>5. SumOf(Entries(Rest(due), c)) = 1
  BY <1>2, <1>4, EntriesType DEF PureCell
<1>6. um[due][c].x = Odd(Rest(due), c)
  BY <1>4 DEF SymDiff
<1> QED
  BY <1>2, <1>5, <1>6, OneEntry

LEMMA DecodeCellStep ==
    ASSUME IInv, DecodeCell
    PROVE  Quiet' /\ Bounded' /\ Conserved' /\ Decoded' /\ PassDone'
<1>1. UNCHANGED <<now, current, due, dm, fly, metered, lost, congested, total>>
  BY DEF DecodeCell, timeVars
<1>2. /\ TypeOK /\ Schedule /\ Decoded /\ ctl.on
      /\ due \in Batches /\ due # current /\ ctl.i \in Cells
  BY TypeFacts, Constants DEF IInv, DecodeCell, Schedule, Cells
<1>0. PICK d \in Batches : d = due
  BY <1>2
<1>3. \A b \in Batches, q \in Packets : Flying(b, q)' = Flying(b, q)
  BY <1>1 DEF Flying
<1>4. CASE ~PureCell(ctl.i)
  <2>1. UNCHANGED <<packetsLost, um>> /\ ctl' = [ctl EXCEPT !.i = @ + 1]
    BY <1>4 DEF DecodeCell
  <2>2. ctl'.on /\ ctl'.i = ctl.i + 1 /\ ctl'.step = ctl.step
    BY <1>2, <2>1, TypeFacts
  <2>3. Conserved'
    BY <1>1, <1>2, <1>3, <2>1, <2>2, ConservedKept DEF IInv
  <2>4. Quiet' /\ Bounded'
    BY <1>1, <2>1 DEF IInv, Quiet, Bounded, Allowed
  <2>5. Decoded'
    BY <1>1, <1>2, <2>1 DEF Decoded, Times
  <2>6. PassDone'
    <3> SUFFICES ASSUME ~ctl.step, NEW c \in Cells, c < ctl.i + 1
                 PROVE  um[due][c].n # 1
      BY <1>1, <2>1, <2>2 DEF PassDone
    <3>1. c < ctl.i \/ c = ctl.i
      BY <1>2, Constants DEF Cells
    <3> QED
      BY <1>2, <1>4, <3>1 DEF IInv, PassDone, PureCell
  <2> QED
    BY <2>3, <2>4, <2>5, <2>6
<1>5. CASE PureCell(ctl.i)
  <2>1. PICK p \in Packets : um[due][ctl.i].x = {p} /\ Rest(d)[p] > 0
    BY <1>0, <1>2, <1>5, PureCellHolds
  <2>2. /\ packetsLost' = Append(packetsLost, {p})
        /\ um' = [um EXCEPT ![due] = Remove(um[due], {p})]
        /\ ctl' = [ctl EXCEPT !.i = @ + 1, !.step = TRUE]
    BY <1>5, <2>1 DEF DecodeCell
  <2>3. ctl'.on /\ ctl'.step
    BY <1>2, <2>2, TypeFacts
  <2>4. {p} \in Tuples /\ packetsLost \in Seq(Tuples)
    BY <1>2, TypeFacts DEF Tuples
  <2>5. ASSUME NEW q \in Packets
        PROVE  /\ Times({q})' = Times({q}) + (IF q = p THEN 1 ELSE 0)
               /\ Times({q}) \in Nat
    <3>1. Times({q}) = Occurrences(packetsLost, {{q}})
      BY <2>4, TimesIs DEF Times
    <3>2. Append(packetsLost, {p}) \in Seq(Tuples)
      BY <2>4
    <3>3. Times({q})' = Occurrences(Append(packetsLost, {p}), {{q}})
      BY <2>2, <3>2, TimesIs DEF Times
    <3>4. {p} \in {{q}} <=> q = p
      OBVIOUS
    <3>5. Occurrences(packetsLost, {{q}}) \in Nat
      BY <2>4, OccurrencesType
    <3> QED
      BY <2>4, <3>1, <3>3, <3>4, <3>5, OccurrencesAppend
  <2>6. um'[d] = Remove(um[d], {p}) /\ um[d] \in [Cells -> CellValues]
         /\ \A b \in Batches : b # d => um'[b] = um[b]
    BY <1>0, <1>2, <2>2, TypeFacts DEF MeterArrays
  <2>7. Rest(d) \in [Packets -> Nat] /\ Rest(d)' \in [Packets -> Nat]
         /\ Rest(d)[p] = Rest(d)'[p] + 1
         /\ \A q \in Packets \ {p} : Rest(d)[q] = Rest(d)'[q]
    <3>1. Rest(d) \in [Packets -> Nat]
      BY <1>2, RestType
    <3>2. ASSUME NEW q \in Packets
          PROVE  /\ Rest(d)[q] = Rest(d)'[q] + (IF q = p THEN 1 ELSE 0)
                 /\ Rest(d)'[q] \in Nat /\ Rest(d)'[q] = Missing(d, q)'
      <4>1. Rest(d)[q] = lost[due][q] + Flying(d, q) - Times({q})
        BY <1>0, <1>2 DEF Rest, Missing
      <4>2. Rest(d)'[q] = Missing(d, q)'
        BY DEF Rest
      <4>3. Missing(d, q)' = lost[due][q] + Flying(d, q) - Times({q})'
        BY <1>0, <1>1, <1>2, <1>3, <2>3 DEF Missing
      <4>4. lost[due][q] \in Nat /\ Flying(d, q) \in Nat /\ Rest(d)[q] \in Nat
        BY <1>2, <3>1, TypeFacts, RestType
      <4> QED
        BY <2>1, <2>5, <4>1, <4>2, <4>3, <4>4
    <3>3. Rest(d)' = [q \in Packets |-> Rest(d)'[q]]
      BY DEF Rest
    <3>4. Rest(d)' \in [Packets -> Nat]
      BY <3>2, <3>3
    <3>5. \A q \in Packets \ {p} : Rest(d)[q] = Rest(d)'[q]
      BY <3>2
    <3>6. Rest(d)[p] = Rest(d)'[p] + 1
      BY <3>2
    <3> QED
      BY <3>1, <3>4, <3>5, <3>6
  <2>8. ASSUME NEW c \in Cells
        PROVE  /\ um'[d][c].n = SumOf(Entries(Rest(d)', c))
               /\ um'[d][c].x = Odd(Rest(d)', c)
               /\ um'[d][c].n <= um[d][c].n /\ um'[d][c].n \in Nat
    <3>1. Base(d, c) = [n |-> 0, x |-> {}] /\ ConservedAt(d, c)
      BY <1>0, <1>2 DEF Base, IInv, Conserved
    <3>2. /\ um[d][c].n = 0 + SumOf(Entries(Rest(d), c))
          /\ um[d][c].x = SymDiff({}, Odd(Rest(d), c))
      BY <3>1 DEF ConservedAt
    <3>3. /\ SumOf(Entries(Rest(d), c)) = SumOf(Entries(Rest(d)', c)) + Weight[{p}][c]
          /\ Odd(Rest(d), c) = SymDiff(Odd(Rest(d)', c), Share({p}, c))
      BY <2>7, OneMoreCopy
    <3>4. SumOf(Entries(Rest(d)', c)) \in Nat /\ Weight[{p}][c] \in Nat
      BY <2>4, <2>7, EntriesType, Metering, Constants
    <3>5. Weight[{p}][c] <= um[d][c].n
      BY <3>2, <3>3, <3>4
    <3>6. /\ um'[d][c].n = um[d][c].n - Weight[{p}][c]
          /\ um'[d][c].x = SymDiff(um[d][c].x, Share({p}, c))
      BY <2>6, <3>5, RemoveOne
    <3>7. um'[d][c].x = Odd(Rest(d)', c)
      BY <3>2, <3>3, <3>6 DEF SymDiff
    <3> QED
      BY <3>2, <3>3, <3>4, <3>6, <3>7
  <2>9. Quiet'
    BY <1>0, <1>1, <2>6 DEF IInv, Quiet
  <2>10. Bounded'
    <3> SUFFICES ASSUME NEW b \in Batches, NEW c \in Cells
                 PROVE  um'[b][c].n <= Allowed(b)
      BY <1>1 DEF Bounded, Allowed
    <3>1. um[b][c].n <= Allowed(b) /\ um[b][c].n \in Nat
      BY <1>2, BaseType DEF IInv, Bounded
    <3>2. Allowed(b) \in Nat
      <4>1. metered \in Nat /\ MaxMetered[b] \in Nat
        BY <1>2, TypeFacts, LossRadarAssumption
      <4> QED
        BY <4>1, Multiples, Constants DEF Allowed
    <3>3. CASE b = d
      <4>1. um'[b][c].n <= um[b][c].n /\ um'[b][c].n \in Nat
        BY <2>8, <3>3
      <4> QED
        BY <3>1, <3>2, <4>1
    <3>4. CASE b # d
      BY <2>6, <3>1, <3>4
    <3> QED
      BY <3>3, <3>4
  <2>11. Conserved'
    <3> SUFFICES ASSUME NEW b \in Batches, NEW c \in Cells
                 PROVE  ConservedAt(b, c)'
      BY DEF Conserved
    <3>1. CASE b = d
      <4>1. Base(b, c)' = [n |-> 0, x |-> {}]
        BY <1>0, <1>1, <2>3, <3>1 DEF Base
      <4>2. SumOf(Entries(Rest(b)', c)) \in Nat
        BY <2>7, <3>1, EntriesType
      <4>3. um'[b][c].n = 0 + SumOf(Entries(Rest(b)', c)) /\ um'[b][c].x = Odd(Rest(b)', c)
        BY <2>8, <3>1, <4>2
      <4>4. um'[b][c].x = SymDiff({}, Odd(Rest(b)', c))
        BY <4>3 DEF SymDiff
      <4>5. /\ um'[b][c].n = Base(b, c)'.n + SumOf(Entries(Rest(b)', c))
            /\ um'[b][c].x = SymDiff(Base(b, c)'.x, Odd(Rest(b)', c))
        BY <4>1, <4>3, <4>4
      <4> QED
        BY <4>5 DEF ConservedAt, Entries, Odd
    <3>2. CASE b # d
      <4>1. Base(b, c)' = Base(b, c)
        BY <1>0, <1>1, <3>2 DEF Base
      <4>2. ConservedAt(b, c)
        BY DEF IInv, Conserved
      <4>3. \A q \in Packets : Missing(b, q)' = Missing(b, q)
        BY <1>0, <1>1, <1>3, <3>2 DEF Missing
      <4>4. um'[b] = um[b] /\ Rest(b)' = Rest(b)
        BY <2>6, <3>2, <4>3 DEF Rest
      <4> QED
        BY <4>1, <4>2, <4>4 DEF ConservedAt, Entries, Odd
    <3> QED
      BY <3>1, <3>2
  <2>12. Decoded'
    <3>1. \A k \in DOMAIN packetsLost' : packetsLost'[k] = {p}
             \/ (k \in DOMAIN packetsLost /\ packetsLost'[k] = packetsLost[k])
      BY <2>2, <2>4
    <3>2. \A k \in DOMAIN packetsLost' : \E q \in Packets : packetsLost'[k] = {q}
      BY <1>2, <3>1 DEF Decoded
    <3>3. ASSUME NEW q \in Packets
          PROVE  Times({q})' <= lost[due][q]
      <4>1. Rest(d)[q] = lost[due][q] + Flying(d, q) - Times({q})
        BY <1>0, <1>2 DEF Rest, Missing
      <4>2. Flying(d, q) = 0 /\ lost[due][q] \in Nat
        BY <1>0, <1>2, NoneMissing, TypeFacts DEF Schedule, ControllerDue
      <4>3. Rest(d)[q] \in Nat
        BY <2>7
      <4> QED
        BY <2>1, <2>5, <4>1, <4>2, <4>3
    <3> QED
      BY <1>1, <3>2, <3>3 DEF Decoded
  <2>13. PassDone'
    BY <2>3 DEF PassDone
  <2> QED
    BY <2>9, <2>10, <2>11, <2>12, <2>13
<1> QED
  BY <1>4, <1>5

LEMMA FinishControllerStep ==
    ASSUME IInv, FinishController
    PROVE  Quiet' /\ Bounded' /\ Conserved' /\ Decoded' /\ PassDone'
<1>1. /\ TypeOK /\ Schedule /\ Decoded /\ ControllerDue
      /\ due \in Batches /\ due # current /\ ctl.on
  BY TypeFacts DEF IInv, FinishController, Reporting, Schedule, ControllerDue
<1>2. UNCHANGED <<now, current, fly, metered>> /\ ~ctl'.on /\ due' = NoBatch
  BY DEF FinishController, Idle
<1>3. PICK d \in Batches : d = due
  BY <1>1
<1>4. /\ um'[d] = EmptyMeter /\ dm'[d] = EmptyMeter /\ lost'[d] = NoPackets
      /\ \A b \in Batches : b # d => um'[b] = um[b] /\ dm'[b] = dm[b] /\ lost'[b] = lost[b]
  <2>1. DOMAIN um = Batches /\ DOMAIN dm = Batches /\ DOMAIN lost = Batches
    BY <1>1, TypeFacts DEF MeterArrays
  <2> QED
    BY <1>3, <2>1 DEF FinishController
<1>5. Quiet'
  BY <1>2, <1>3, <1>4 DEF IInv, Quiet
<1>6. Bounded'
  <2> SUFFICES ASSUME NEW b \in Batches, NEW c \in Cells
               PROVE  um'[b][c].n <= Allowed(b)
    BY <1>2 DEF Bounded, Allowed
  <2>1. um[b][c].n <= Allowed(b)
    BY DEF IInv, Bounded
  <2>2. Allowed(b) \in Nat
    <3>1. metered \in Nat /\ MaxMetered[b] \in Nat
      BY <1>1, TypeFacts, LossRadarAssumption
    <3> QED
      BY <3>1, Multiples, Constants DEF Allowed
  <2>3. CASE b = d
    BY <1>4, <2>2, <2>3 DEF EmptyMeter
  <2>4. CASE b # d
    BY <1>4, <2>1, <2>4
  <2> QED
    BY <2>3, <2>4
<1>7. Conserved'
  <2> SUFFICES ASSUME NEW b \in Batches, NEW c \in Cells
               PROVE  ConservedAt(b, c)'
    BY DEF Conserved
  <2>1. \A q \in Packets : Flying(b, q)' = Flying(b, q)
    BY <1>2 DEF Flying
  <2>2. CASE b = d
    <3>1. Base(b, c)' = [n |-> 0, x |-> {}] /\ um'[b][c] = [n |-> 0, x |-> {}]
      BY <1>2, <1>4, <2>2 DEF Base, EmptyMeter
    <3>2. ASSUME NEW q \in Packets
          PROVE  Missing(b, q)' = 0
      <4>1. Flying(b, q) = 0
        BY <1>1, <1>3, <2>2, NoneMissing
      <4>2. lost'[b][q] = 0
        BY <1>4, <2>2 DEF NoPackets
      <4> QED
        BY <1>2, <2>1, <4>1, <4>2 DEF Missing
    <3>3. Rest(b)' \in [Packets -> Nat] /\ \A q \in Packets : Rest(b)'[q] = 0
      BY <3>2 DEF Rest
    <3>4. ASSUME NEW q \in Packets
          PROVE  Entries(Rest(b)', c)[q] = 0
      <4>1. {q} \in Tuples
        BY DEF Tuples
      <4>2. Weight[{q}][c] \in Nat
        BY <4>1, Metering, Constants
      <4> QED
        BY <3>3, <4>2 DEF Entries
    <3>5. SumOf(Entries(Rest(b)', c)) = 0
      BY <3>3, <3>4, EntriesType, SumZero
    <3>6. Odd(Rest(b)', c) = {}
      BY <3>4 DEF Odd
    <3>7. /\ um'[b][c].n = Base(b, c)'.n + SumOf(Entries(Rest(b)', c))
          /\ um'[b][c].x = SymDiff(Base(b, c)'.x, Odd(Rest(b)', c))
      BY <3>1, <3>5, <3>6 DEF SymDiff
    <3> QED
      BY <3>7 DEF ConservedAt, Entries, Odd
  <2>3. CASE b # d
    <3>1. Base(b, c)' = Base(b, c)
      BY <1>2, <1>3, <1>4, <2>3 DEF Base
    <3>2. ConservedAt(b, c)
      BY DEF IInv, Conserved
    <3>3. \A q \in Packets : Missing(b, q)' = Missing(b, q)
      BY <1>2, <1>3, <1>4, <2>1, <2>3 DEF Missing
    <3>4. um'[b] = um[b] /\ Rest(b)' = Rest(b)
      BY <1>4, <2>3, <3>3 DEF Rest
    <3> QED
      BY <3>1, <3>2, <3>4 DEF ConservedAt, Entries, Odd
  <2> QED
    BY <2>2, <2>3
<1>8. Decoded' /\ PassDone'
  BY <1>2 DEF Decoded, PassDone
<1> QED
  BY <1>5, <1>6, <1>7, <1>8

LEMMA StutterStep ==
    ASSUME IInv, UNCHANGED vars
    PROVE  IInv'
<1>1. UNCHANGED <<now, current, due, um, dm, fly, metered, lost, congested, ctl, packetsLost, total>>
  BY DEF vars, timeVars, meterVars, controllerVars
<1>2. \A b \in Batches, q \in Packets : Flying(b, q)' = Flying(b, q)
  BY <1>1 DEF Flying
<1>3. Conserved'
  BY <1>1, <1>2, ConservedKept DEF IInv
<1>4. TypeOK' /\ Schedule'
  BY TypeStep DEF IInv
<1>5. Quiet' /\ Bounded' /\ PassDone'
  BY <1>1 DEF IInv, Quiet, Bounded, Allowed, PassDone
<1>6. Decoded'
  BY <1>1 DEF IInv, Decoded, Times
<1> QED
  BY <1>3, <1>4, <1>5, <1>6 DEF IInv

LEMMA IInvStep ==
    ASSUME IInv, [Next]_vars
    PROVE  IInv'
<1>1. CASE UNCHANGED vars
  BY <1>1, StutterStep
<1>2. CASE Next
  <2>1. TypeOK' /\ Schedule'
    BY TypeStep DEF IInv
  <2>2. ASSUME NEW p \in Packets, NEW fate \in Fates, Send(p, fate)
        PROVE  Quiet' /\ Bounded' /\ Conserved' /\ Decoded' /\ PassDone'
    BY <2>2, SendStep
  <2>3. Quiet' /\ Bounded' /\ Conserved' /\ Decoded' /\ PassDone'
    BY <1>2, <2>2, ArriveStep, LoseStep, TickStep, UpdateBatchIdStep, StartControllerStep,
       DecodeCellStep, NextPassStep, FinishControllerStep DEF Next
  <2> QED
    BY <2>1, <2>3 DEF IInv
<1> QED
  BY <1>1, <1>2

LEMMA IInvAlways == Spec => []IInv
<1>1. IInv /\ [Next]_vars => IInv'
  BY IInvStep
<1> QED
  BY InitIInv, <1>1, PTL DEF Spec

-----------------------------------------------------------------------------
(* Types are kept, and no counter of a meter wraps (P4SwitchLossRadar). *)
THEOREM TypeCorrect == Spec => []TypeOK
<1>1. IInv => TypeOK
  BY DEF IInv
<1> QED
  BY IInvAlways, <1>1, PTL

(* The half batch time that UpdateBatchId gives the Controller is long      *)
(* enough, for every delay below it: the batch it reads is complete.        *)
THEOREM BatchAlwaysComplete == Spec => []BatchComplete
<1>1. IInv => BatchComplete
  BY BatchCompleteHolds DEF IInv
<1> QED
  BY IInvAlways, <1>1, PTL

(* UmMeter, DmMeter and the Controller's removals conserve counts and XORs: *)
(* upstream is downstream, plus what is on its way or lost, less what was   *)
(* decoded; so no subtraction goes below zero.                              *)
THEOREM MetersAlwaysConserve == Spec => []MetersConserve
<1>1. IInv => MetersConserve
  BY ConservedIs DEF IInv
<1> QED
  BY IInvAlways, <1>1, PTL

-----------------------------------------------------------------------------
(* The controller's report. *)

(* While the controller runs, what is left in the cells is what was lost    *)
(* and has not been decoded. *)
LEMMA Remaining ==
    ASSUME IInv, ctl.on
    PROVE  /\ due \in Batches /\ Rest(due) \in [Packets -> Nat]
           /\ \A p \in Packets : Rest(due)[p] = lost[due][p] - Times({p})
           /\ \A c \in Cells : um[due][c].n = SumOf(Entries(Rest(due), c))
<1>1. TypeOK /\ Schedule /\ Decoded /\ due \in Batches /\ ControllerDue
  BY TypeFacts DEF IInv, Schedule, ControllerDue
<1>2. Rest(due) \in [Packets -> Nat]
  BY <1>1, RestType
<1>3. ASSUME NEW p \in Packets
      PROVE  Rest(due)[p] = lost[due][p] - Times({p})
  <2>1. Flying(due, p) = 0
    BY <1>1, NoneMissing
  <2>2. lost[due][p] \in Nat /\ Times({p}) \in Nat
    BY <1>1, RestType, TypeFacts
  <2>3. Missing(due, p) = lost[due][p] + 0 - Times({p})
    BY <2>1 DEF Missing
  <2> QED
    BY <2>2, <2>3 DEF Rest
<1>4. ASSUME NEW c \in Cells
      PROVE  um[due][c].n = SumOf(Entries(Rest(due), c))
  <2>1. ConservedAt(due, c)
    BY <1>1 DEF IInv, Conserved
  <2>2. Base(due, c).n = 0
    BY DEF Base
  <2>3. um[due][c].n = 0 + SumOf(Entries(Rest(due), c))
    BY <2>1, <2>2 DEF ConservedAt
  <2> QED
    BY <1>2, <2>3, EntriesType
<1> QED
  BY <1>1, <1>2, <1>3, <1>4

(* The Controller of P4SwitchLossRadar leaves its loop only when no cell is *)
(* pure: whatever the hashes and the losses, it has decoded all that        *)
(* peeling can decode.                                                      *)
THEOREM DecodingAlwaysMaximal == Spec => []DecodingMaximal
<1>1. IInv => DecodingMaximal
  <2> SUFFICES ASSUME IInv, Reporting, NEW c \in Cells
               PROVE  SumOf([p \in Packets |-> (lost[due][p] - Times({p})) * Weight[{p}][c]]) # 1
    BY DEF DecodingMaximal
  <2>1. ctl.on /\ ctl.i = NumCells /\ ~ctl.step
    BY DEF Reporting, Converged
  <2>2. [p \in Packets |-> (lost[due][p] - Times({p})) * Weight[{p}][c]] = Entries(Rest(due), c)
    BY <2>1, Remaining DEF Entries
  <2>3. c < ctl.i
    BY <2>1, Constants DEF Cells
  <2>4. um[due][c].n # 1
    BY <2>1, <2>3 DEF IInv, PassDone
  <2> QED
    BY <2>1, <2>2, <2>4, Remaining
<1> QED
  BY IInvAlways, <1>1, PTL

(* A packet is counted in NumHashes cells: the counts add up to NumHashes   *)
(* times the packets.                                                       *)
LEMMA CellsTotal ==
    ASSUME NEW r \in [Packets -> Nat], NEW f \in [Cells -> Nat],
           \A c \in Cells : f[c] = SumOf(Entries(r, c))
    PROVE  SumOf(f) = NumHashes * SumOf(r)
<1> DEFINE row == [c \in Cells |-> Entries(r, c)]
           col == [p \in Packets |-> [c \in Cells |-> r[p] * Weight[{p}][c]]]
           cols == [p \in Packets |-> NumHashes * r[p]]
<1>1. /\ IsFiniteSet(Cells) /\ IsFiniteSet(Packets) /\ NumHashes \in Nat
      /\ r \in [Packets -> Nat] /\ f \in [Cells -> Nat]
  BY Constants
<1>2. row \in [Cells -> [Packets -> Nat]]
  BY EntriesType
<1>3. ASSUME NEW p \in Packets
      PROVE  /\ col[p] \in [Cells -> Nat]
             /\ SumOf(col[p]) = NumHashes * r[p] /\ NumHashes * r[p] \in Nat
  <2> DEFINE w == [c \in Cells |-> Weight[{p}][c]]
  <2>1. {p} \in Tuples
    BY DEF Tuples
  <2>2. w \in [Cells -> Nat] /\ \A c \in Cells : w[c] = Weight[{p}][c]
    BY <2>1, Metering, Constants
  <2>3. \A c \in Cells : col[p][c] = r[p] * w[c]
    OBVIOUS
  <2>4. DOMAIN col[p] = Cells /\ col[p] = [c \in Cells |-> col[p][c]]
    OBVIOUS
  <2>5. r[p] \in Nat
    OBVIOUS
  <2> HIDE DEF w, col
  <2>6. \A c \in Cells : r[p] * w[c] \in Nat
    BY <2>2, <2>5, Multiples
  <2>7. col[p] \in [Cells -> Nat]
    BY <2>3, <2>4, <2>6
  <2>8. SumOf(w) = NumHashes
    BY <2>1, <2>2, MeteredInAll
  <2>9. SumOf(col[p]) = r[p] * SumOf(w)
    BY <2>2, <2>3, <2>5, <2>7, Constants, SumOfMultiple
  <2>10. r[p] * NumHashes = NumHashes * r[p] /\ NumHashes * r[p] \in Nat
    BY <2>5, Constants
  <2> QED
    BY <2>7, <2>8, <2>9, <2>10
<1>4. col \in [Packets -> [Cells -> Nat]] /\ cols \in [Packets -> Nat]
  BY <1>3
<1>5. \A c \in Cells, p \in Packets : row[c][p] = col[p][c]
  BY DEF Entries
<1>6. \A c \in Cells : f[c] = SumOf(row[c])
  OBVIOUS
<1>7. \A p \in Packets : cols[p] = SumOf(col[p])
  BY <1>3
<1>8. \A p \in Packets : cols[p] = NumHashes * r[p]
  OBVIOUS
<1> HIDE DEF row, col, cols
<1>9. SumOf(f) = SumOf(cols)
  <2>1. IsTable(Cells, Packets, row, col, f, cols)
    BY <1>1, <1>2, <1>4, <1>5, <1>6, <1>7 DEF IsTable
  <2> QED
    BY <2>1, SumExchange
<1>10. SumOf(cols) = NumHashes * SumOf(r)
  BY ONLY <1>1, <1>4, <1>8, SumOfMultiple
<1> QED
  BY <1>9, <1>10

LEMMA Quotient ==
    ASSUME NEW n \in Nat, n > 0, NEW x \in Nat
    PROVE  (n * x) \div n = x
OBVIOUS

(* total_packets_lost_in_batch, before it is divided. *)
TotalKept == ctl.on => total = NumHashes * SumOf(lost[due])

LEMMA TotalKeptStep ==
    ASSUME IInv, TotalKept, [Next]_vars
    PROVE  TotalKept'
<1>1. CASE StartController
  <2> DEFINE f == [c \in Cells |-> um'[due][c].n]
  <2>1. due \in Batches /\ ~ctl.on /\ TypeOK /\ Schedule /\ Decoded /\ ControllerDue
    BY <1>1, TypeFacts DEF IInv, StartController, ControllerDue
  <2>2. Rest(due) \in [Packets -> Nat]
    BY <2>1, RestType
  <2>3. \A c \in Cells : f[c] = SumOf(Entries(Rest(due), c))
    BY <1>1, StartSubtract
  <2>4. f \in [Cells -> Nat]
    BY <2>2, <2>3, EntriesType
  <2>5. total' = SumOf(f) /\ due' = due /\ lost' = lost
    BY <1>1 DEF StartController, timeVars
  <2> HIDE DEF f
  <2>6. total' = NumHashes * SumOf(Rest(due))
    BY <2>2, <2>3, <2>4, <2>5, CellsTotal
  <2>7. lost[due] \in [Packets -> Nat]
    BY <2>1, TypeFacts
  <2>8. \A p \in Packets : Rest(due)[p] = lost[due][p]
    <3> TAKE p \in Packets
    <3>1. Flying(due, p) = 0
      BY <2>1, NoneMissing
    <3>2. Missing(due, p) = lost[due][p] + 0 - 0
      BY <2>1, <3>1 DEF Missing
    <3> QED
      BY <2>7, <3>2 DEF Rest
  <2>9. Rest(due) = lost[due]
    BY <2>2, <2>7, <2>8
  <2> QED
    BY <2>5, <2>6, <2>9 DEF TotalKept
<1>2. CASE FinishController
  BY <1>2 DEF FinishController, Idle, TotalKept
<1>3. CASE DecodeCell
  BY <1>3 DEF DecodeCell, timeVars, TotalKept
<1>4. CASE NextPass
  BY <1>4 DEF NextPass, timeVars, meterVars, TotalKept
<1>5. CASE UNCHANGED vars
  BY <1>5 DEF vars, timeVars, meterVars, controllerVars, TotalKept
<1>6. ASSUME ~ctl.on, UNCHANGED ctl
      PROVE  TotalKept'
  BY <1>6 DEF TotalKept
<1>7. CASE \/ \E p \in Packets, fate \in Fates : Send(p, fate)
           \/ Arrive \/ Lose \/ Tick \/ UpdateBatchId
  BY <1>6, <1>7 DEF Send, Arrive, Lose, Tick, UpdateBatchId, controllerVars
<1> QED
  BY <1>1, <1>2, <1>3, <1>4, <1>5, <1>7 DEF Next

(* The tuples decoded, by packet. *)
LEMMA DecodedTotal ==
    ASSUME IInv, ctl.on, NEW t \in [Packets -> Nat], \A p \in Packets : t[p] = Times({p})
    PROVE  SumOf(t) = Len(packetsLost)
<1> DEFINE T == 1 .. Len(packetsLost)
           h == [k \in T |-> CHOOSE p \in Packets : packetsLost[k] = {p}]
           class == [p \in Packets |-> {k \in T : h[k] = p}]
<1>1. packetsLost \in Seq(Tuples)
  BY TypeFacts DEF IInv
<1>2. DOMAIN packetsLost = T /\ Len(packetsLost) \in Nat
  BY <1>1
<1>3. IsFiniteSet(T) /\ Cardinality(T) = Len(packetsLost)
  BY <1>2, FS_Interval
<1>4. \A k \in T : \E p \in Packets : packetsLost[k] = {p}
  BY <1>2 DEF IInv, Decoded
<1>5. \A k \in T : h[k] \in Packets /\ packetsLost[k] = {h[k]}
  BY <1>4
<1>6. h \in [T -> Packets]
  BY <1>5
<1>7. ASSUME NEW p \in Packets
      PROVE  t[p] = Cardinality(class[p]) /\ class[p] = {k \in T : h[k] = p}
  <2>1. \A k \in T : packetsLost[k] = {p} <=> h[k] = p
    BY <1>5
  <2>2. {k \in DOMAIN packetsLost : packetsLost[k] = {p}} = class[p]
    BY <1>2, <2>1
  <2> QED
    BY <2>2 DEF Times
<1>8. DOMAIN class = Packets
  OBVIOUS
<1> HIDE DEF T, h, class
<1> QED
  BY <1>3, <1>6, <1>7, <1>8, Constants, SumOfClasses

(* What the Controller of P4SwitchLossRadar reports is true of the batch:   *)
(* every decoded flow was lost, as often as it is reported; the total is    *)
(* the number of packets lost; and the decoded and the undecoded packets    *)
(* are all of them.                                                         *)
THEOREM ReportAlwaysTrue == Spec => []ReportTrue
<1>1. Init => TotalKept
  BY DEF Init, Idle, TotalKept
<1>2. IInv /\ TotalKept /\ [Next]_vars => TotalKept'
  BY TotalKeptStep
<1>3. ASSUME IInv, TotalKept
      PROVE  ReportTrue
  <2> SUFFICES ASSUME Reporting
               PROVE  /\ total \div NumHashes = SumOf(lost[due])
                      /\ Len(packetsLost) + NonDetected \div NumHashes = SumOf(lost[due])
    BY <1>3 DEF ReportTrue, IInv, Decoded, Reporting
  <2> DEFINE f == [c \in Cells |-> um[due][c].n]
             t == [p \in Packets |-> Times({p})]
  <2>1. ctl.on /\ TypeOK /\ Decoded
    BY <1>3 DEF Reporting, IInv
  <2>2. /\ due \in Batches /\ Rest(due) \in [Packets -> Nat]
        /\ \A p \in Packets : Rest(due)[p] = lost[due][p] - Times({p})
        /\ \A c \in Cells : um[due][c].n = SumOf(Entries(Rest(due), c))
    BY <1>3, <2>1, Remaining
  <2>3. t \in [Packets -> Nat] /\ \A p \in Packets : t[p] = Times({p})
    BY <2>1, <2>2, RestType
  <2>4. lost[due] \in [Packets -> Nat]
    BY <2>1, <2>2, TypeFacts
  <2>5. f \in [Cells -> Nat] /\ \A c \in Cells : f[c] = SumOf(Entries(Rest(due), c))
    BY <2>2, EntriesType
  <2>6. NonDetected = SumOf(f)
    BY DEF NonDetected
  <2> HIDE DEF f, t
  <2>7. SumOf(f) = NumHashes * SumOf(Rest(due))
    BY <2>2, <2>5, CellsTotal
  <2>8. \A p \in Packets : lost[due][p] = Rest(due)[p] + t[p]
    <3> TAKE p \in Packets
    <3>1. Rest(due)[p] = lost[due][p] - t[p] /\ t[p] \in Nat /\ lost[due][p] \in Nat
      BY <2>2, <2>3, <2>4
    <3> QED
      BY <3>1
  <2>9. SumOf(lost[due]) = SumOf(Rest(due)) + SumOf(t)
    BY <2>2, <2>3, <2>4, <2>8, Constants, SumOfSum
  <2>10. SumOf(t) = Len(packetsLost)
    BY <1>3, <2>1, <2>3, DecodedTotal
  <2>11. SumOf(lost[due]) \in Nat /\ SumOf(Rest(due)) \in Nat /\ SumOf(t) \in Nat
    BY <2>2, <2>3, <2>4, Constants, UnitsFinite
  <2>12. total = NumHashes * SumOf(lost[due])
    BY <1>3, <2>1 DEF TotalKept
  <2>13. total \div NumHashes = SumOf(lost[due])
    BY <2>11, <2>12, Constants, Quotient
  <2>14. NonDetected \div NumHashes = SumOf(Rest(due))
    BY <2>6, <2>7, <2>11, Constants, Quotient
  <2> QED
    BY <2>9, <2>10, <2>11, <2>13, <2>14
<1> QED
  BY IInvAlways, <1>1, <1>2, <1>3, PTL DEF Spec
=============================================================================
