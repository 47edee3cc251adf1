----------------------------- MODULE LossMeter -----------------------------
(***************************************************************************)
(* What the counting protocol of FancyFSM is for, without messages, timers *)
(* or a second switch: sessions follow one another, the link loses some of *)
(* the packets of a session, and when a session ends its losses are        *)
(* reported and compared with the threshold.                               *)
(***************************************************************************)
EXTENDS Naturals

CONSTANTS
    CostType, MinCost,   \* as in FancyFSM
    Alarms               \* does the machine flag its own entry?

VARIABLES session, sent, lost, report, flagged

vars == <<session, sent, lost, report, flagged>>

Init == session = 0 /\ sent = 0 /\ lost = 0 /\ report = 0 /\ flagged = FALSE

SendPacket ==
    /\ sent' = sent + 1
    /\ UNCHANGED <<session, lost, report, flagged>>

LosePacket ==
    /\ lost < sent
    /\ lost' = lost + 1
    /\ UNCHANGED <<session, sent, report, flagged>>

(* The absolute or the relative loss of the session exceeds the threshold. *)
Exceeds ==
    lost * MinCost[2] > MinCost[1] * (IF CostType = "ABSOLUTE" THEN 1 ELSE sent)

CloseSession ==
    /\ report' = lost
    /\ flagged' = (flagged \/ (Alarms /\ Exceeds))
    /\ session' = session + 1
    /\ sent' = 0 /\ lost' = 0

Next == SendPacket \/ LosePacket \/ CloseSession

Spec == Init /\ [][Next]_vars
=============================================================================
