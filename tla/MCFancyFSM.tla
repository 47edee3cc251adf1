---------------------------- MODULE MCFancyFSM ----------------------------
(* Values of FancyFSM's constants that a configuration file cannot write. *)
EXTENDS FancyFSM

(* m_rerouteMinCost = 0, the default: any loss is a failure. *)
MC_AnyLoss == <<0, 1>>

(* m_rerouteMinCost = 0.5 *)
MC_HalfLost == <<1, 2>>
=============================================================================
