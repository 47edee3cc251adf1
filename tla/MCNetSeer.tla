----------------------------- MODULE MCNetSeer -----------------------------
(* Values of NetSeer's constants that a configuration file cannot write. *)
EXTENDS NetSeer

(* All flows but the zero one share a cell of the event cache. *)
MC_Hash == [f \in Flows |-> IF f = ZeroFlow THEN 0 ELSE 1]
=============================================================================
