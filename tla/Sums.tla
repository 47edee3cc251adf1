------------------------------- MODULE Sums -------------------------------
(***************************************************************************)
(* The sum of a function to the natural numbers, as the size of a set that *)
(* has f[a] elements for every a.  It is the sum that SumFunction of the   *)
(* module Functions computes by a fold (MCLossRadar compares the two); as  *)
(* a cardinality it can be reasoned about without an induction.            *)
(***************************************************************************)
EXTENDS Integers, FiniteSets

Units(f) == UNION {{a} \X (1 .. f[a]) : a \in DOMAIN f}

SumOf(f) == Cardinality(Units(f))
=============================================================================
