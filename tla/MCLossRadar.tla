---------------------------- MODULE MCLossRadar ----------------------------
EXTENDS LossRadar, Functions

CONSTANTS p1, p2, p3

(* When all three are lost, p1 is decoded first, from the last cell, which   *)
(* makes cell 1 pure, and p2 only in the next pass.  Both indexes of p3 are  *)
(* the same cell: it cannot be decoded.  The same tuple may be sent again.   *)
MCHash == [t \in Tuples |->
    CASE t = {p1} -> <<2, 1>>
      [] t = {p2} -> <<1, 0>>
      [] t = {p3} -> <<0, 0>>
      [] OTHER -> <<0, 2>>]
MCMaxMetered == [b \in Batches |-> IF b = 0 THEN 3 ELSE 1]

(* The sum by which totals are stated is the sum of the values. *)
ASSUME SumIsSum == \A f \in [Packets -> 0 .. 3] : SumOf(f) = SumFunction(f)
=============================================================================
