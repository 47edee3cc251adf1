---------------------------- MODULE MCZoomTree ----------------------------
EXTENDS ZoomTree, TLC

CONSTANTS f1, f2, f3, f4

(* Hashes for a tree of depth 3 and width 2 and for one of depth 2 and width *)
(* 3.  The flows f2 and f3 have the same path in both and another bit in     *)
(* their cell, which is ambiguous when both send.  With width 2, f1, f2 and  *)
(* f3 share the root cell, and of two root cells one is zoomed into; with    *)
(* width 3, of three root cells two are.  f4 is in the cells that the maxima *)
(* point to before the first exchange.                                       *)
MCHash ==
    (f1 :> (0 :> 1 @@ 1 :> 5 @@ 2 :> 1)) @@ (f4 :> (0 :> 0 @@ 1 :> 0 @@ 2 :> 0)) @@
    (f2 :> (0 :> 5 @@ 1 :> 4 @@ 2 :> 0)) @@ (f3 :> (0 :> 5 @@ 1 :> 4 @@ 2 :> 0)) @@
    (ControlFlow :> (0 :> 1 @@ 1 :> 4 @@ 2 :> 1))
MCCellBit == [f \in {f1, f2, f3, f4} |-> [l \in 0 .. 2 |-> IF f = f3 THEN 1 ELSE 0]]

(* With depth 3 the filter contains the path of a message as soon as it      *)
(* contains those of f1 and f2 or of f1 and f4: a false positive.  In the    *)
(* second case f2 may never be found.  With depth 2 there are no false       *)
(* positives.                                                                *)
MCRerouteBits(p) ==
    IF 2 \in DOMAIN p THEN {p[0] + p[2], 10 + p[1]} ELSE {30 + 3 * p[0] + p[1]}

MCMaxPackets == [f \in {f1, f2, f3, f4} |-> 1]
MCMinCost == <<0, 1>>

Chain(pipeline, boost, relativeCost) ==
    [depth |-> 3, layerSplit |-> 1, width |-> 2, pipeline |-> pipeline, boost |-> boost,
     reroute |-> TRUE, relativeCost |-> relativeCost, uniformThreshold |-> 0]
Split(pipeline, reroute_, relativeCost, uniformThreshold) ==
    [depth |-> 2, layerSplit |-> 2, width |-> 3, pipeline |-> pipeline, boost |-> FALSE,
     reroute |-> reroute_, relativeCost |-> relativeCost,
     uniformThreshold |-> uniformThreshold]

(* Pow is the power of the standard module. *)
ASSUME PowIsPower == \A b \in 1 .. 4, n \in 0 .. 5 : Pow(b, n) = b^n

MCAttributes ==
    {Chain(TRUE, FALSE, FALSE), Chain(TRUE, TRUE, TRUE), Chain(FALSE, FALSE, FALSE),
     Split(TRUE, TRUE, FALSE, 0), Split(FALSE, TRUE, TRUE, 0),
     Split(TRUE, FALSE, FALSE, 3)}
=============================================================================
