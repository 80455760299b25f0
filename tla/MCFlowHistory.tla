--------------------------- MODULE MCFlowHistory ----------------------------
(***************************************************************************)
(* FlowHistory for TLC.  One request meets all the traffic and time the    *)
(* bounds allow; two requests meet each other, and what they leave behind, *)
(* before there is any.                                                    *)
(***************************************************************************)
EXTENDS FlowHistory, TLC

CONSTANT p2

Overlapping == patch[p2] # NoPatch \/ crossed # {} \/ clash # {}

OverlapBound == Overlapping => now = 0 /\ seen = Empty

Symmetry == Permutations(Keys)
=============================================================================
