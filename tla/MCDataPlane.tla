----------------------------- MODULE MCDataPlane -----------------------------
(* DataPlane for TLC.  Streams are interchangeable; the run that checks     *)
(* liveness uses no symmetry.                                               *)
EXTENDS DataPlane, TLC

StreamSymmetry == Permutations(Streams)
==============================================================================
