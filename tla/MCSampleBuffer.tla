--------------------------- MODULE MCSampleBuffer ---------------------------
(* The two command streams are interchangeable. *)
EXTENDS SampleBuffer, TLC

CONSTANTS raw, effective

MCTargets  == {raw, effective}
MCSymmetry == Permutations(MCTargets)
=============================================================================
