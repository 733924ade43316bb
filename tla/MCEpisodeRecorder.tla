------------------------- MODULE MCEpisodeRecorder --------------------------
(* The two command streams are interchangeable. *)
EXTENDS EpisodeRecorder, TLC

CONSTANTS raw, effective

MCTargets  == {raw, effective}
MCSymmetry == Permutations(MCTargets)
=============================================================================
