----------------------------- MODULE MCRetarget -----------------------------
(* Retarget with one joint that moves and the broken spread joint of the   *)
(* little finger.                                                          *)
EXTENDS Retarget
=============================================================================
