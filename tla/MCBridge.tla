------------------------------ MODULE MCBridge -------------------------------
(* Timeouts of two ticks and a grace of three: long enough for an input to   *)
(* be fresh, aging and stale within a pause, short enough to expire one.     *)
EXTENDS Bridge

MCTimeout == 2
MCGrace   == 3

=============================================================================
