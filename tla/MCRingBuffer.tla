---------------------------- MODULE MCRingBuffer -----------------------------
(* Three slots in use and one spare, so that each index wraps while the      *)
(* other's copy of it lags by any distance; two values tell a slot that was  *)
(* overwritten or delivered twice from one that was not.                     *)
EXTENDS RingBuffer

MCCapacity == 3

=============================================================================
