---------------------------- MODULE MCHandControl ----------------------------
(* HandControl on a mailbox small enough to be found empty, partly full and  *)
(* full: the code's 16 slots add no other case.                              *)
EXTENDS HandControl

MCCapacity == 2

=============================================================================
