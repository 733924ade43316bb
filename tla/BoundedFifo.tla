----------------------------- MODULE BoundedFifo -----------------------------
(***************************************************************************)
(* What a queue between two threads promises: each value that was accepted *)
(* comes out once and in order, a value is refused only if the queue is    *)
(* full, and "empty" is only answered if it is.  Answers are given at the  *)
(* moment the queue changes.                                               *)
(***************************************************************************)
EXTENDS Naturals, Sequences

CONSTANTS Value, None, Capacity

VARIABLES
  queue,       \* accepted and not yet delivered, oldest first
  accepted,    \* what the last push answered
  delivered    \* what the last pop answered, None for "empty"

vars == <<queue, accepted, delivered>>

Init == queue = <<>> /\ accepted = TRUE /\ delivered = None

Push ==
  /\ Len(queue) < Capacity
  /\ \E v \in Value : queue' = Append(queue, v)
  /\ accepted' = TRUE
  /\ UNCHANGED delivered

Refuse ==
  /\ Len(queue) = Capacity
  /\ accepted' = FALSE
  /\ UNCHANGED <<queue, delivered>>

Pop ==
  /\ queue # <<>>
  /\ delivered' = Head(queue) /\ queue' = Tail(queue)
  /\ UNCHANGED accepted

Empty ==
  /\ queue = <<>>
  /\ delivered' = None
  /\ UNCHANGED <<queue, accepted>>

Next == Push \/ Refuse \/ Pop \/ Empty

Spec == Init /\ [][Next]_vars

=============================================================================
