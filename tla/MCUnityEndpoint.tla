--------------------------- MODULE MCUnityEndpoint ---------------------------
(* UnityEndpoint with two executor threads that may call Unity at once and *)
(* one reconnection.  A behaviour is followed up to the step in which the  *)
(* two connections share a header: from there on AnswersMatch has nothing  *)
(* to say, and QueueIsServed does not depend on what is read.  Nor is it   *)
(* followed while a ROS service is called during calls of Unity: all that  *)
(* such a call does is to put a message into the queue, as an error of a   *)
(* reader does at any time.                                                *)
EXTENDS UnityEndpoint

NotMixed == ~mixed

OneKindOfCall == asked => \A k \in Calls : call[k].pc \in {"none", "done"}
=============================================================================
