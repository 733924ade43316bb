----------------------------- MODULE HandSession -----------------------------
(***************************************************************************)
(* What the bridge may assume of the native hand and the adapter has to    *)
(* guarantee, without threads, callbacks and mailboxes.  A session that is *)
(* not ready may become ready by itself, a faulted one only by a recovery  *)
(* or another connect; the hand takes its first setpoint only from a ready *)
(* session; and it has none when a recovery begins or the session ends, so *)
(* that it rests until it is given one again.                              *)
(***************************************************************************)
VARIABLES
  health,    \* what the session's status says of it
  servo      \* does the hand have a setpoint to go to and repeat, or none

vars == <<health, servo>>

Health == {"off", "ready", "unready", "faulted", "recovering"}
Servo  == {"silent", "holding"}

Init == health \in Health \ {"recovering"} /\ servo = "silent"

Connect ==
  /\ health = "off"
  /\ health' \in {"ready", "unready", "faulted"}
  /\ UNCHANGED servo

\* A setpoint may be dropped with whatever made the session change.
Change ==
  /\ \/ health = "ready" /\ health' \in {"unready", "faulted"}
     \/ health = "unready" /\ health' \in {"ready", "faulted"}
  /\ servo' \in {servo, "silent"}

Accept ==
  /\ health = "ready"
  /\ servo' = "holding"
  /\ UNCHANGED health

Silence ==
  /\ servo' = "silent"
  /\ UNCHANGED health

BeginRecovery ==
  /\ health \in {"ready", "unready", "faulted"}
  /\ health' = "recovering" /\ servo' = "silent"

EndRecovery ==
  /\ health = "recovering"
  /\ health' \in {"ready", "faulted"}
  /\ UNCHANGED servo

Close ==
  /\ health # "off"
  /\ health' = "off" /\ servo' = "silent"

Next ==
  \/ Connect \/ Change \/ Accept \/ Silence
  \/ BeginRecovery \/ EndRecovery \/ Close

Spec == Init /\ [][Next]_vars

=============================================================================
