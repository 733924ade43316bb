------------------------------ MODULE ArmSafety ------------------------------
(***************************************************************************)
(* What the bridge promises the operator of the hand, without its clocks,  *)
(* callbacks and threads.  The hand gets a new setpoint only while the     *)
(* output is live; it becomes live by an explicit ARM, or resumes from a   *)
(* pause; it repeats its last setpoint while paused; it is silent whenever *)
(* the output is disarmed; and a recovery always ends disarmed.            *)
(***************************************************************************)
VARIABLES
  mode,      \* what the operator may rely on
  servo,     \* does the hand repeat a setpoint at 200 Hz, or is it silent
  output     \* changes whenever the hand is given a new setpoint

vars == <<mode, servo, output>>

Mode  == {"disarmed", "live", "paused", "recovering", "off"}
Servo == {"silent", "holding"}

Init == mode = "disarmed" /\ servo = "silent" /\ output = FALSE

Arm ==
  /\ mode = "disarmed"
  /\ mode' = "live"
  /\ UNCHANGED <<servo, output>>

Move ==
  /\ mode = "live"
  /\ output' = ~output
  /\ servo' = "holding"
  /\ UNCHANGED mode

Pause ==
  /\ mode = "live"
  /\ mode' = "paused"
  /\ UNCHANGED <<servo, output>>

Resume ==
  /\ mode = "paused"
  /\ mode' = "live"
  /\ UNCHANGED <<servo, output>>

Disarm ==
  /\ mode \in {"live", "paused"}
  /\ mode' = "disarmed" /\ servo' = "silent"
  /\ UNCHANGED output

BeginRecovery ==
  /\ mode \in {"disarmed", "live", "paused"}
  /\ mode' = "recovering" /\ servo' = "silent"
  /\ UNCHANGED output

EndRecovery ==
  /\ mode = "recovering"
  /\ mode' = "disarmed"
  /\ UNCHANGED <<servo, output>>

TurnOff ==
  /\ mode # "off"
  /\ mode' = "off" /\ servo' = "silent"
  /\ UNCHANGED output

Next ==
  \/ Arm \/ Move \/ Pause \/ Resume \/ Disarm
  \/ BeginRecovery \/ EndRecovery \/ TurnOff

Spec == Init /\ [][Next]_vars

=============================================================================
