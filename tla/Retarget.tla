------------------------------- MODULE Retarget -------------------------------
(***************************************************************************)
(* From the operator's hand to the digital twin: the Unity adapter drops   *)
(* incomplete messages, the retargeting node turns 21 landmarks into a     *)
(* joint target (Vector's pose, plus a bounded and smoothed part of what   *)
(* DexPilot would change near a contact), limits its velocity, fixes the   *)
(* broken joints, and says whether the hand is tracked; the MuJoCo bridge  *)
(* follows the last command that reached it.                               *)
(*                                                                         *)
(* Every topic keeps one message: a newer one replaces it.  Unity, the two *)
(* optimizers and the physics are external and may do anything.  Angles    *)
(* are integers, time is counted in ticks.                                 *)
(***************************************************************************)
EXTENDS Integers

CONSTANTS
  Joints, Broken,        \* JOINT_NAMES and those of fixed_joints
  FixedPosition,         \* their fixed_joint_positions
  Spread,                \* the *_1 joints of the fingers but the thumb
  Distal, DistalMin,     \* joints that must not be overextended, and their bound
  Angles,                \* what the optimizers return for a joint
  MaxCorrection,         \* hybrid_max_joint_correction
  LateralMax,            \* hybrid_lateral_max_correction
  Velocity,              \* max_joint_velocity, or 0 for none
  LeastDt, MostDt,       \* what the time between two frames is clipped to
  WatchdogPeriod, WatchdogTimeout,
  CommandTimeout,        \* of the twin, which only logs it
  CtrlLow, CtrlHigh,     \* the twin's actuator range
  MaxAge                 \* ages are followed up to here (bound of the model)

NodeConfig ==
  /\ Broken \subseteq Joints /\ Spread \subseteq Joints /\ Distal \subseteq Joints
  /\ Angles \subseteq Int /\ {FixedPosition, DistalMin} \subseteq Int
  /\ {MaxCorrection, LateralMax, Velocity, LeastDt, MostDt} \subseteq Nat
  /\ LeastDt <= MostDt /\ MostDt <= MaxAge
  /\ {WatchdogPeriod, WatchdogTimeout, MaxAge} \subseteq Nat
  /\ WatchdogTimeout + WatchdogPeriod < MaxAge

TwinConfig ==
  /\ {CtrlLow, CtrlHigh} \subseteq Int /\ CtrlLow <= CtrlHigh
  /\ CommandTimeout \in Nat

ASSUME RetargetAssumption == NodeConfig /\ TwinConfig

VARIABLES
  hand,         \* the message in /quest/hand_pose, or None
  landmarks,    \* the message in /hands/right/landmarks, or None
  known,        \* whether there is a last output
  lastOutput,   \* _last_output
  frameAge,     \* time since _last_frame_time and _last_command_time
  correction,   \* _hybrid_correction_state
  poisoned,     \* whether a NaN is in it
  tracking,     \* _tracking_ok, as published
  wait,         \* time to the watchdog's next call
  contact,      \* the contact signals that were published last
  command,      \* whether /dg5f/joint_command holds a command: lastOutput
  took,         \* whether the twin has taken a command
  target, q,    \* the twin's targets and joint positions
  allowance     \* what the velocity cap has allowed since the twin's command (ghost)

nodeVars == <<known, lastOutput, frameAge, correction, poisoned, tracking, contact>>
twinVars == <<took, target, q>>
vars == <<hand, landmarks, nodeVars, wait, command, twinVars, allowance>>

None == "none"
Frames == {"short", "degenerate", "apart", "near"}
Pose == [Joints -> Int]

Clip(x, low, high) == IF x < low THEN low ELSE IF x > high THEN high ELSE x
Abs(x) == IF x < 0 THEN -x ELSE x
Least(x, y) == IF x < y THEN x ELSE y
Most(x, y) == IF x < y THEN y ELSE x

NodeInit ==
  /\ known = FALSE /\ lastOutput = [j \in Joints |-> 0] /\ frameAge = 0
  /\ correction = [j \in Joints |-> 0] /\ poisoned = FALSE
  /\ tracking = FALSE /\ contact = None
  /\ wait = WatchdogPeriod

TwinInit ==
  /\ took = FALSE
  /\ target = [j \in Joints |-> IF j \in Broken THEN FixedPosition ELSE 0]
  /\ q = target

Init ==
  /\ hand = None /\ landmarks = None /\ command = FALSE
  /\ NodeInit /\ TwinInit /\ allowance = 0

(***************************************************************************)
(* Unity and the adapter.                                                  *)
(***************************************************************************)
HandSeen(frame) ==
  /\ hand' = frame
  /\ UNCHANGED <<landmarks, nodeVars, wait, command, twinVars, allowance>>

(* mano_to_pose_array takes 21 landmarks. *)
Complete(frame) == frame # "short"

Adapt ==
  /\ hand # None /\ hand' = None
  /\ landmarks' = IF Complete(hand) THEN hand ELSE landmarks
  /\ UNCHANGED <<nodeVars, wait, command, twinVars, allowance>>

(***************************************************************************)
(* The retargeting node.                                                   *)
(***************************************************************************)
(* The frames that landmarks_to_mano can turn into the wrist's frame. *)
Usable == {"apart", "near"}

(* What Vector may return: prevent_distal_hyperextension raises the lower  *)
(* limit of the distal joints.  It is not applied to DexPilot.             *)
VectorPoses == { v \in [Joints -> Angles] : \A j \in Distal : v[j] >= DistalMin }

(* With no finger near the thumb DexPilot is not asked. *)
DexPoses(frame, v) == IF frame = "near" THEN [Joints -> Angles] ELSE {v}

MaxOf(j) == IF j \in Spread THEN LateralMax ELSE MaxCorrection

(* The correction of a joint moves, by any share, from where it is towards *)
(* a clipped share of what DexPilot would change, or towards none.         *)
Blends(j, delta) ==
  LET clipped == Clip(delta, -MaxOf(j), MaxOf(j))
  IN  Least(correction[j], Least(0, clipped))..Most(correction[j], Most(0, clipped))

Corrections(v, dex) ==
  { e \in [Joints -> -Most(MaxCorrection, LateralMax)..Most(MaxCorrection, LateralMax)] :
      \A j \in Joints : e[j] \in Blends(j, dex[j] - v[j]) }

MaxDelta(age) == Velocity * Clip(age, LeastDt, MostDt)

(* Mutant of Limited: the cap holds only while the hand is tracked. *)
LimitedWhileTracking(p) ==
  IF known /\ tracking /\ Velocity > 0
  THEN [j \in Joints |-> Clip(p[j], lastOutput[j] - MaxDelta(frameAge),
                                    lastOutput[j] + MaxDelta(frameAge))]
  ELSE p

Limited(p) ==
  IF known /\ Velocity > 0
  THEN [j \in Joints |-> Clip(p[j], lastOutput[j] - MaxDelta(frameAge),
                                    lastOutput[j] + MaxDelta(frameAge))]
  ELSE p

Fixes(p) == [j \in Joints |-> IF j \in Broken THEN FixedPosition ELSE p[j]]

(* The reach of the twin: more than this need not be followed. *)
Reach == CtrlHigh - CtrlLow

Allowed == IF known /\ Velocity > 0 THEN Least(Reach, allowance + MaxDelta(frameAge)) ELSE Reach

(* Published last; a failure there is only logged. *)
ContactSignals == {contact, landmarks}

AcceptFrame ==
  /\ landmarks \in Usable /\ ~poisoned
  /\ \E v \in VectorPoses : \E dex \in DexPoses(landmarks, v) :
     \E e \in Corrections(v, dex) :
       /\ correction' = e
       /\ lastOutput' = Fixes(Limited([j \in Joints |-> v[j] + e[j]]))
  /\ known' = TRUE /\ frameAge' = 0 /\ tracking' = TRUE
  /\ command' = TRUE /\ allowance' = Allowed
  /\ contact' \in ContactSignals
  /\ landmarks' = None
  /\ UNCHANGED <<hand, poisoned, wait, twinVars>>

(* The landmarks give no wrist frame, or an optimizer raises. *)
RejectFrame ==
  /\ landmarks # None /\ landmarks' = None
  /\ tracking' = FALSE
  /\ UNCHANGED <<hand, known, lastOutput, frameAge, correction, poisoned,
                 contact, wait, command, twinVars, allowance>>

(* The target is not finite: an optimizer's fault, or what is left of one. *)
NotFinite ==
  /\ landmarks \in Usable /\ landmarks' = None
  /\ tracking' = FALSE
  /\ IF landmarks = "near" THEN poisoned' = TRUE /\ UNCHANGED correction
     ELSE /\ UNCHANGED poisoned
          /\ \E v \in VectorPoses : correction' \in Corrections(v, v)
  /\ UNCHANGED <<hand, known, lastOutput, frameAge, contact, wait, command,
                 twinVars, allowance>>

(* Mutant of Silent: the twin's timeout in place of the watchdog's. *)
SilentForTwin == frameAge > CommandTimeout

Silent == frameAge > WatchdogTimeout

Watchdog ==
  /\ wait = 0 /\ wait' = WatchdogPeriod
  /\ tracking' = (tracking /\ ~(known /\ Silent))
  /\ UNCHANGED <<hand, landmarks, known, lastOutput, frameAge, correction,
                 poisoned, contact, command, twinVars, allowance>>

(* The timer is served in the tick in which it is due. *)
Tick ==
  /\ wait > 0 /\ wait' = wait - 1
  /\ frameAge' = Least(MaxAge, frameAge + 1)
  /\ UNCHANGED <<hand, landmarks, known, lastOutput, correction, poisoned,
                 tracking, contact, command, twinVars, allowance>>

(***************************************************************************)
(* The MuJoCo bridge.                                                      *)
(***************************************************************************)
TwinTarget(p) == Fixes([j \in Joints |-> Clip(p[j], CtrlLow, CtrlHigh)])

TakeCommand ==
  /\ command /\ command' = FALSE
  /\ took' = TRUE /\ target' = TwinTarget(lastOutput)
  /\ allowance' = 0
  /\ UNCHANGED <<hand, landmarks, nodeVars, wait, q>>

(* A joint reaches its target or is held; a broken one may be pushed. *)
Simulated ==
  { p \in [Joints -> Angles \cup { q[j] : j \in Joints } \cup { target[j] : j \in Joints }] :
      \A j \in Joints : p[j] \in {q[j], target[j]} \/ (j \in Broken /\ p[j] \in Angles) }

(* Mutant of Enforced: the state is fixed before the physics, not after it. *)
EnforcedBefore(p) == p

(* enforce_fixed_joint_state *)
Enforced(p) == Fixes(p)

(* Also after CommandTimeout, which is only logged. *)
TwinStep ==
  /\ \E p \in Simulated : q' = Enforced(p)
  /\ UNCHANGED <<hand, landmarks, nodeVars, wait, command, took, target, allowance>>

Next ==
  \/ \E f \in Frames : HandSeen(f)
  \/ Adapt
  \/ AcceptFrame \/ RejectFrame \/ NotFinite \/ Watchdog \/ Tick
  \/ TakeCommand \/ TwinStep

Spec == Init /\ [][Next]_vars

-----------------------------------------------------------------------------

TypeOK ==
  /\ hand \in Frames \cup {None} /\ landmarks \in (Frames \ {"short"}) \cup {None}
  /\ known \in BOOLEAN /\ lastOutput \in Pose /\ frameAge \in 0..MaxAge
  /\ correction \in Pose /\ poisoned \in BOOLEAN /\ tracking \in BOOLEAN
  /\ wait \in 0..WatchdogPeriod /\ contact \in Frames \cup {None}
  /\ command \in BOOLEAN /\ took \in BOOLEAN
  /\ target \in Pose /\ q \in Pose /\ allowance \in 0..Reach

(* A joint that is broken on the real hand is at its fixed position in     *)
(* every command, every target and every state of the twin, whatever the   *)
(* optimizers, the filters and the physics do (enforce_fixed_joint_state). *)
FixedStaysFixed ==
  \A j \in Broken : /\ known => lastOutput[j] = FixedPosition
                    /\ target[j] = FixedPosition /\ q[j] = FixedPosition

(* With a velocity cap the twin's target moves, from one command that      *)
(* reaches it to the next, by no more than the cap allows for the frames   *)
(* between: also over commands that were replaced in the topic, rejected   *)
(* frames and losses of tracking.                                          *)
TravelIsBounded ==
  [][took => \A j \in Joints : Abs(target'[j] - target[j]) <= allowance]_vars

(* Tracking is reported only while the last accepted frame is younger than *)
(* the watchdog's timeout and one of its periods.                          *)
TrackingIsRecent ==
  tracking => known /\ frameAge <= WatchdogTimeout + WatchdogPeriod

(* Only a bounded part of DexPilot's correction is mixed in. *)
CorrectionIsBounded == \A j \in Joints : Abs(correction[j]) <= MaxOf(j)
=============================================================================
