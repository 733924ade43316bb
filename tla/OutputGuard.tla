----------------------------- MODULE OutputGuard -----------------------------
(***************************************************************************)
(* The way of a target to the hand: _send_latest passes the newest target  *)
(* through the current guard (AdaptiveCurrentGuard, with ObjectContact     *)
(* inside it), hands its bounds to the command shaper                      *)
(* (PositionCommandShaper, direct profile) and its setpoint to the         *)
(* backend, which may refuse it.  One joint; Bridge models when            *)
(* _send_latest gets that far.                                             *)
(*                                                                         *)
(* Each tick of the output timer reads a new target, a new pose and a new  *)
(* load, whatever they are.  The gains that slow a motion down are a       *)
(* choice; only at a hard load is the gain known to be 0.                  *)
(***************************************************************************)
EXTENDS ObjectContact

CONSTANTS
  Top,           \* the joint's range is 0..Top
  MaxStep,       \* max_direct_step_deg
  MinSend,       \* min_send_step_deg
  BlendTicks,    \* startup_blend_s, or 0 for no blend
  TripHold,      \* current_guard_trip_hold_s
  StallHold,     \* compliance_stall_hold_s
  StallError,    \* compliance_stall_error_deg
  Gap            \* periods without an update that start the timers anew

(* The constructor of the shaper takes any step, blend and minimum; that   *)
(* of the guard wants its hold times and steps positive.                   *)
ShaperConfig == MaxStep \in Nat \ {0} /\ {Top, MinSend, BlendTicks} \subseteq Nat
GuardConfig  == {TripHold, StallHold, StallError} \subseteq Nat \ {0} /\ Gap \in Nat

ASSUME GuardAssumption == ShaperConfig /\ GuardConfig

VARIABLES
  mode,          \* "off", "armed", or "paused" by the tracking grace
  seen,          \* what the last tick read: the target, the pose and whether
                 \* the load was hard with no fingertips separating (ghost)
  command,       \* command_pose_deg
  out,           \* last_sent_pose_deg, the effective setpoint
  blend,         \* the arm blend: its origin and its age
  contact,       \* the finger's contact
  tripping, stalling,   \* ages of _trip_started and _stall_started
  blind,         \* periods without an update of the guard, capped
  overloaded     \* periods at a trip load since the last pause (ghost)

vars == <<mode, seen, command, out, blend, contact, tripping, stalling,
          blind, overloaded>>

Poses   == 0..Top
NoBlend == [origin |-> None, age |-> 0]
Clip(x, low, high) == Most(low, Least(x, high))

Init ==
  /\ mode = "off"
  /\ seen = [desired |-> 0, measured |-> 0, hard |-> FALSE]
  /\ command = 0 /\ out = 0
  /\ blend = NoBlend
  /\ contact = NoContact
  /\ tripping = None /\ stalling = None
  /\ blind = 0 /\ overloaded = 0

(***************************************************************************)
(* The current guard.                                                      *)
(***************************************************************************)
Relieves(in) == (in.desired - in.out) * (in.out - in.measured) < 0
Worsens(in)  == Dist(in.desired, in.measured) > Dist(in.out, in.measured)

(* What the bridge hands on of the contact topics.  Unless a fresh packet  *)
(* says that the fingertips separate, the motion may bring two together.   *)
ContactSignals == {"none", "apart"}

(* Fingertips seen to separate excuse the joint that separates them.       *)
Excused(in) == Relieves(in) \/ in.signal = "apart"

(* The gains fall at once with the load and recover slowly: 0 at a hard    *)
(* load, any at a lower one.  What they leave of a motion that adds load   *)
(* lies between the setpoint and the target.                               *)
Gains(load) == IF load >= Hard THEN {"none"} ELSE {"some", "full"}

Slowed(in, gain) ==
  { x \in Poses : /\ Dist(x, in.out) <= IF gain = "none" THEN 0 ELSE
                                          Least(MaxStep, Dist(in.desired, in.out))
                  /\ (x - in.out) * (in.desired - in.out) >= 0 }

Softened(in) ==
  LET free == { [target |-> in.desired, limited |-> FALSE] }
      held(gain) == { [target |-> x, limited |-> TRUE] : x \in Slowed(in, gain) }
  IN IF Excused(in) THEN free
     ELSE UNION { IF gain = "full" THEN free ELSE held(gain) :
                  gain \in Gains(in.load) \cup IF Worsens(in) THEN {} ELSE {"full"} }

(* Mutant of Eases: the operator's relief also excuses what contact does. *)
EasesByIntent(in, o) == Excused(in)

(* Whether the hard freeze lets this target through. *)
Eases(in, o) ==
  IF o.limited THEN (o.target - in.out) * (in.out - in.measured) < 0
  ELSE Excused(in)

(* update(): the target, and the contact that goes with it.  With a hard   *)
(* total load a joint that follows its setpoint is not frozen.             *)
Guarded(in, s, o, freeze) ==
  [target  |-> IF freeze THEN in.out ELSE o.target,
   limited |-> s.limited \/ o.limited \/ freeze,
   eased   |-> Eases(in, o),
   contact |-> o.contact]

Freezes(in, o) ==
  IF in.load < Hard \/ Eases(in, o) THEN {FALSE}
  ELSE IF in.out = in.measured THEN BOOLEAN ELSE {TRUE}

GuardOutcomes(c, in) ==
  UNION { UNION { { Guarded(in, s, o, freeze) : freeze \in Freezes(in, o) } :
                  o \in ContactOutcomes(c, [in EXCEPT !.soft = s.target]) } :
          s \in Softened(in) }

(* Mutant of OverTrip: a motion that relieves the load starts it anew. *)
OverTripUnlessEased(in, g) == in.load = Trip /\ ~g.eased

OverTrip(in, g) == in.load = Trip

Stalls(in, g) == /\ in.load >= Soft
                 /\ Dist(in.out, in.measured) >= StallError
                 /\ ~g.eased

Timer(age, on, cap) == IF ~on THEN None ELSE IF age = None THEN 0 ELSE Later(age, cap)

(***************************************************************************)
(* The command shaper.                                                     *)
(***************************************************************************)
(* Mutant of Seeded: reset() leaves last_sent_pose_deg as it was. *)
SeedsTrajectory(pose) == command' = pose /\ UNCHANGED out

Seeded(pose) == command' = pose /\ out' = pose

BeginsBlend(pose) ==
  blend' = IF BlendTicks = 0 THEN NoBlend ELSE [origin |-> pose, age |-> 0]

Holds == command' = out /\ blend' = NoBlend /\ UNCHANGED out

Blended(target) ==
  IF blend = NoBlend THEN target
  ELSE blend.origin + ((target - blend.origin) * (blend.age + 1)) \div BlendTicks

BlendLater ==
  IF blend = NoBlend \/ blend.age + 1 >= BlendTicks THEN NoBlend
  ELSE [blend EXCEPT !.age = @ + 1]

(* step(): the command's next value, within the guard's bounds. *)
Shaped(g) ==
  LET free == command + Clip(Blended(Clip(g.target, 0, Top)) - command, -MaxStep, MaxStep)
      to   == Clip(free, 0, Top)
  IN IF g.limited THEN Clip(to, Most(0, Least(out, g.target)), Least(Top, Most(out, g.target)))
     ELSE to

(***************************************************************************)
(* The bridge.                                                             *)
(***************************************************************************)
Disarm == mode' = "off" /\ overloaded' = 0 /\ Holds

(* _on_enable: everything starts anew from the measured pose. *)
Arm ==
  /\ mode = "off"
  /\ mode' = "armed"
  /\ \E pose \in Poses :
        /\ seen' = [desired |-> pose, measured |-> pose, hard |-> FALSE]
        /\ Seeded(pose)
        /\ BeginsBlend(pose)
  /\ contact' = NoContact
  /\ tripping' = None /\ stalling' = None /\ blind' = 0
  /\ UNCHANGED overloaded

(* _try_auto_resume: the shaper starts anew, the guard does not. *)
Resume ==
  /\ mode = "paused"
  /\ mode' = "armed"
  /\ \E pose \in Poses :
        /\ seen' = [desired |-> pose, measured |-> pose, hard |-> FALSE]
        /\ Seeded(pose)
        /\ BeginsBlend(pose)
  /\ UNCHANGED <<contact, tripping, stalling, blind, overloaded>>

Pause ==
  /\ mode = "armed"
  /\ mode' = "paused"
  /\ overloaded' = 0
  /\ Holds
  /\ UNCHANGED <<seen, contact, tripping, stalling, blind>>

(* A tick of the output timer during a pause: nothing is read or sent. *)
PausedTick ==
  /\ mode = "paused"
  /\ blind' = Later(blind, Gap + 2)
  /\ contact' = AgedContact(contact)
  /\ tripping' = Later(tripping, TripHold)
  /\ stalling' = Later(stalling, StallHold)
  /\ UNCHANGED <<mode, seen, command, out, blend, overloaded>>

(* Any other reason to disarm: a lost input, the hand, the operator. *)
Stop ==
  /\ mode # "off"
  /\ Disarm
  /\ UNCHANGED <<seen, contact, tripping, stalling, blind>>

(* send_action: a setpoint far enough from the last one goes to the hand,  *)
(* which may refuse it.                                                    *)
Accepted(g, load) ==
  /\ command' = Shaped(g)
  /\ out' = IF Dist(command', out) >= MinSend THEN command' ELSE out
  /\ blend' = BlendLater
  /\ overloaded' = IF load = Trip THEN Later(overloaded, TripHold + 1) ELSE 0
  /\ UNCHANGED mode

Rejected(g) == Dist(Shaped(g), out) >= MinSend /\ Disarm

SinceGap(age) == IF blind > Gap THEN None ELSE age

SendLatest ==
  /\ mode = "armed"
  /\ \E desired, measured \in Poses, load \in Loads, signal \in ContactSignals :
        LET in == [desired |-> desired, measured |-> measured, load |-> load,
                   out |-> out, soft |-> desired, signal |-> signal]
            c  == IF blind > Gap + 1 THEN AfterGap(contact) ELSE Sampled(contact)
        IN \E g \in GuardOutcomes(c, in) :
             /\ seen' = [desired |-> desired, measured |-> measured,
                         hard |-> load >= Hard /\ signal # "apart"]
             /\ contact' = g.contact
             /\ tripping' = Timer(SinceGap(tripping), OverTrip(in, g), TripHold)
             /\ stalling' \in {None, Timer(SinceGap(stalling), Stalls(in, g), StallHold)}
             /\ blind' = 0
             /\ IF tripping' >= TripHold \/ stalling' >= StallHold
                THEN Disarm ELSE Accepted(g, load) \/ Rejected(g)

Next == Arm \/ Resume \/ Pause \/ PausedTick \/ Stop \/ SendLatest

Spec == Init /\ [][Next]_vars

-----------------------------------------------------------------------------

TypeOK ==
  /\ mode \in {"off", "armed", "paused"}
  /\ seen \in [desired : Poses, measured : Poses, hard : BOOLEAN]
  /\ command \in Poses /\ out \in Poses
  /\ blend \in [origin : Poses \cup {None}, age : 0..BlendTicks]
  /\ contact \in ContactType
  /\ tripping \in None..TripHold /\ stalling \in None..StallHold
  /\ blind \in 0..(Gap + 2) /\ overloaded \in 0..(TripHold + 1)

Ticks == mode = "armed" /\ mode' = "armed"

PushesOn == (out' - out) * (out - seen'.measured) > 0

(* At a hard load no setpoint goes on in the direction in which the joint  *)
(* is already pushing, unless the fingertips are seen to separate: across  *)
(* the guard's freeze, the contact's targets and the shaper's steps.       *)
HardLoadFreezes ==
  [][Ticks /\ blend = NoBlend /\ seen'.hard => ~PushesOn]_vars

(* The same of an arm blend: current_guard.py:107 makes no exception. *)
HardLoadFreezesBlends ==
  [][Ticks /\ seen'.hard => ~PushesOn]_vars

(* Each setpoint is within one step of the last one the hand accepted, or  *)
(* of the measured pose from which an armed motion starts, whatever was    *)
(* paused or rejected in between.                                          *)
StepIsBounded == [][Ticks => Dist(out', out) <= MaxStep + Most(MinSend - 1, 0)]_vars

(* A held finger is squeezed no harder than by the preload, and while the  *)
(* operator closes it is not pulled back past its measured pose either:    *)
(* neither by a yielding preload nor by an arm blend.                      *)
HoldIsGentle ==
  [][Ticks /\ contact'.state = "CONTACT_HOLD" =>
       /\ out' <= Most(out, seen'.measured + Preload)
       /\ contact'.openDesired = None /\ seen'.desired >= out
            => out' >= Least(out, seen'.measured)]_vars

(* After a release the finger closes no faster than the resume rate until  *)
(* it has caught up with the operator.                                     *)
ReleaseIsGradual ==
  [][Ticks /\ contact.resume # None /\ contact'.state # "CONTACT_HOLD"
       => out' <= out + ResumeStep]_vars

(* An armed output does not stay at a trip load for longer than the hold   *)
(* time, whatever the target does.                                         *)
OverloadIsBounded == mode = "armed" => overloaded <= TripHold
=============================================================================
