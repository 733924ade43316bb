---------------------------- MODULE RetargetProofs ----------------------------
(***************************************************************************)
(* What Retarget promises for any hand, any optimizers and any physics:    *)
(* the inductive invariant Inv joins the types, the bounds of the          *)
(* correction and of the watchdog, the fixed joints and how far the twin   *)
(* may be behind the last command.                                         *)
(***************************************************************************)
EXTENDS Retarget, TLAPS

(* After a command the twin's targets are in its range, and the last       *)
(* output is no further from them than the cap has allowed since.          *)
TwinFollows ==
  /\ took \/ command => known
  /\ took => \A j \in Joints :
       /\ j \notin Broken => target[j] \in CtrlLow..CtrlHigh
       /\ Abs(TwinTarget(lastOutput)[j] - target[j]) <= allowance

(* While the hand is tracked the watchdog's next call comes in time. *)
WatchdogIsDue == tracking => known /\ frameAge + wait <= WatchdogTimeout + WatchdogPeriod

Inv == TypeOK /\ FixedStaysFixed /\ CorrectionIsBounded /\ WatchdogIsDue /\ TwinFollows

(* The cap allows a natural number for each frame. *)
LEMMA MaxDeltaNat == ASSUME NEW age \in Nat PROVE MaxDelta(age) \in Nat
<1>1. Clip(age, LeastDt, MostDt) \in Nat
  BY RetargetAssumption DEF Clip, NodeConfig
<1>2. Velocity \in Nat
  BY RetargetAssumption DEF NodeConfig
<1> DEFINE c == Clip(age, LeastDt, MostDt)
<1>3. c \in Nat
  BY <1>1
<1> HIDE DEF c
<1>4. Velocity * c \in Nat
  BY <1>2, <1>3
<1> QED
  BY <1>4 DEF MaxDelta, c

(* Clipping to the same range brings no two numbers further apart. *)
LEMMA ClipIsShort ==
  ASSUME NEW x \in Int, NEW y \in Int, NEW low \in Int, NEW high \in Int, low <= high
  PROVE  /\ Clip(x, low, high) \in low..high
         /\ Abs(Clip(x, low, high) - Clip(y, low, high)) <= Abs(x - y)
BY DEF Clip, Abs

(* What the velocity cap lets through is near the last output. *)
LEMMA LimitedIsNear ==
  ASSUME TypeOK, known, Velocity > 0, NEW p \in Pose, NEW j \in Joints
  PROVE  /\ Limited(p)[j] \in Int
         /\ Abs(Limited(p)[j] - lastOutput[j]) <= MaxDelta(frameAge)
<1>1. MaxDelta(frameAge) \in Nat
  BY MaxDeltaNat, RetargetAssumption DEF TypeOK, NodeConfig
<1>2. lastOutput[j] \in Int /\ p[j] \in Int
  BY DEF TypeOK, Pose
<1>3. Limited(p)[j] = Clip(p[j], lastOutput[j] - MaxDelta(frameAge), lastOutput[j] + MaxDelta(frameAge))
  BY DEF Limited
<1> QED
  BY <1>1, <1>2, <1>3 DEF Clip, Abs

(* The cap keeps poses poses. *)
LEMMA LimitedPose == ASSUME TypeOK, NEW p \in Pose PROVE Limited(p) \in Pose
<1>1. CASE known /\ Velocity > 0
  <2>1. \A j \in Joints : Limited(p)[j] \in Int
    BY <1>1, LimitedIsNear
  <2>2. Limited(p) = [j \in Joints |-> Clip(p[j], lastOutput[j] - MaxDelta(frameAge), lastOutput[j] + MaxDelta(frameAge))]
    BY <1>1 DEF Limited
  <2> QED
    BY <2>1, <2>2 DEF Pose
<1>2. CASE ~(known /\ Velocity > 0)
  BY <1>2 DEF Limited
<1> QED
  BY <1>1, <1>2

(* Fixing joints keeps poses poses. *)
LEMMA FixesPose == ASSUME NEW p \in Pose PROVE Fixes(p) \in Pose
BY RetargetAssumption DEF Fixes, Pose, NodeConfig

(* The twin's targets are poses, in its range but for the broken joints. *)
LEMMA TwinTargetPose ==
  ASSUME NEW p \in Pose
  PROVE  /\ TwinTarget(p) \in Pose
         /\ \A j \in Joints \ Broken : TwinTarget(p)[j] = Clip(p[j], CtrlLow, CtrlHigh)
         /\ \A j \in Joints \cap Broken : TwinTarget(p)[j] = FixedPosition
         /\ \A j \in Joints \ Broken : TwinTarget(p)[j] \in CtrlLow..CtrlHigh
<1>1. \A j \in Joints : p[j] \in Int
  BY DEF Pose
<1>2. \A j \in Joints : Clip(p[j], CtrlLow, CtrlHigh) \in CtrlLow..CtrlHigh
  BY <1>1, ClipIsShort, RetargetAssumption DEF TwinConfig
<1> QED
  BY <1>2, RetargetAssumption DEF TwinTarget, Fixes, Pose, NodeConfig, TwinConfig

(* The initial states satisfy the invariant. *)
LEMMA InitInv == Init => Inv
<1> SUFFICES ASSUME Init PROVE Inv
  OBVIOUS
<1> USE RetargetAssumption DEF Init, NodeInit, TwinInit, NodeConfig, TwinConfig
<1>a. lastOutput \in Pose /\ correction \in Pose
  BY DEF Pose
<1>b. FixedPosition \in Int
  OBVIOUS
<1>c. target \in Pose /\ q \in Pose
  BY <1>b DEF Pose
<1>d. frameAge \in 0..MaxAge /\ allowance \in 0..Reach /\ wait \in 0..WatchdogPeriod
  BY DEF Reach
<1>1. TypeOK
  BY <1>a, <1>c, <1>d DEF TypeOK, None
<1>2. FixedStaysFixed
  BY DEF FixedStaysFixed
<1>3. CorrectionIsBounded
  <2> SUFFICES ASSUME NEW j \in Joints PROVE Abs(correction[j]) <= MaxOf(j)
    BY DEF CorrectionIsBounded
  <2>1. MaxOf(j) \in Nat
    BY DEF MaxOf
  <2>2. correction[j] = 0
    OBVIOUS
  <2> QED
    BY <2>1, <2>2 DEF Abs
<1> QED
  BY <1>1, <1>2, <1>3 DEF Inv, WatchdogIsDue, TwinFollows

(* An accepted frame's correction stays within the bounds of its joint. *)
LEMMA BlendsAreBounded ==
  ASSUME Inv, NEW v \in [Joints -> Angles], NEW dex \in [Joints -> Angles],
         NEW e \in Corrections(v, dex)
  PROVE  e \in Pose /\ \A j \in Joints : Abs(e[j]) <= MaxOf(j)
<1> USE RetargetAssumption DEF NodeConfig
<1>1. \A j \in Joints : MaxOf(j) \in Nat
  BY DEF MaxOf
<1>2. \A j \in Joints : correction[j] \in Int /\ Abs(correction[j]) <= MaxOf(j)
  BY DEF Inv, TypeOK, Pose, CorrectionIsBounded
<1>3. \A j \in Joints : v[j] \in Int /\ dex[j] \in Int
  OBVIOUS
<1>4. \A j \in Joints : e[j] \in Blends(j, dex[j] - v[j])
  BY DEF Corrections
<1>5. e \in [Joints -> Int]
  BY DEF Corrections, Most
<1>6. ASSUME NEW j \in Joints PROVE Abs(e[j]) <= MaxOf(j)
  <2>1. dex[j] - v[j] \in Int
    BY <1>3
  <2>2. Clip(dex[j] - v[j], -MaxOf(j), MaxOf(j)) \in -MaxOf(j)..MaxOf(j)
    BY <1>1, <2>1 DEF Clip
  <2> QED
    BY <1>1, <1>2, <1>4, <1>5, <2>2 DEF Blends, Least, Most, Abs
<1> QED
  BY <1>5, <1>6 DEF Pose

(* A frame that is accepted keeps the invariant. *)
LEMMA AcceptFrameInv == Inv /\ AcceptFrame => Inv'
<1> SUFFICES ASSUME Inv, AcceptFrame PROVE Inv'
  OBVIOUS
<1> USE RetargetAssumption DEF NodeConfig, TwinConfig
<1>a. PICK v \in VectorPoses : \E dex \in DexPoses(landmarks, v) : \E e \in Corrections(v, dex) :
        correction' = e /\ lastOutput' = Fixes(Limited([j \in Joints |-> v[j] + e[j]]))
  BY Zenon DEF AcceptFrame
<1>b. PICK dex \in DexPoses(landmarks, v) : \E e \in Corrections(v, dex) :
        correction' = e /\ lastOutput' = Fixes(Limited([j \in Joints |-> v[j] + e[j]]))
  BY <1>a, Zenon
<1>1. PICK e \in Corrections(v, dex) :
        correction' = e /\ lastOutput' = Fixes(Limited([j \in Joints |-> v[j] + e[j]]))
  BY <1>b, Zenon
<1> DEFINE p == [j \in Joints |-> v[j] + e[j]]
<1>2. v \in [Joints -> Angles] /\ dex \in [Joints -> Angles]
  BY DEF VectorPoses, DexPoses
<1>3. e \in Pose /\ \A j \in Joints : Abs(e[j]) <= MaxOf(j)
  BY <1>2, BlendsAreBounded
<1>4. p \in Pose
  <2>1. ASSUME NEW j \in Joints PROVE v[j] + e[j] \in Int
    <3>1. v[j] \in Int
      BY <1>2
    <3>2. e[j] \in Int
      BY <1>3 DEF Pose
    <3> QED
      BY <3>1, <3>2
  <2> QED
    BY <2>1 DEF Pose
<1>5. Limited(p) \in Pose
  BY <1>4, LimitedPose DEF Inv
<1>6. lastOutput' = Fixes(Limited(p)) /\ lastOutput' \in Pose /\ lastOutput \in Pose /\ target \in Pose
  BY <1>1, <1>5, FixesPose DEF Inv, TypeOK
<1>7. Allowed \in 0..Reach
  BY MaxDeltaNat DEF Allowed, Reach, Least, Inv, TypeOK
<1>8. TypeOK'
  BY <1>1, <1>3, <1>6, <1>7 DEF Inv, TypeOK, AcceptFrame, twinVars, ContactSignals, Usable, Frames
<1>9. FixedStaysFixed'
  BY <1>6 DEF Inv, FixedStaysFixed, AcceptFrame, twinVars, Fixes
<1>10. CorrectionIsBounded'
  BY <1>1, <1>3 DEF CorrectionIsBounded, MaxOf
<1>11. WatchdogIsDue'
  BY DEF WatchdogIsDue, AcceptFrame, Inv, TypeOK
<1>12. TwinFollows'
  <2>1. took' = took /\ target' = target /\ known' /\ allowance' = Allowed
    BY DEF AcceptFrame, twinVars
  <2>2. SUFFICES ASSUME took, NEW j \in Joints
                 PROVE  /\ j \notin Broken => target[j] \in CtrlLow..CtrlHigh
                        /\ Abs(TwinTarget(lastOutput')[j] - target[j]) <= Allowed
    BY <2>1 DEF TwinFollows, TwinTarget, Fixes
  <2>3. known /\ (j \notin Broken => target[j] \in CtrlLow..CtrlHigh)
        /\ Abs(TwinTarget(lastOutput)[j] - target[j]) <= allowance
    BY <2>2 DEF Inv, TwinFollows
  <2>4. CASE j \in Broken
    <3>1. target[j] = FixedPosition /\ TwinTarget(lastOutput')[j] = FixedPosition
      BY <2>4, <1>6, TwinTargetPose DEF Inv, FixedStaysFixed
    <3> QED
      BY <2>4, <3>1, <1>7 DEF Abs, Reach
  <2>5. CASE j \notin Broken
    <3>1. TwinTarget(lastOutput')[j] = Clip(Limited(p)[j], CtrlLow, CtrlHigh)
          /\ TwinTarget(lastOutput)[j] = Clip(lastOutput[j], CtrlLow, CtrlHigh)
          /\ TwinTarget(lastOutput')[j] \in CtrlLow..CtrlHigh
      BY <2>5, <1>6, TwinTargetPose DEF Fixes
    <3>2. target[j] \in CtrlLow..CtrlHigh
      BY <2>3, <2>5
    <3>3. Abs(TwinTarget(lastOutput')[j] - target[j]) <= Reach
      BY <3>1, <3>2 DEF Abs, Reach
    <3>4. CASE Velocity > 0
      <4>1. MaxDelta(frameAge) \in Nat /\ allowance \in Nat
        BY MaxDeltaNat DEF Inv, TypeOK, Reach
      <4>2. Limited(p)[j] \in Int /\ Abs(Limited(p)[j] - lastOutput[j]) <= MaxDelta(frameAge)
        BY <1>4, <2>3, <3>4, LimitedIsNear DEF Inv
      <4>3. lastOutput[j] \in Int /\ target[j] \in Int
        BY <1>6 DEF Pose
      <4>4. Abs(TwinTarget(lastOutput')[j] - TwinTarget(lastOutput)[j]) <= Abs(Limited(p)[j] - lastOutput[j])
        BY <3>1, <4>2, <4>3, ClipIsShort
      <4>5. TwinTarget(lastOutput)[j] \in Int /\ TwinTarget(lastOutput')[j] \in Int
        BY <1>6, TwinTargetPose DEF Pose
      <4>6. Abs(TwinTarget(lastOutput')[j] - target[j]) <= allowance + MaxDelta(frameAge)
        BY <2>3, <4>1, <4>2, <4>3, <4>4, <4>5 DEF Abs
      <4> QED
        BY <2>3, <3>3, <3>4, <4>6 DEF Allowed, Least
    <3>5. CASE ~(Velocity > 0)
      BY <2>3, <3>3, <3>5 DEF Allowed
    <3> QED
      BY <2>3, <3>4, <3>5
  <2> QED
    BY <2>3, <2>4, <2>5
<1> QED
  BY <1>8, <1>9, <1>10, <1>11, <1>12 DEF Inv

(* The frames that are not accepted, the watchdog, time and Unity. *)
LEMMA NodeInv ==
  Inv /\ (RejectFrame \/ NotFinite \/ Watchdog \/ Tick \/ Adapt \/ \E f \in Frames : HandSeen(f)) => Inv'
<1> SUFFICES ASSUME Inv, RejectFrame \/ NotFinite \/ Watchdog \/ Tick \/ Adapt \/ \E f \in Frames : HandSeen(f)
             PROVE  Inv'
  OBVIOUS
<1> USE RetargetAssumption DEF NodeConfig, TwinConfig
<1>1. UNCHANGED <<known, lastOutput, command, twinVars, allowance>>
  BY DEF RejectFrame, NotFinite, Watchdog, Tick, Adapt, HandSeen, nodeVars, twinVars
<1>2. FixedStaysFixed' /\ TwinFollows'
  BY <1>1 DEF Inv, FixedStaysFixed, TwinFollows, twinVars, TwinTarget, Fixes
<1>3. correction' \in Pose /\ CorrectionIsBounded'
  <2>1. CASE UNCHANGED correction
    BY <2>1 DEF Inv, TypeOK, CorrectionIsBounded, MaxOf
  <2>2. CASE \E v \in VectorPoses : correction' \in Corrections(v, v)
    <3>1. PICK v \in VectorPoses : correction' \in Corrections(v, v)
      BY <2>2
    <3>2. v \in [Joints -> Angles]
      BY DEF VectorPoses
    <3> QED
      BY <3>1, <3>2, BlendsAreBounded DEF CorrectionIsBounded, MaxOf
  <2> QED
    BY <2>1, <2>2 DEF RejectFrame, NotFinite, Watchdog, Tick, Adapt, HandSeen, nodeVars
<1>4. ASSUME RejectFrame \/ NotFinite PROVE TypeOK' /\ WatchdogIsDue'
  <2>1. ~tracking' /\ tracking' \in BOOLEAN /\ landmarks' = None /\ poisoned' \in BOOLEAN
    BY <1>4 DEF RejectFrame, NotFinite, Inv, TypeOK
  <2>2. UNCHANGED <<hand, frameAge, wait, contact>>
    BY <1>4 DEF RejectFrame, NotFinite
  <2> QED
    BY <1>1, <1>3, <2>1, <2>2 DEF Inv, TypeOK, WatchdogIsDue, twinVars
<1>5. ASSUME Watchdog PROVE TypeOK' /\ WatchdogIsDue'
  <2>1. tracking' \in BOOLEAN /\ wait' = WatchdogPeriod /\ frameAge' = frameAge /\ known' = known
    BY <1>5 DEF Watchdog
  <2>2. UNCHANGED <<hand, landmarks, poisoned, contact>>
    BY <1>5 DEF Watchdog
  <2>3. TypeOK'
    BY <1>1, <1>3, <2>1, <2>2 DEF Inv, TypeOK, twinVars
  <2>4. tracking' => known /\ ~(frameAge > WatchdogTimeout)
    <3>1. tracking' => tracking /\ ~(known /\ Silent)
      BY <1>5, Zenon DEF Watchdog
    <3>2. tracking => known
      BY DEF Inv, WatchdogIsDue
    <3> QED
      BY <3>1, <3>2 DEF Silent
  <2>5. frameAge \in Nat /\ WatchdogTimeout \in Nat /\ WatchdogPeriod \in Nat
    BY DEF Inv, TypeOK
  <2> QED
    BY <2>1, <2>3, <2>4, <2>5 DEF WatchdogIsDue
<1>6. ASSUME Tick PROVE TypeOK' /\ WatchdogIsDue'
  BY <1>1, <1>3, <1>6 DEF Tick, Inv, TypeOK, WatchdogIsDue, twinVars, Least
<1>7. ASSUME Adapt \/ \E f \in Frames : HandSeen(f) PROVE TypeOK' /\ WatchdogIsDue'
  BY <1>1, <1>3, <1>7 DEF Adapt, HandSeen, Inv, TypeOK, WatchdogIsDue, nodeVars, twinVars, None, Complete
<1> QED
  BY <1>2, <1>3, <1>4, <1>5, <1>6, <1>7 DEF Inv

(* A command that reaches the twin. *)
LEMMA TakeCommandInv == Inv /\ TakeCommand => Inv'
<1> SUFFICES ASSUME Inv, TakeCommand PROVE Inv'
  OBVIOUS
<1> USE RetargetAssumption DEF NodeConfig, TwinConfig
<1>1. lastOutput \in Pose /\ known /\ target' = TwinTarget(lastOutput) /\ lastOutput' = lastOutput
  BY DEF Inv, TypeOK, TwinFollows, TakeCommand, nodeVars
<1>2. TypeOK'
  <2>1. target' \in Pose /\ took' \in BOOLEAN /\ command' \in BOOLEAN
    BY <1>1, TwinTargetPose DEF TakeCommand
  <2>2. allowance' \in 0..Reach
    BY DEF TakeCommand, Reach
  <2>3. UNCHANGED <<hand, landmarks, known, lastOutput, frameAge, correction, poisoned, tracking,
                    contact, wait, q>>
    BY DEF TakeCommand, nodeVars
  <2> QED
    BY <2>1, <2>2, <2>3 DEF Inv, TypeOK
<1>3. FixedStaysFixed'
  BY <1>1, TwinTargetPose DEF Inv, FixedStaysFixed, TakeCommand, nodeVars
<1>4. CorrectionIsBounded' /\ WatchdogIsDue'
  BY DEF Inv, CorrectionIsBounded, WatchdogIsDue, TakeCommand, nodeVars, MaxOf
<1>5. TwinFollows'
  <2>1. \A j \in Joints : TwinTarget(lastOutput)[j] \in Int
    BY <1>1, TwinTargetPose DEF Pose
  <2>2. known' /\ allowance' = 0 /\ TwinTarget(lastOutput)' = TwinTarget(lastOutput)
    BY <1>1 DEF TakeCommand, nodeVars, TwinTarget, Fixes
  <2>3. ASSUME NEW j \in Joints PROVE Abs(TwinTarget(lastOutput)[j] - TwinTarget(lastOutput)[j]) <= 0
    <3>1. TwinTarget(lastOutput)[j] - TwinTarget(lastOutput)[j] = 0
      BY <2>1
    <3> QED
      BY <3>1 DEF Abs
  <2>4. \A j \in Joints : j \notin Broken => TwinTarget(lastOutput)[j] \in CtrlLow..CtrlHigh
    BY <1>1, TwinTargetPose
  <2> QED
    BY <1>1, <2>2, <2>3, <2>4 DEF TwinFollows
<1> QED
  BY <1>2, <1>3, <1>4, <1>5 DEF Inv

(* A step of the physics. *)
LEMMA TwinStepInv == Inv /\ TwinStep => Inv'
<1> SUFFICES ASSUME Inv, TwinStep PROVE Inv'
  OBVIOUS
<1> USE RetargetAssumption DEF NodeConfig, TwinConfig
<1>1. PICK p \in Simulated : q' = Enforced(p)
  BY DEF TwinStep
<1>2. p \in Pose
  BY DEF Simulated, Pose, Inv, TypeOK
<1>3. q' \in Pose /\ \A j \in Broken : q'[j] = FixedPosition
  BY <1>1, <1>2, FixesPose DEF Enforced, Fixes
<1> QED
  BY <1>3 DEF Inv, TypeOK, FixedStaysFixed, CorrectionIsBounded, WatchdogIsDue, TwinFollows,
              TwinStep, nodeVars, MaxOf, TwinTarget, Fixes

(* Every step keeps the invariant. *)
LEMMA NextInv == Inv /\ [Next]_vars => Inv'
<1>1. Inv /\ UNCHANGED vars => Inv'
  BY DEF Inv, TypeOK, FixedStaysFixed, CorrectionIsBounded, WatchdogIsDue, TwinFollows, vars,
         nodeVars, twinVars, MaxOf, TwinTarget, Fixes
<1> QED
  BY <1>1, AcceptFrameInv, NodeInv, TakeCommandInv, TwinStepInv DEF Next

(* The invariant holds in every reachable state. *)
THEOREM Invariance == Spec => []Inv
BY InitInv, NextInv, PTL DEF Spec

(* A broken joint is at its fixed position in every command, target and    *)
(* state of the twin.                                                      *)
THEOREM FixedJointsStayFixed == Spec => []FixedStaysFixed
<1>1. Inv => FixedStaysFixed
  BY DEF Inv
<1> QED
  BY <1>1, Invariance, PTL

(* Tracking is not reported for longer than the watchdog allows. *)
THEOREM TrackingStaysRecent == Spec => []TrackingIsRecent
<1>1. Inv => TrackingIsRecent
  BY RetargetAssumption DEF Inv, WatchdogIsDue, TrackingIsRecent, TypeOK, NodeConfig
<1> QED
  BY <1>1, Invariance, PTL

(* What is mixed of DexPilot's correction stays bounded. *)
THEOREM CorrectionStaysBounded == Spec => []CorrectionIsBounded
<1>1. Inv => CorrectionIsBounded
  BY DEF Inv
<1> QED
  BY <1>1, Invariance, PTL

(* The twin's target never travels further than the velocity cap allows.   *)
THEOREM TravelStaysBounded == Spec => TravelIsBounded
<1>1. Inv /\ [Next]_vars => [took => \A j \in Joints : Abs(target'[j] - target[j]) <= allowance]_vars
  <2> SUFFICES ASSUME Inv, Next, took, NEW j \in Joints
               PROVE  Abs(target'[j] - target[j]) <= allowance
    BY DEF vars
  <2>1. target[j] \in Int /\ allowance \in 0..Reach
    BY DEF Inv, TypeOK, Pose
  <2>2. CASE target' = target
    BY <2>1, <2>2 DEF Abs
  <2>3. CASE TakeCommand
    BY <2>3 DEF TakeCommand, Inv, TwinFollows
  <2> QED
    BY <2>2, <2>3 DEF Next, HandSeen, Adapt, AcceptFrame, RejectFrame, NotFinite, Watchdog, Tick,
                      TwinStep, twinVars
<1> QED
  BY <1>1, Invariance, PTL DEF Spec, TravelIsBounded

(* Every age, pose and allowance of the node and of the twin is in range.  *)
THEOREM TypeCorrect == Spec => []TypeOK
<1>1. Inv => TypeOK
  BY DEF Inv
<1> QED
  BY <1>1, Invariance, PTL

=============================================================================
