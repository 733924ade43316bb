-------------------------- MODULE CubeEpisodeProofs --------------------------
(***************************************************************************)
(* For every number of environments and joints, and every delay: actions   *)
(* are delivered on time, and the bonus is earned.                         *)
(***************************************************************************)
EXTENDS CubeEpisode, TLAPS

(* What the phase says of an environment's counters: the actions of the    *)
(* episode are as many as its steps, unless RSL-RL shifted it.             *)
CountersAgree ==
  \A e \in Envs :
    LET steps == IF phase = "physics" THEN length[e] + 1 ELSE length[e] IN
    /\ count[e] <= steps /\ (fresh[e] => count[e] = steps)
    /\ steps <= IF phase \in {"rewards", "resets", "physics"} THEN MaxLength ELSE MaxLength - 1

(* The queue holds the newest actions of the episode, newest first. *)
QueueIsRecent ==
  \A e \in Envs, i \in 1..History :
    history[e][i] = IF count[e] >= i THEN taken[e][count[e] - i] ELSE 0

(* What the tracker counted, a joint driven by the policy held. *)
TrackerIsSound ==
  \A e \in Envs :
    /\ bonuses[e] = IF succeeded[e] THEN 1 ELSE 0
    /\ fresh[e] => consecutive[e] <= streak[e]

IInv == TypeOK /\ CountersAgree /\ QueueIsRecent /\ TrackerIsSound /\ DeliveredOnTime

(* A clamped value lies between the bounds. *)
LEMMA ClampInRange ==
  ASSUME NEW x \in Int, NEW low \in Int, NEW high \in Int, low <= high
  PROVE  Clamp(x, low, high) \in low..high
BY DEF Clamp

(* A position target lies between the limits of its joint. *)
LEMMA TargetInLimits ==
  ASSUME NEW a \in -1..1, NEW measured \in Lower..Upper, NEW commanded \in Lower..Upper
  PROVE  PositionTarget(a, measured, commanded) \in Lower..Upper
<1> DEFINE raw == CASE ControlMode = "integrated_delta_position" -> commanded + a * Scale
                    [] ControlMode = "measured_delta_position" -> measured + a * Scale
                    [] OTHER -> IF a >= 0 THEN Grasp + a * (Upper - Grasp) ELSE Grasp + a * (Grasp - Lower)
<1>1. Lower \in Int /\ Upper \in Int /\ Grasp \in Int /\ Scale \in Int /\ Lower <= Upper
  BY CubeAssumption DEF EnvConfig
<1>2. a * Scale \in Int /\ a * (Upper - Grasp) \in Int /\ a * (Grasp - Lower) \in Int
  BY <1>1
<1>3. commanded + a * Scale \in Int /\ measured + a * Scale \in Int
      /\ Grasp + a * (Upper - Grasp) \in Int /\ Grasp + a * (Grasp - Lower) \in Int
  BY <1>1, <1>2
<1>4. raw \in Int
  BY <1>3, Zenon DEF ControlModes
<1>5. PositionTarget(a, measured, commanded) = Clamp(raw, Lower, Upper)
  BY DEF PositionTarget
<1> QED
  BY <1>1, <1>4, <1>5, ClampInRange

LEMMA HistoryIsPositive == /\ History \in Nat \ {0} /\ LongestDelay <= History
                           /\ \A j \in Joints : Delay(j) \in 0..History
BY CubeAssumption DEF SysIDConfig, EnvConfig, History

LEMMA BoundsAreNumbers == /\ MaxLength \in Nat \ {0} /\ LongestDelay \in Nat /\ Required \in Nat \ {0}
                          /\ Tolerance \in Nat /\ Errors \subseteq Nat
BY CubeAssumption DEF EnvConfig

LEMMA InitIInv == Init => IInv
<1> SUFFICES ASSUME Init PROVE IInv
  OBVIOUS
<1> USE HistoryIsPositive, CubeAssumption DEF EnvConfig, Init
<1>1. TypeOK
  <2>1. error \in [Envs -> Errors] /\ \A e \in Envs : error[e] \in Nat
    BY DEF GoalErrors
  <2>2. eligible \in [Envs -> BOOLEAN]
    BY <2>1
  <2>3. command \in [Envs -> [Joints -> Lower..Upper]] /\ applied \in [Envs -> [Joints -> -1..1]]
    OBVIOUS
  <2>4. history \in [Envs -> [1..History -> -1..1]] /\ taken \in [Envs -> [0..MaxLength -> -1..1]]
    OBVIOUS
  <2>5. count \in [Envs -> 0..MaxLength] /\ fresh \in [Envs -> BOOLEAN]
    <3>1. count \in [Envs -> 0..MaxLength]
      BY BoundsAreNumbers
    <3>2. CASE fresh = [e \in Envs |-> TRUE]
      BY <3>2
    <3>3. CASE fresh = [e \in Envs |-> FALSE]
      BY <3>3
    <3> QED
      BY <3>1, <3>2, <3>3
  <2>6. length \in [Envs -> 0..MaxLength]
    BY BoundsAreNumbers
  <2> QED
    BY <2>1, <2>2, <2>3, <2>4, <2>5, <2>6 DEF TypeOK
<1>2. CountersAgree
  BY DEF CountersAgree
<1>3. QueueIsRecent /\ TrackerIsSound /\ DeliveredOnTime
  BY DEF QueueIsRecent, TrackerIsSound, DeliveredOnTime
<1> QED
  BY <1>1, <1>2, <1>3 DEF IInv

LEMMA PrePhysicsKeeps == ASSUME IInv, PrePhysics PROVE IInv'
<1>1. PICK raw \in [Envs -> Actions], measured \in [Envs -> [Joints -> Measured]] :
        LET a == [e \in Envs |-> Clamp(raw[e], -1, 1)] IN
        /\ applied' = [e \in Envs |-> [j \in Joints |-> Delivered(e, j, a[e])]]
        /\ history' = [e \in Envs |-> Pushed(e, a[e])]
        /\ command' = [e \in Envs |-> [j \in Joints |->
              PositionTarget(Delivered(e, j, a[e]), measured[e][j], command[e][j])]]
        /\ taken' = [e \in Envs |-> [taken[e] EXCEPT ![count[e]] = a[e]]]
  BY DEF PrePhysics
<1> DEFINE a == [e \in Envs |-> Clamp(raw[e], -1, 1)]
<1>2. /\ phase = "policy" /\ phase' = "physics"
      /\ count' = [e \in Envs |-> count[e] + 1]
      /\ UNCHANGED <<length, error, fallen, successVars, streak, bonuses, fresh>>
  BY DEF PrePhysics
<1>3. \A e \in Envs : a[e] \in -1..1
  <2> TAKE e \in Envs
  <2>1. raw[e] \in Int
    BY CubeAssumption DEF EnvConfig
  <2>2. Clamp(raw[e], -1, 1) \in -1..1
    BY <2>1 DEF Clamp
  <2> QED
    BY <2>2
<1>4. \A e \in Envs : count[e] \in 0..(MaxLength - 1) /\ length[e] \in 0..(MaxLength - 1)
  BY <1>2, CubeAssumption DEF IInv, TypeOK, CountersAgree, EnvConfig
<1>5. \A e \in Envs : \A j \in Joints : Delivered(e, j, a[e]) \in -1..1
  BY <1>3, HistoryIsPositive DEF IInv, TypeOK, Delivered
<1>6. \A e \in Envs : \A j \in Joints : measured[e][j] \in Lower..Upper
  BY CubeAssumption DEF Measured, EnvConfig
<1>7. \A e \in Envs : \A i \in 0..MaxLength :
        taken'[e][i] = IF i = count[e] THEN a[e] ELSE taken[e][i]
  BY <1>1, <1>4 DEF IInv, TypeOK
<1>8. \A e \in Envs, i \in 1..History :
        history'[e][i] = IF i = 1 THEN a[e] ELSE history[e][i - 1]
  BY <1>1 DEF Pushed
<1>9. TypeOK'
  <2>1. history' \in [Envs -> [1..History -> -1..1]]
    BY <1>1, <1>3, HistoryIsPositive DEF IInv, TypeOK, Pushed
  <2>2. applied' \in [Envs -> [Joints -> -1..1]]
    BY <1>1, <1>5
  <2>3. command' \in [Envs -> [Joints -> Lower..Upper]]
    <3>1. \A e \in Envs : \A j \in Joints :
            PositionTarget(Delivered(e, j, a[e]), measured[e][j], command[e][j]) \in Lower..Upper
      <4> TAKE e \in Envs
      <4> TAKE j \in Joints
      <4>1. /\ Delivered(e, j, a[e]) \in -1..1 /\ measured[e][j] \in Lower..Upper
            /\ command[e][j] \in Lower..Upper
        BY <1>5, <1>6 DEF IInv, TypeOK
      <4> HIDE DEF a
      <4> QED
        BY <4>1, TargetInLimits
    <3> QED
      BY <1>1, <3>1
  <2>4. taken' \in [Envs -> [0..MaxLength -> -1..1]]
    BY <1>1, <1>3 DEF IInv, TypeOK
  <2>5. count' \in [Envs -> 0..MaxLength]
    BY <1>2, <1>4, CubeAssumption DEF EnvConfig
  <2> QED
    BY <1>2, <2>1, <2>2, <2>3, <2>4, <2>5 DEF IInv, TypeOK, successVars
<1>10. CountersAgree'
  BY <1>2, <1>4, CubeAssumption DEF IInv, TypeOK, CountersAgree, EnvConfig
<1>11. QueueIsRecent'
  <2> SUFFICES ASSUME NEW e \in Envs, NEW i \in 1..History
               PROVE  history'[e][i] = IF count'[e] >= i THEN taken'[e][count'[e] - i] ELSE 0
    BY DEF QueueIsRecent
  <2>1. count'[e] = count[e] + 1 /\ count[e] \in 0..(MaxLength - 1)
    BY <1>2, <1>4
  <2>2. CASE i = 1
    BY <1>4, <1>7, <1>8, <2>1, <2>2, CubeAssumption DEF EnvConfig
  <2>3. CASE i > 1
    <3>1. i - 1 \in 1..History /\ history'[e][i] = history[e][i - 1]
      BY <1>8, <2>3, HistoryIsPositive
    <3>2. history[e][i - 1] = IF count[e] >= i - 1 THEN taken[e][count[e] - (i - 1)] ELSE 0
      BY <3>1 DEF IInv, QueueIsRecent
    <3>3. count'[e] >= i <=> count[e] >= i - 1
      BY <2>1
    <3>4. CASE count[e] >= i - 1
      <4>1. count[e] \in Nat /\ count[e] <= MaxLength /\ i \in Nat /\ MaxLength \in Nat
        BY <2>1, HistoryIsPositive, BoundsAreNumbers
      <4>2. \A c, k, m \in Nat : c <= m /\ k > 1 /\ c >= k - 1 =>
              (c + 1) - k = c - (k - 1) /\ c - (k - 1) \in 0..m /\ c - (k - 1) # c
        OBVIOUS
      <4>3. count'[e] - i = count[e] - (i - 1) /\ count[e] - (i - 1) \in 0..MaxLength
            /\ count[e] - (i - 1) # count[e]
        BY <2>1, <2>3, <3>4, <4>1, <4>2
      <4> QED
        BY <1>7, <3>1, <3>2, <3>3, <3>4, <4>3
    <3>5. CASE ~(count[e] >= i - 1)
      BY <3>1, <3>2, <3>3, <3>5
    <3> QED
      BY <3>4, <3>5
  <2> QED
    BY <2>2, <2>3, HistoryIsPositive
<1>12. TrackerIsSound'
  BY <1>2 DEF IInv, TrackerIsSound, successVars
<1>13. DeliveredOnTime'
  <2> SUFFICES ASSUME NEW e \in Envs, NEW j \in Joints
               PROVE  applied'[e][j] = IF count'[e] > Delay(j)
                                       THEN taken'[e][count'[e] - 1 - Delay(j)] ELSE 0
    BY DEF DeliveredOnTime
  <2>1. count'[e] = count[e] + 1 /\ count[e] \in 0..(MaxLength - 1)
    BY <1>2, <1>4
  <2>2. applied'[e][j] = Delivered(e, j, a[e]) /\ Delay(j) \in 0..History
    BY <1>1, HistoryIsPositive
  <2>3. CASE Delay(j) = 0
    <3>1. applied'[e][j] = a[e]
      BY <2>2, <2>3 DEF Delivered
    <3>2. count'[e] > Delay(j) /\ count'[e] - 1 - Delay(j) = count[e]
      <4>1. count[e] \in Nat
        BY <2>1, BoundsAreNumbers
      <4>2. \A c \in Nat : c + 1 > 0 /\ (c + 1) - 1 - 0 = c
        OBVIOUS
      <4> QED
        BY <2>1, <2>3, <4>1, <4>2
    <3> QED
      BY <1>4, <1>7, <2>1, <3>1, <3>2, CubeAssumption DEF EnvConfig
  <2>4. CASE Delay(j) > 0
    <3>1. /\ applied'[e][j] = history[e][Delay(j)] /\ Delay(j) \in 1..History
          /\ history[e][Delay(j)]
             = IF count[e] >= Delay(j) THEN taken[e][count[e] - Delay(j)] ELSE 0
      BY <2>2, <2>4, HistoryIsPositive DEF Delivered, IInv, QueueIsRecent
    <3>2. CASE count[e] >= Delay(j)
      <4>1. /\ count'[e] > Delay(j) /\ count'[e] - 1 - Delay(j) = count[e] - Delay(j)
            /\ count[e] - Delay(j) \in 0..MaxLength /\ count[e] - Delay(j) # count[e]
        BY <2>1, <2>4, <3>1, <3>2, HistoryIsPositive, CubeAssumption DEF EnvConfig
      <4> QED
        BY <1>7, <3>1, <3>2, <4>1
    <3>3. CASE ~(count[e] >= Delay(j))
      <4>1. ~(count'[e] > Delay(j))
        BY <2>1, <3>1, <3>3, HistoryIsPositive
      <4> QED
        BY <3>1, <3>3, <4>1
    <3> QED
      BY <3>2, <3>3
  <2> QED
    BY <2>2, <2>3, <2>4, HistoryIsPositive
<1> QED
  BY <1>9, <1>10, <1>11, <1>12, <1>13 DEF IInv

LEMMA PhysicsKeeps == ASSUME IInv, Physics PROVE IInv'
<1> USE DEF IInv, Physics, queueVars, successVars, ghosts
<1>1. \A e \in Envs : length[e] + 1 \in 0..MaxLength
  BY CubeAssumption DEF TypeOK, CountersAgree, EnvConfig
<1>2. TypeOK'
  BY <1>1 DEF TypeOK
<1>3. CountersAgree'
  BY <1>1 DEF TypeOK, CountersAgree
<1>4. QueueIsRecent' /\ TrackerIsSound' /\ DeliveredOnTime'
  BY DEF QueueIsRecent, TrackerIsSound, DeliveredOnTime
<1> QED
  BY <1>2, <1>3, <1>4

(* In an episode that began with a reset, what the tracker counts is held  *)
(* by the policy.                                                          *)
LEMMA CountedIsHeld ==
  ASSUME IInv, phase = "rewards", NEW e \in Envs, fresh[e], InTolerance(e)
  PROVE  HeldByPolicy(e)
<1>1. count[e] = length[e] /\ length[e] >= LongestDelay + 1 /\ length[e] \in Nat
  BY DEF IInv, TypeOK, CountersAgree, InTolerance, SuccessStart
<1>2. \A j \in Joints : count[e] > Delay(j)
  BY <1>1, CubeAssumption DEF SysIDConfig, EnvConfig
<1> QED
  BY <1>2 DEF InTolerance, HeldByPolicy

(* So a hold is never counted longer than it was. *)
LEMMA HoldIsTrue ==
  ASSUME IInv, Rewards, NEW e \in Envs, fresh[e]
  PROVE  Held(e) <= streak'[e] /\ Held(e) \in Nat /\ streak'[e] \in Nat
<1>1. streak'[e] = IF HeldByPolicy(e) THEN streak[e] + 1 ELSE 0
  BY DEF Rewards
<1>2. consecutive[e] \in Nat /\ streak[e] \in Nat /\ consecutive[e] <= streak[e]
  BY DEF IInv, TypeOK, TrackerIsSound
<1>3. InTolerance(e) => HeldByPolicy(e)
  BY CountedIsHeld DEF Rewards
<1> QED
  BY <1>1, <1>2, <1>3 DEF Held

LEMMA RewardsKeep == ASSUME IInv, Rewards PROVE IInv'
<1> USE DEF queueVars
<1>1. /\ phase = "rewards" /\ phase' \in {"resets", "policy"}
      /\ phase' = "policy" => \A e \in Envs : ~TimedOut(e)
      /\ UNCHANGED <<queueVars, length, error, fallen, eligible, count, taken, fresh>>
      /\ consecutive' = [e \in Envs |-> Held(e)]
      /\ succeeded' = [e \in Envs |-> succeeded[e] \/ FirstSuccess(e)]
      /\ bonuses' = [e \in Envs |-> bonuses[e] + IF FirstSuccess(e) THEN 1 ELSE 0]
      /\ streak' = [e \in Envs |-> IF HeldByPolicy(e) THEN streak[e] + 1 ELSE 0]
  BY DEF Rewards
<1>2. TypeOK'
  <2>1. \A e \in Envs : Held(e) \in Nat
    BY DEF IInv, TypeOK, Held
  <2>2. \A e \in Envs : (succeeded[e] \/ FirstSuccess(e)) \in BOOLEAN
    BY DEF FirstSuccess
  <2>3. consecutive' \in [Envs -> Nat] /\ succeeded' \in [Envs -> BOOLEAN]
    BY <1>1, <2>1, <2>2
  <2>4. bonuses' \in [Envs -> Nat] /\ streak' \in [Envs -> Nat]
    BY <1>1 DEF IInv, TypeOK
  <2> QED
    BY <1>1, <2>3, <2>4 DEF IInv, TypeOK
<1>3. CountersAgree'
  BY <1>1, CubeAssumption DEF IInv, TypeOK, CountersAgree, TimedOut, EnvConfig
<1>4. QueueIsRecent' /\ DeliveredOnTime'
  BY <1>1 DEF IInv, QueueIsRecent, DeliveredOnTime
<1>5. TrackerIsSound'
  <2> SUFFICES ASSUME NEW e \in Envs
               PROVE  /\ bonuses'[e] = IF succeeded'[e] THEN 1 ELSE 0
                      /\ fresh'[e] => consecutive'[e] <= streak'[e]
    BY DEF TrackerIsSound
  <2>1. bonuses'[e] = IF succeeded'[e] THEN 1 ELSE 0
    <3>1. /\ succeeded[e] \in BOOLEAN /\ bonuses[e] = IF succeeded[e] THEN 1 ELSE 0
          /\ FirstSuccess(e) => ~succeeded[e]
      BY DEF IInv, TypeOK, TrackerIsSound, FirstSuccess
    <3>2. /\ succeeded'[e] = (succeeded[e] \/ FirstSuccess(e))
          /\ bonuses'[e] = bonuses[e] + IF FirstSuccess(e) THEN 1 ELSE 0
      BY <1>1
    <3>3. CASE FirstSuccess(e)
      <4>1. succeeded'[e] /\ ~succeeded[e]
        BY <3>1, <3>2, <3>3, Zenon
      <4>2. bonuses[e] = 0 /\ bonuses'[e] = bonuses[e] + 1
        BY <3>1, <3>2, <3>3, <4>1, Zenon
      <4> QED
        BY <4>1, <4>2
    <3>4. CASE ~FirstSuccess(e)
      BY <3>1, <3>2, <3>4
    <3> QED
      BY <3>3, <3>4
  <2>2. fresh'[e] => consecutive'[e] <= streak'[e]
    BY <1>1, HoldIsTrue
  <2> QED
    BY <2>1, <2>2
<1> QED
  BY <1>2, <1>3, <1>4, <1>5 DEF IInv

LEMMA ResetKeeps == ASSUME IInv, Reset PROVE IInv'
<1> DEFINE ids == { e \in Envs : fallen[e] \/ TimedOut(e) }
<1>1. PICK goal \in [ids -> GoalErrors] :
        /\ error' = [e \in Envs |-> IF e \in ids THEN goal[e] ELSE error[e]]
        /\ eligible' = [e \in Envs |-> IF e \in ids THEN goal[e] >= Tolerance ELSE eligible[e]]
  BY DEF Reset
<1>2. /\ phase = "resets" /\ phase' = "policy" /\ fallen' = fallen
      /\ history' = [e \in Envs |-> IF e \in ids THEN [i \in 1..History |-> 0] ELSE history[e]]
      /\ applied' = [e \in Envs |-> IF e \in ids THEN [j \in Joints |-> 0] ELSE applied[e]]
      /\ command' = [e \in Envs |-> IF e \in ids THEN [j \in Joints |-> Grasp] ELSE command[e]]
      /\ length' = [e \in Envs |-> IF e \in ids THEN 0 ELSE length[e]]
      /\ consecutive' = [e \in Envs |-> IF e \in ids THEN 0 ELSE consecutive[e]]
      /\ succeeded' = [e \in Envs |-> succeeded[e] /\ e \notin ids]
      /\ count' = [e \in Envs |-> IF e \in ids THEN 0 ELSE count[e]]
      /\ taken' = [e \in Envs |-> IF e \in ids THEN [i \in 0..MaxLength |-> 0] ELSE taken[e]]
      /\ streak' = [e \in Envs |-> IF e \in ids THEN 0 ELSE streak[e]]
      /\ bonuses' = [e \in Envs |-> IF e \in ids THEN 0 ELSE bonuses[e]]
      /\ fresh' = [e \in Envs |-> IF e \in ids THEN TRUE ELSE fresh[e]]
  BY DEF Reset, ClearedHistory, ClearedSuccess
<1>3. TypeOK'
  <2>1. error' \in [Envs -> Errors]
    BY <1>1 DEF IInv, TypeOK, GoalErrors
  <2>2. eligible' \in [Envs -> BOOLEAN]
    <3>1. \A e \in Envs : (IF e \in ids THEN goal[e] >= Tolerance ELSE eligible[e]) \in BOOLEAN
      <4> TAKE e \in Envs
      <4>1. e \in ids => goal[e] \in Nat
        BY <1>1, BoundsAreNumbers DEF GoalErrors
      <4>2. e \in ids => (goal[e] >= Tolerance) \in BOOLEAN
        BY <4>1, BoundsAreNumbers
      <4>3. eligible[e] \in BOOLEAN
        BY DEF IInv, TypeOK
      <4> QED
        BY <4>2, <4>3, Zenon
    <3> HIDE DEF ids
    <3> QED
      BY <1>1, <3>1
  <2>3. command' \in [Envs -> [Joints -> Lower..Upper]]
    BY <1>2, CubeAssumption DEF IInv, TypeOK, EnvConfig
  <2>4. history' \in [Envs -> [1..History -> -1..1]] /\ applied' \in [Envs -> [Joints -> -1..1]]
    BY <1>2 DEF IInv, TypeOK
  <2>5. taken' \in [Envs -> [0..MaxLength -> -1..1]]
    BY <1>2 DEF IInv, TypeOK
  <2>6. /\ length' \in [Envs -> 0..MaxLength] /\ count' \in [Envs -> 0..MaxLength]
        /\ consecutive' \in [Envs -> Nat] /\ streak' \in [Envs -> Nat] /\ bonuses' \in [Envs -> Nat]
    BY <1>2, CubeAssumption DEF IInv, TypeOK, EnvConfig
  <2>7. succeeded' \in [Envs -> BOOLEAN] /\ fresh' \in [Envs -> BOOLEAN]
    BY <1>2 DEF IInv, TypeOK
  <2> QED
    BY <1>2, <2>1, <2>2, <2>3, <2>4, <2>5, <2>6, <2>7 DEF IInv, TypeOK
<1>4. CountersAgree'
  BY <1>2, CubeAssumption DEF IInv, TypeOK, CountersAgree, TimedOut, EnvConfig
<1>5. QueueIsRecent'
  <2> SUFFICES ASSUME NEW e \in Envs, NEW i \in 1..History
               PROVE  history'[e][i] = IF count'[e] >= i THEN taken'[e][count'[e] - i] ELSE 0
    BY DEF QueueIsRecent
  <2>1. CASE e \in ids
    BY <1>2, <2>1, HistoryIsPositive
  <2>2. CASE e \notin ids
    BY <1>2, <2>2 DEF IInv, QueueIsRecent
  <2> QED
    BY <2>1, <2>2
<1>7. DeliveredOnTime'
  <2> SUFFICES ASSUME NEW e \in Envs, NEW j \in Joints
               PROVE  applied'[e][j] = IF count'[e] > Delay(j)
                                       THEN taken'[e][count'[e] - 1 - Delay(j)] ELSE 0
    BY DEF DeliveredOnTime
  <2>1. CASE e \in ids
    BY <1>2, <2>1, HistoryIsPositive
  <2>2. CASE e \notin ids
    BY <1>2, <2>2 DEF IInv, DeliveredOnTime
  <2> QED
    BY <2>1, <2>2
<1>6. TrackerIsSound'
  <2> SUFFICES ASSUME NEW e \in Envs
               PROVE  /\ bonuses'[e] = IF succeeded'[e] THEN 1 ELSE 0
                      /\ fresh'[e] => consecutive'[e] <= streak'[e]
    BY DEF TrackerIsSound
  <2>1. CASE e \in ids
    <3>1. bonuses'[e] = 0 /\ consecutive'[e] = 0 /\ streak'[e] = 0
      BY <1>2, <2>1
    <3>2. ~succeeded'[e]
      BY <1>2, <2>1, Zenon
    <3> QED
      BY <3>1, <3>2
  <2>2. CASE e \notin ids
    <3>1. /\ succeeded'[e] = succeeded[e] /\ fresh'[e] = fresh[e] /\ bonuses'[e] = bonuses[e]
          /\ consecutive'[e] = consecutive[e] /\ streak'[e] = streak[e]
      BY <1>2, <2>2 DEF IInv, TypeOK
    <3> QED
      BY <3>1, Zenon DEF IInv, TrackerIsSound
  <2> QED
    BY <2>1, <2>2
<1> QED
  BY <1>3, <1>4, <1>5, <1>6, <1>7 DEF IInv

(* The invariant holds for every instance. *)
THEOREM Invariance == Spec => []IInv
<1>1. IInv /\ [Next]_vars => IInv'
  <2> SUFFICES ASSUME IInv, [Next]_vars PROVE IInv'
    OBVIOUS
  <2>1. CASE UNCHANGED vars
    BY <2>1 DEF vars, queueVars, successVars, ghosts, IInv, TypeOK, CountersAgree,
                QueueIsRecent, TrackerIsSound, DeliveredOnTime
  <2> QED
    BY <2>1, PrePhysicsKeeps, PhysicsKeeps, RewardsKeep, ResetKeeps DEF Next
<1> QED
  BY <1>1, InitIInv, PTL DEF Spec

(* However long a joint's delay, what drives the joint is what the policy  *)
(* asked for that long ago in the same episode (ActionDelayQueue.push,     *)
(* reset).                                                                 *)
THEOREM ActionsAreDeliveredOnTime == Spec => []DeliveredOnTime
<1>1. IInv => DeliveredOnTime
  BY DEF IInv
<1> QED
  BY <1>1, Invariance, PTL

(* The bonus is paid once an episode, and in one that began with a reset   *)
(* for a hold by the policy: not so in the first episodes of a training,   *)
(* whose length is shifted (HeldSuccessTracker.update, success_start_step).*)
THEOREM BonusesAreEarned == Spec => BonusIsEarned
<1> DEFINE Earned == \A e \in Envs : bonuses'[e] > bonuses[e] =>
                       bonuses[e] = 0 /\ (fresh[e] => streak'[e] >= Required)
<1>1. IInv /\ [Next]_vars => [Earned]_vars
  <2> SUFFICES ASSUME IInv, Next, NEW e \in Envs, bonuses'[e] > bonuses[e]
               PROVE  bonuses[e] = 0 /\ (fresh[e] => streak'[e] >= Required)
    OBVIOUS
  <2>1. bonuses[e] \in Nat
    BY DEF IInv, TypeOK
  <2>2. CASE PrePhysics \/ Physics
    BY <2>1, <2>2 DEF PrePhysics, Physics, ghosts
  <2>3. CASE Rewards
    <3>1. FirstSuccess(e)
      BY <2>1, <2>3 DEF Rewards
    <3>2. bonuses[e] = 0
      BY <3>1 DEF FirstSuccess, IInv, TrackerIsSound
    <3>3. fresh[e] => streak'[e] >= Required
      BY <2>3, <3>1, HoldIsTrue, CubeAssumption DEF FirstSuccess, EnvConfig
    <3> QED
      BY <3>2, <3>3
  <2>4. CASE Reset
    BY <2>1, <2>4 DEF Reset
  <2> QED
    BY <2>2, <2>3, <2>4 DEF Next
<1> QED
  BY <1>1, Invariance, PTL DEF Spec, BonusIsEarned

(* In every control mode the position target of a joint stays within its   *)
(* limits, and no counter outlives the episode (TypeOK).                   *)
THEOREM TypeCorrect == Spec => []TypeOK
<1>1. IInv => TypeOK
  BY DEF IInv
<1> QED
  BY <1>1, Invariance, PTL

=============================================================================
