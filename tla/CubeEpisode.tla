----------------------------- MODULE CubeEpisode -----------------------------
(***************************************************************************)
(* The episodes of the cube task DG5FCubeEnv: a batch of environments in   *)
(* lock step, whose policy actions pass through a delay queue into joint   *)
(* commands, and whose success, held for a number of steps, earns a bonus  *)
(* once an episode.                                                        *)
(*                                                                         *)
(* The simulator, the policy and DirectRLEnv.step, which calls the methods *)
(* in the order of phase, are external.  An action is one number for all   *)
(* joints of an environment, an angle or an error an integer.              *)
(***************************************************************************)
EXTENDS Integers, FiniteSets

CONSTANTS
  Envs, Joints,
  Delay(_),            \* action_delay_steps of a joint
  LongestDelay,        \* the longest of them
  Actions,             \* what the policy may ask for
  ControlMode, Scale,  \* control_mode and delta_action_scale
  Lower, Upper, Grasp, \* joint limits and the grasp command
  Errors,              \* orientation errors
  Tolerance, MinError, \* success_tolerance, min_initial_goal_error
  Required,            \* success_hold_steps
  MaxLength            \* max_episode_length

ControlModes ==
  {"integrated_delta_position", "measured_delta_position", "absolute_position"}

(* The delays that the identification of the hand found, finger by finger. *)
SysIDConfig ==
  /\ \A j \in Joints : Delay(j) \in 0..LongestDelay
  /\ \E j \in Joints : Delay(j) = LongestDelay

EnvConfig ==
  /\ {LongestDelay, Tolerance, MinError} \subseteq Nat /\ Tolerance < MinError
  /\ {Scale, Required, MaxLength} \subseteq Nat \ {0}
  /\ Actions \subseteq Int /\ Errors \subseteq Nat
  /\ {Lower, Upper, Grasp} \subseteq Int /\ Grasp \in Lower..Upper
  /\ ControlMode \in ControlModes

ASSUME CubeAssumption == SysIDConfig /\ EnvConfig

(* history_steps: one slot at least, for the penalty on changes. *)
History == IF LongestDelay > 0 THEN LongestDelay ELSE 1

VARIABLES
  phase,        \* the method that DirectRLEnv.step calls next
  history,      \* action_queue.history: the newest action is at 1
  applied,      \* applied_actions: what was delivered to each joint
  command,      \* joint_command
  length,       \* episode_length_buf
  error,        \* orientation_error
  fallen,       \* reset_terminated
  eligible,     \* success_eligible
  consecutive,  \* success.consecutive
  succeeded,    \* success.succeeded
  count, taken, \* the actions of this episode and their number (ghosts)
  streak,       \* steps since which the cube has been held, all joints acting (ghost)
  bonuses,      \* bonuses paid in this episode (ghost)
  fresh         \* whether the episode began with a reset (ghost)

queueVars == <<history, applied, command>>
successVars == <<eligible, consecutive, succeeded>>
ghosts == <<count, taken, streak, bonuses, fresh>>
vars == <<phase, queueVars, length, error, fallen, successVars, ghosts>>

Clamp(x, low, high) == IF x < low THEN low ELSE IF x > high THEN high ELSE x

(* Goals are drawn again until they are far enough from the cube. *)
GoalErrors == { x \in Errors : x >= MinError }

(* The environments have been reset; RSL-RL then shifts the episodes by a  *)
(* random number of steps (init_at_random_ep_len).                         *)
Init ==
  /\ phase = "policy"
  /\ history = [e \in Envs |-> [i \in 1..History |-> 0]]
  /\ applied = [e \in Envs |-> [j \in Joints |-> 0]]
  /\ command = [e \in Envs |-> [j \in Joints |-> Grasp]]
  /\ \/ length = [e \in Envs |-> 0] /\ fresh = [e \in Envs |-> TRUE]
     \/ length \in [Envs -> 0..(MaxLength - 1)] /\ fresh = [e \in Envs |-> FALSE]
  /\ error \in [Envs -> GoalErrors] /\ fallen = [e \in Envs |-> FALSE]
  /\ eligible = [e \in Envs |-> error[e] >= Tolerance]
  /\ consecutive = [e \in Envs |-> 0] /\ succeeded = [e \in Envs |-> FALSE]
  /\ count = [e \in Envs |-> 0] /\ taken = [e \in Envs |-> [i \in 0..MaxLength |-> 0]]
  /\ streak = [e \in Envs |-> 0] /\ bonuses = [e \in Envs |-> 0]

(***************************************************************************)
(* The action: queue, decoding.                                            *)
(***************************************************************************)
(* push: what leaves the queue for a joint, and the queue after it. *)
Delivered(e, j, a) == IF Delay(j) > 0 THEN history[e][Delay(j)] ELSE a

Pushed(e, a) == [i \in 1..History |-> IF i = 1 THEN a ELSE history[e][i - 1]]

(* position_targets *)
PositionTarget(a, measured, commanded) ==
  Clamp(CASE ControlMode = "integrated_delta_position" -> commanded + a * Scale
          [] ControlMode = "measured_delta_position" -> measured + a * Scale
          [] OTHER -> IF a >= 0 THEN Grasp + a * (Upper - Grasp) ELSE Grasp + a * (Grasp - Lower),
        Lower, Upper)

(* Where a joint may be measured, if the mode asks. *)
Measured == IF ControlMode = "measured_delta_position" THEN Lower..Upper ELSE {Grasp}

PrePhysics ==
  /\ phase = "policy" /\ phase' = "physics"
  /\ \E raw \in [Envs -> Actions], measured \in [Envs -> [Joints -> Measured]] :
       LET a == [e \in Envs |-> Clamp(raw[e], -1, 1)] IN
       /\ applied' = [e \in Envs |-> [j \in Joints |-> Delivered(e, j, a[e])]]
       /\ history' = [e \in Envs |-> Pushed(e, a[e])]
       /\ command' = [e \in Envs |-> [j \in Joints |->
             PositionTarget(Delivered(e, j, a[e]), measured[e][j], command[e][j])]]
       /\ taken' = [e \in Envs |-> [taken[e] EXCEPT ![count[e]] = a[e]]]
  /\ count' = [e \in Envs |-> count[e] + 1]
  /\ UNCHANGED <<length, error, fallen, successVars, streak, bonuses, fresh>>

(***************************************************************************)
(* The step's end: dones, rewards, resets.                                 *)
(***************************************************************************)
(* The simulator moves the cube; _get_dones sees whether it fell. *)
Physics ==
  /\ phase = "physics" /\ phase' = "rewards"
  /\ length' = [e \in Envs |-> length[e] + 1]
  /\ error' \in [Envs -> Errors] /\ fallen' \in [Envs -> BOOLEAN]
  /\ UNCHANGED <<queueVars, successVars, ghosts>>

TimedOut(e) == length[e] >= MaxLength - 1

(* Mutant of SuccessStart: the first step whose action is still on its way *)
(* counts.                                                                 *)
SuccessStartEarly == LongestDelay

SuccessStart == LongestDelay + 1

InTolerance(e) ==
  /\ error[e] <= Tolerance /\ ~fallen[e]
  /\ length[e] >= SuccessStart /\ eligible[e]

(* HeldSuccessTracker.update *)
Held(e) == IF InTolerance(e) THEN consecutive[e] + 1 ELSE 0

FirstSuccess(e) == Held(e) >= Required /\ ~succeeded[e]

(* The cube is held in this step, and every joint has its policy's action. *)
HeldByPolicy(e) ==
  /\ error[e] <= Tolerance /\ ~fallen[e]
  /\ \A j \in Joints : count[e] > Delay(j)

Rewards ==
  /\ phase = "rewards"
  /\ phase' = IF \E e \in Envs : fallen[e] \/ TimedOut(e) THEN "resets" ELSE "policy"
  /\ consecutive' = [e \in Envs |-> Held(e)]
  /\ succeeded' = [e \in Envs |-> succeeded[e] \/ FirstSuccess(e)]
  /\ bonuses' = [e \in Envs |-> bonuses[e] + IF FirstSuccess(e) THEN 1 ELSE 0]
  /\ streak' = [e \in Envs |-> IF HeldByPolicy(e) THEN streak[e] + 1 ELSE 0]
  /\ UNCHANGED <<queueVars, length, error, fallen, eligible, count, taken, fresh>>

(* Mutant of ClearedHistory: the queue outlives the episode. *)
ClearedHistoryNot(ids) == history

(* action_queue.reset *)
ClearedHistory(ids) ==
  [e \in Envs |-> IF e \in ids THEN [i \in 1..History |-> 0] ELSE history[e]]

ClearedSuccess(ids) ==
  /\ consecutive' = [e \in Envs |-> IF e \in ids THEN 0 ELSE consecutive[e]]
  /\ succeeded' = [e \in Envs |-> succeeded[e] /\ e \notin ids]

(* _reset_idx of the environments that are done, and of no other. *)
Reset ==
  LET ids == { e \in Envs : fallen[e] \/ TimedOut(e) }
      Anew(f, x) == [e \in Envs |-> IF e \in ids THEN x ELSE f[e]]
  IN
  /\ phase = "resets" /\ phase' = "policy"
  /\ history' = ClearedHistory(ids)
  /\ applied' = Anew(applied, [j \in Joints |-> 0])
  /\ command' = Anew(command, [j \in Joints |-> Grasp])
  /\ length' = Anew(length, 0)
  /\ \E goal \in [ids -> GoalErrors] :
       /\ error' = [e \in Envs |-> IF e \in ids THEN goal[e] ELSE error[e]]
       /\ eligible' = [e \in Envs |-> IF e \in ids THEN goal[e] >= Tolerance ELSE eligible[e]]
  /\ ClearedSuccess(ids)
  /\ count' = Anew(count, 0) /\ taken' = Anew(taken, [i \in 0..MaxLength |-> 0])
  /\ streak' = Anew(streak, 0) /\ bonuses' = Anew(bonuses, 0) /\ fresh' = Anew(fresh, TRUE)
  /\ UNCHANGED fallen

Next == PrePhysics \/ Physics \/ Rewards \/ Reset

Spec == Init /\ [][Next]_vars

-----------------------------------------------------------------------------

TypeOK ==
  /\ phase \in {"policy", "physics", "rewards", "resets"}
  /\ history \in [Envs -> [1..History -> -1..1]]
  /\ applied \in [Envs -> [Joints -> -1..1]]
  /\ command \in [Envs -> [Joints -> Lower..Upper]]
  /\ length \in [Envs -> 0..MaxLength] /\ error \in [Envs -> Errors]
  /\ fallen \in [Envs -> BOOLEAN] /\ eligible \in [Envs -> BOOLEAN]
  /\ consecutive \in [Envs -> Nat] /\ succeeded \in [Envs -> BOOLEAN]
  /\ count \in [Envs -> 0..MaxLength] /\ taken \in [Envs -> [0..MaxLength -> -1..1]]
  /\ streak \in [Envs -> Nat] /\ bonuses \in [Envs -> Nat]
  /\ fresh \in [Envs -> BOOLEAN]

(* A joint is driven by exactly the action that the policy took, in this   *)
(* episode, its delay ago; by none before that, whatever was on its way    *)
(* when the episode before it ended (ActionDelayQueue: "push(a[t]) returns *)
(* a[t-D]").                                                               *)
DeliveredOnTime ==
  \A e \in Envs, j \in Joints :
    applied[e][j] = IF count[e] > Delay(j) THEN taken[e][count[e] - 1 - Delay(j)] ELSE 0

(* The bonus is paid once an episode, and in one that began with a reset   *)
(* only for a cube that was held for the required steps while every joint  *)
(* was driven by the policy.  Training shifts the length of the first      *)
(* episodes at random; of these the second half does not hold.             *)
BonusIsEarned ==
  [][\A e \in Envs : bonuses'[e] > bonuses[e] =>
       bonuses[e] = 0 /\ (fresh[e] => streak'[e] >= Required)]_vars
=============================================================================
