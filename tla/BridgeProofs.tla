---------------------------- MODULE BridgeProofs -----------------------------
(***************************************************************************)
(* What Bridge guarantees for all timeouts and every grace time.           *)
(*                                                                         *)
(* The inductive invariant IInv has four parts besides the types.  Roles   *)
(* says who may be active: no pause without an armed output, no recovery   *)
(* with one.  Watched says what the output timer has made sure of in this  *)
(* tick, Timed how old a pause may be before and after that timer runs,    *)
(* and Ready what an output that is armed and not paused would send.       *)
(***************************************************************************)
EXTENDS Bridge, TLAPS

Roles ==
  /\ grace => armed
  /\ armed => command # "none"
  /\ recoveryPending <=> worker # "idle"
  /\ recoveryPending => ~armed
  /\ ~armed => servo = "silent"

Watched ==
  node = "up" /\ armed /\ ~grace /\ ~sendDue => FreshTracking /\ FreshCommand

Timed ==
  /\ pausedFor = graceAge
  /\ ~grace => graceAge = 0
  /\ RequireTracking =>
       /\ graceAge <= Grace + 1
       /\ node = "up" /\ ~sendDue => graceAge <= Grace

Ready ==
  /\ command # "preFault"
  /\ armed /\ ~grace => command = "live" /\ shaper \in {"anchored", "moving"}

IInv == TypeOK /\ Roles /\ Watched /\ Timed /\ Ready

-----------------------------------------------------------------------------

(* The initial state satisfies every part of the invariant. *)
LEMMA InitInvariant == Init => IInv
<1> SUFFICES ASSUME Init PROVE IInv
  OBVIOUS
<1>1. /\ command \in Command /\ shaper \in Shaper /\ worker \in WorkerState
      /\ servo \in Servo /\ hand \in Hand /\ node \in NodeState
  BY DEF Init, Command, Shaper, WorkerState, Servo, Hand, NodeState
<1>2. trackingOk \in BOOLEAN
  BY DEF Init
<1>3. /\ graceAge \in 0..Grace + 2 /\ pausedFor \in 0..Grace + 2
      /\ trackAge \in 0..TrackingTimeout + 1
      /\ cmdAge \in 0..CommandTimeout + 1 /\ stateDue \in 0..2
  BY ParameterAssumption DEF Init
<1>4. TypeOK
  BY <1>1, <1>2, <1>3 DEF Init, TypeOK
<1>5. Timed
  BY ParameterAssumption DEF Init, Timed
<1>6. Roles /\ Watched /\ Ready
  BY DEF Init, Roles, Watched, Ready
<1> QED BY <1>4, <1>5, <1>6 DEF IInv

(* The types of the variables that describe arming and pausing. *)
ArmTyped ==
  /\ armed \in BOOLEAN /\ grace \in BOOLEAN /\ waiting \in BOOLEAN
  /\ graceAge \in 0..Grace + 2 /\ pausedFor \in 0..Grace + 2

(* Leaving a pause resets its flags and its ages. *)
LEMMA LeaveGraceType ==
  ASSUME LeaveGrace, armed' \in BOOLEAN
  PROVE  ArmTyped'
<1>1. grace' \in BOOLEAN /\ waiting' \in BOOLEAN
  BY DEF LeaveGrace
<1>2. graceAge' \in 0..Grace + 2 /\ pausedFor' \in 0..Grace + 2
  BY ParameterAssumption DEF LeaveGrace
<1> QED BY <1>1, <1>2 DEF ArmTyped

(* Disarm leaves everything it writes typed. *)
LEMMA DisarmType ==
  ASSUME TypeOK, Disarm
  PROVE  ArmTyped' /\ shaper' \in Shaper /\ servo' \in Servo
<1>1. ArmTyped'
  BY LeaveGraceType DEF Disarm
<1>2. shaper' \in Shaper /\ servo' \in Servo
  BY DEF Disarm, TypeOK, Shaper, Servo
<1> QED BY <1>1, <1>2

(* EnterGrace leaves everything it writes typed. *)
LEMMA EnterGraceType ==
  ASSUME TypeOK, EnterGrace
  PROVE  /\ ArmTyped' /\ shaper' \in Shaper /\ servo' \in Servo
         /\ command' \in Command
<1>1. armed' \in BOOLEAN /\ grace' \in BOOLEAN /\ waiting' \in BOOLEAN
  BY DEF EnterGrace, TypeOK
<1>2. graceAge' \in 0..Grace + 2 /\ pausedFor' \in 0..Grace + 2
  BY ParameterAssumption DEF EnterGrace, TypeOK
<1>3. shaper' \in Shaper /\ command' \in Command
  BY DEF EnterGrace, TypeOK, Shaper, Command
<1>4. servo' \in Servo
  BY DEF EnterGrace, TypeOK
<1> QED BY <1>1, <1>2, <1>3, <1>4 DEF ArmTyped

(* Every action keeps the types: the ages stay within their bounds. *)
LEMMA TypeStep ==
  ASSUME TypeOK, [Next]_vars
  PROVE  TypeOK'
<1> USE DEF armVars, inputVars, workVars, timerVars
<1>a. ArmTyped
  BY DEF TypeOK, ArmTyped
<1>c. /\ 0 \in 0..CommandTimeout + 1
      /\ CommandTimeout + 1 \in 0..CommandTimeout + 1
  BY ParameterAssumption
<1>t. 0 \in 0..TrackingTimeout + 1
  BY ParameterAssumption
<1>u. CASE UNCHANGED vars
  BY <1>u DEF vars, TypeOK
<1>1. CASE OnCommandStored
  <2>1. command' \in Command
    BY <1>1 DEF OnCommandStored, Command
  <2> QED BY <1>1, <1>c, <2>1 DEF OnCommandStored, TypeOK
<1>2. CASE OnCommandResumes
  <2>1. command' \in Command /\ shaper' \in Shaper
    BY <1>2 DEF OnCommandResumes, BeginBlend, Command, Shaper
  <2>2. ArmTyped'
    BY <1>2, LeaveGraceType DEF OnCommandResumes, TypeOK
  <2> QED BY <1>2, <1>c, <2>1, <2>2 DEF OnCommandResumes, TypeOK, ArmTyped
<1>3. CASE OnCommandExpires
  <2>1. command' \in Command
    BY <1>3 DEF OnCommandExpires, Command
  <2>2. Disarm
    BY <1>3 DEF OnCommandExpires
  <2> QED
    BY <1>3, <1>c, <2>1, <2>2, DisarmType
       DEF OnCommandExpires, TypeOK, ArmTyped
<1>4. CASE OnTrackingOk
  <2>1. ArmTyped' /\ shaper' \in Shaper /\ servo' \in Servo
    <3>1. CASE armed /\ grace /\ GraceOver
      BY <1>4, <3>1, DisarmType DEF OnTrackingOk
    <3>2. CASE ~(armed /\ grace /\ GraceOver)
      <4>1. waiting' \in BOOLEAN
        BY <1>4, <3>2 DEF OnTrackingOk
      <4> QED
        BY <1>4, <3>2, <4>1, <1>a DEF OnTrackingOk, ArmTyped, TypeOK
    <3> QED BY <3>1, <3>2
  <2> QED BY <1>4, <1>t, <2>1 DEF OnTrackingOk, TypeOK, ArmTyped
<1>5. CASE OnTrackingLost
  <2>1. ArmTyped' /\ shaper' \in Shaper /\ servo' \in Servo
          /\ command' \in Command
    <3>1. CASE EnterGrace
      BY <3>1, EnterGraceType
    <3>2. CASE ~EnterGrace
      BY <1>5, <3>2, <1>a DEF OnTrackingLost, ArmTyped, TypeOK
    <3> QED BY <3>1, <3>2
  <2> QED BY <1>5, <1>t, <2>1 DEF OnTrackingLost, TypeOK, ArmTyped
<1>6. CASE OnEnable
  <2>1. command' \in Command
    BY <1>6 DEF OnEnable, Preflight, Command, TypeOK
  <2>2. shaper' \in Shaper
    BY <1>6 DEF OnEnable, Preflight, BeginBlend, Shaper
  <2>3. ArmTyped'
    BY <1>6, LeaveGraceType DEF OnEnable
  <2> QED BY <1>6, <2>1, <2>2, <2>3 DEF OnEnable, TypeOK, ArmTyped
<1>7. CASE OnDisable
  <2>1. Disarm
    BY <1>7 DEF OnDisable
  <2> QED BY <1>7, <2>1, DisarmType DEF OnDisable, TypeOK, ArmTyped
<1>8. CASE OnRecover
  <2>1. command' \in Command /\ shaper' \in Shaper /\ servo' \in Servo
          /\ worker' \in WorkerState
    BY <1>8 DEF OnRecover, Command, Shaper, Servo, WorkerState
  <2>2. ArmTyped'
    BY <1>8, LeaveGraceType DEF OnRecover
  <2> QED BY <1>8, <1>c, <2>1, <2>2 DEF OnRecover, TypeOK, ArmTyped
<1>9. CASE OnRecoverReturns
  <2>1. worker' \in WorkerState
    BY <1>9 DEF OnRecoverReturns, WorkerState
  <2> QED BY <1>9, <2>1 DEF OnRecoverReturns, TypeOK
<1>10. CASE WorkerRestarts
  <2>1. worker' \in WorkerState /\ hand' \in Hand
    BY <1>10 DEF WorkerRestarts, WorkerState, Hand
  <2> QED BY <1>10, <2>1 DEF WorkerRestarts, TypeOK
<1>11. CASE WorkerReseeds
  <2>1. worker' \in WorkerState /\ shaper' \in Shaper
    BY <1>11 DEF WorkerReseeds, WorkerState, Shaper
  <2> QED BY <1>11, <2>1 DEF WorkerReseeds, TypeOK
<1>12. CASE SendLatest
  <2>0. SendTimer
    BY <1>12 DEF SendLatest
  <2>1. CASE SendNothing
    BY <2>0, <2>1 DEF SendTimer, SendNothing, TypeOK
  <2>2. CASE SendLosesTracking
    BY <2>0, <2>2, EnterGraceType
       DEF SendTimer, SendLosesTracking, TypeOK, ArmTyped
  <2>3. CASE SendPaused
    <3>1. CASE GraceOver
      <4>1. Disarm
        BY <2>3, <3>1 DEF SendPaused
      <4> QED
        BY <2>0, <2>3, <4>1, DisarmType
           DEF SendTimer, SendPaused, TypeOK, ArmTyped
    <3>2. CASE ~GraceOver
      BY <2>0, <2>3, <3>2 DEF SendTimer, SendPaused, TypeOK
    <3> QED BY <3>1, <3>2
  <2>4. CASE SendFails
    BY <2>0, <2>4, DisarmType DEF SendTimer, SendFails, TypeOK, ArmTyped
  <2>5. CASE SendBelowStep
    <3>1. shaper' \in Shaper
      BY <2>5 DEF SendBelowStep, Shaper
    <3> QED BY <2>0, <2>5, <3>1 DEF SendTimer, SendBelowStep, TypeOK
  <2>6. CASE SendAccepted
    <3>1. shaper' \in Shaper /\ servo' \in Servo
      BY <2>6 DEF SendAccepted, Shaper, Servo
    <3> QED BY <2>0, <2>6, <3>1 DEF SendTimer, SendAccepted, TypeOK
  <2> QED BY <1>12, <2>1, <2>2, <2>3, <2>4, <2>5, <2>6 DEF SendLatest
<1>13. CASE PublishState
  <2>1. ArmTyped' /\ shaper' \in Shaper /\ servo' \in Servo
    <3>1. CASE Disarm
      BY <3>1, DisarmType
    <3>2. CASE ~Disarm
      BY <1>13, <3>2, <1>a DEF PublishState, ArmTyped, TypeOK
    <3> QED BY <3>1, <3>2
  <2> QED BY <1>13, <2>1 DEF PublishState, TypeOK, ArmTyped
<1>14. CASE HandChanges
  <2>1. hand' \in Hand
    BY <1>14 DEF HandChanges, Hand
  <2> QED BY <1>14, <2>1 DEF HandChanges, TypeOK
<1>15. CASE Tick
  BY <1>15, ParameterAssumption DEF Tick, Aged, TypeOK
<1>16. CASE DestroyNode
  <2>1. node' \in NodeState /\ servo' \in Servo
    BY <1>16 DEF DestroyNode, NodeState, Servo, TypeOK
  <2> QED BY <1>16, <2>1 DEF DestroyNode, TypeOK
<1> QED
  BY <1>u, <1>1, <1>2, <1>3, <1>4, <1>5, <1>6, <1>7, <1>8, <1>9, <1>10, <1>11,
     <1>12, <1>13, <1>14, <1>15, <1>16 DEF Next, OnCommand, OnTracking, Worker

(* Pause, recovery and silence keep to the states of the output they belong
   to. *)
LEMMA RolesStep ==
  ASSUME TypeOK, Roles, [Next]_vars
  PROVE  Roles'
<1>u. CASE UNCHANGED vars
  BY <1>u DEF vars, armVars, inputVars, workVars, timerVars, Roles
<1>1. CASE OnCommandStored
  BY <1>1 DEF OnCommandStored, ResumeWanted, armVars, inputVars, workVars,
    timerVars, Roles
<1>2. CASE OnCommandResumes
  BY <1>2 DEF OnCommandResumes, ResumeWanted, BeginBlend, LeaveGrace, armVars,
    inputVars, workVars, timerVars, Roles
<1>3. CASE OnCommandExpires
  BY <1>3 DEF OnCommandExpires, ResumeWanted, Disarm, LeaveGrace, armVars,
    inputVars, workVars, timerVars, Roles
<1>4. CASE OnTrackingOk
  BY <1>4 DEF OnTrackingOk, Disarm, LeaveGrace, armVars, inputVars, workVars,
    timerVars, Roles
<1>5. CASE OnTrackingLost
  BY <1>5 DEF OnTrackingLost, EnterGrace, armVars, inputVars, workVars,
    timerVars, Roles
<1>6. CASE OnEnable
  BY <1>6 DEF OnEnable, Preflight, BeginBlend, LeaveGrace, armVars, inputVars, workVars,
    timerVars, Roles, TypeOK
<1>7. CASE OnDisable
  BY <1>7 DEF OnDisable, Disarm, LeaveGrace, armVars, inputVars, workVars,
    timerVars, Roles
<1>8. CASE OnRecover
  BY <1>8 DEF OnRecover, LeaveGrace, armVars, inputVars, workVars, timerVars,
    Roles
<1>9. CASE OnRecoverReturns
  BY <1>9 DEF OnRecoverReturns, armVars, inputVars, workVars, timerVars,
    Roles, TypeOK, WorkerState
<1>10. CASE WorkerRestarts
  BY <1>10 DEF WorkerRestarts, armVars, inputVars, workVars, timerVars, Roles,
    TypeOK, WorkerState
<1>11. CASE WorkerReseeds
  BY <1>11 DEF WorkerReseeds, armVars, inputVars, workVars, timerVars, Roles
<1>12. CASE SendLatest
  <2>0. SendTimer BY <1>12 DEF SendLatest
  <2>1. CASE SendNothing
    BY <2>0, <2>1 DEF SendNothing, SendTimer, Sending, armVars, inputVars,
      workVars, timerVars, Roles
  <2>2. CASE SendLosesTracking
    BY <2>0, <2>2 DEF SendLosesTracking, SendTimer, Sending, EnterGrace,
      armVars, inputVars, workVars, timerVars, Roles
  <2>3. CASE SendPaused
    BY <2>0, <2>3 DEF SendPaused, SendTimer, Sending, Disarm, LeaveGrace,
      armVars, inputVars, workVars, timerVars, Roles
  <2>4. CASE SendFails
    BY <2>0, <2>4 DEF SendFails, SendTimer, Disarm, LeaveGrace, armVars,
      inputVars, workVars, timerVars, Roles
  <2>5. CASE SendBelowStep
    BY <2>0, <2>5 DEF SendBelowStep, SendTimer, armVars, inputVars, workVars,
      timerVars, Roles
  <2>6. CASE SendAccepted
    BY <2>0, <2>6 DEF SendAccepted, SendTimer, armVars, inputVars, workVars,
      timerVars, Roles, MaySend, Sending
  <2> QED BY <1>12, <2>1, <2>2, <2>3, <2>4, <2>5, <2>6 DEF SendLatest
<1>13. CASE PublishState
  BY <1>13 DEF PublishState, Disarm, LeaveGrace, armVars, inputVars, workVars,
    timerVars, Roles
<1>14. CASE HandChanges
  BY <1>14 DEF HandChanges, armVars, inputVars, workVars, timerVars, Roles
<1>15. CASE Tick
  BY <1>15 DEF Tick, Aged, armVars, inputVars, workVars, timerVars, Roles
<1>16. CASE DestroyNode
  BY <1>16 DEF DestroyNode, armVars, inputVars, workVars, timerVars, Roles
<1> QED BY <1>u, <1>1, <1>2, <1>3, <1>4, <1>5, <1>6, <1>7, <1>8, <1>9, <1>10,
  <1>11, <1>12, <1>13, <1>14, <1>15, <1>16 DEF Next, OnCommand, OnTracking,
  Worker

(* After the output timer has run, what is armed and not paused is fresh. *)
LEMMA WatchedStep ==
  ASSUME TypeOK, Roles, Watched, [Next]_vars
  PROVE  Watched'
<1>u. CASE UNCHANGED vars
  BY <1>u DEF vars, armVars, inputVars, workVars, timerVars, Watched,
    FreshTracking, FreshCommand
<1>1. CASE OnCommandStored
  BY <1>1, ParameterAssumption DEF OnCommandStored, ResumeWanted, armVars,
    inputVars, workVars, timerVars, Watched, FreshTracking, FreshCommand,
    TypeOK, Roles
<1>2. CASE OnCommandResumes
  BY <1>2, ParameterAssumption DEF OnCommandResumes, ResumeWanted, BeginBlend,
    LeaveGrace, armVars, inputVars, workVars, timerVars, Watched,
    FreshTracking, FreshCommand, TypeOK, Roles
<1>3. CASE OnCommandExpires
  BY <1>3, ParameterAssumption DEF OnCommandExpires, ResumeWanted, Disarm,
    LeaveGrace, armVars, inputVars, workVars, timerVars, Watched,
    FreshTracking, FreshCommand
<1>4. CASE OnTrackingOk
  <2>1. CASE armed /\ grace /\ GraceOver
    BY <1>4, <2>1 DEF OnTrackingOk, Disarm, Watched
  <2>2. CASE ~(armed /\ grace /\ GraceOver)
    <3>1. FreshTracking'
      BY <1>4, <2>2, ParameterAssumption DEF OnTrackingOk, FreshTracking
    <3>2. UNCHANGED <<armed, grace, sendDue, node, cmdAge>>
      BY <1>4, <2>2 DEF OnTrackingOk, timerVars
    <3> QED BY <3>1, <3>2 DEF Watched, FreshCommand
  <2> QED BY <2>1, <2>2
<1>5. CASE OnTrackingLost
  BY <1>5, ParameterAssumption DEF OnTrackingLost, EnterGrace, armVars,
    inputVars, workVars, timerVars, Watched, FreshTracking, FreshCommand,
    TypeOK, Roles
<1>6. CASE OnEnable
  BY <1>6, ParameterAssumption DEF OnEnable, Preflight, BeginBlend, LeaveGrace, armVars,
    inputVars, workVars, timerVars, Watched, FreshTracking, FreshCommand,
    InputsFresh
<1>7. CASE OnDisable
  BY <1>7, ParameterAssumption DEF OnDisable, Disarm, LeaveGrace, armVars,
    inputVars, workVars, timerVars, Watched, FreshTracking, FreshCommand
<1>8. CASE OnRecover
  BY <1>8, ParameterAssumption DEF OnRecover, LeaveGrace, armVars, inputVars,
    workVars, timerVars, Watched, FreshTracking, FreshCommand
<1>9. CASE OnRecoverReturns
  BY <1>9, ParameterAssumption DEF OnRecoverReturns, armVars, inputVars,
    workVars, timerVars, Watched, FreshTracking, FreshCommand
<1>10. CASE WorkerRestarts
  BY <1>10, ParameterAssumption DEF WorkerRestarts, armVars, inputVars,
    workVars, timerVars, Watched, FreshTracking, FreshCommand
<1>11. CASE WorkerReseeds
  BY <1>11, ParameterAssumption DEF WorkerReseeds, armVars, inputVars,
    workVars, timerVars, Watched, FreshTracking, FreshCommand
<1>12. CASE SendLatest
  <2>0. SendTimer BY <1>12 DEF SendLatest
  <2>1. CASE SendNothing
    BY <2>0, <2>1, ParameterAssumption DEF SendNothing, SendTimer, Sending,
      armVars, inputVars, workVars, timerVars, Watched, FreshTracking,
      FreshCommand, Roles
  <2>2. CASE SendLosesTracking
    BY <2>0, <2>2, ParameterAssumption DEF SendLosesTracking, SendTimer,
      Sending, EnterGrace, armVars, inputVars, workVars, timerVars, Watched,
      FreshTracking, FreshCommand
  <2>3. CASE SendPaused
    BY <2>0, <2>3, ParameterAssumption DEF SendPaused, SendTimer, Sending,
      Disarm, LeaveGrace, armVars, inputVars, workVars, timerVars, Watched,
      FreshTracking, FreshCommand
  <2>4. CASE SendFails
    BY <2>0, <2>4, ParameterAssumption DEF SendFails, SendTimer, Disarm,
      LeaveGrace, armVars, inputVars, workVars, timerVars, Watched,
      FreshTracking, FreshCommand, TypeOK, Roles
  <2>5. CASE SendBelowStep
    BY <2>0, <2>5, ParameterAssumption DEF SendBelowStep, SendTimer, armVars,
      inputVars, workVars, timerVars, Watched, FreshTracking, FreshCommand,
      MaySend
  <2>6. CASE SendAccepted
    BY <2>0, <2>6, ParameterAssumption DEF SendAccepted, SendTimer, armVars,
      inputVars, workVars, timerVars, Watched, FreshTracking, FreshCommand,
      MaySend
  <2> QED BY <1>12, <2>1, <2>2, <2>3, <2>4, <2>5, <2>6 DEF SendLatest
<1>13. CASE PublishState
  BY <1>13, ParameterAssumption DEF PublishState, Disarm, LeaveGrace, armVars,
    inputVars, workVars, timerVars, Watched, FreshTracking, FreshCommand
<1>14. CASE HandChanges
  BY <1>14, ParameterAssumption DEF HandChanges, armVars, inputVars, workVars,
    timerVars, Watched, FreshTracking, FreshCommand
<1>15. CASE Tick
  BY <1>15, ParameterAssumption DEF Tick, Aged, armVars, inputVars, workVars,
    timerVars, Watched, FreshTracking, FreshCommand
<1>16. CASE DestroyNode
  BY <1>16, ParameterAssumption DEF DestroyNode, armVars, inputVars, workVars,
    timerVars, Watched, FreshTracking, FreshCommand
<1> QED BY <1>u, <1>1, <1>2, <1>3, <1>4, <1>5, <1>6, <1>7, <1>8, <1>9, <1>10,
  <1>11, <1>12, <1>13, <1>14, <1>15, <1>16 DEF Next, OnCommand, OnTracking,
  Worker

(* A pause is aged by Tick alone and ended by the first timer past the grace
   time. *)
LEMMA TimedStep ==
  ASSUME TypeOK, Roles, Timed, [Next]_vars
  PROVE  Timed'
<1>u. CASE UNCHANGED vars
  BY <1>u DEF vars, armVars, inputVars, workVars, timerVars, Timed
<1>1. CASE OnCommandStored
  BY <1>1, ParameterAssumption DEF OnCommandStored, ResumeWanted, armVars,
    inputVars, workVars, timerVars, Timed
<1>2. CASE OnCommandResumes
  BY <1>2, ParameterAssumption DEF OnCommandResumes, ResumeWanted, BeginBlend,
    LeaveGrace, armVars, inputVars, workVars, timerVars, Timed
<1>3. CASE OnCommandExpires
  BY <1>3, ParameterAssumption DEF OnCommandExpires, ResumeWanted, Disarm,
    LeaveGrace, armVars, inputVars, workVars, timerVars, Timed
<1>4. CASE OnTrackingOk
  BY <1>4, ParameterAssumption DEF OnTrackingOk, Disarm, LeaveGrace, armVars,
    inputVars, workVars, timerVars, Timed
<1>5. CASE OnTrackingLost
  BY <1>5, ParameterAssumption DEF OnTrackingLost, EnterGrace, armVars,
    inputVars, workVars, timerVars, Timed
<1>6. CASE OnEnable
  BY <1>6, ParameterAssumption DEF OnEnable, Preflight, BeginBlend, LeaveGrace, armVars,
    inputVars, workVars, timerVars, Timed
<1>7. CASE OnDisable
  BY <1>7, ParameterAssumption DEF OnDisable, Disarm, LeaveGrace, armVars,
    inputVars, workVars, timerVars, Timed
<1>8. CASE OnRecover
  BY <1>8, ParameterAssumption DEF OnRecover, LeaveGrace, armVars, inputVars,
    workVars, timerVars, Timed
<1>9. CASE OnRecoverReturns
  BY <1>9, ParameterAssumption DEF OnRecoverReturns, armVars, inputVars,
    workVars, timerVars, Timed
<1>10. CASE WorkerRestarts
  BY <1>10, ParameterAssumption DEF WorkerRestarts, armVars, inputVars,
    workVars, timerVars, Timed
<1>11. CASE WorkerReseeds
  BY <1>11, ParameterAssumption DEF WorkerReseeds, armVars, inputVars,
    workVars, timerVars, Timed
<1>12. CASE SendLatest
  <2>0. SendTimer BY <1>12 DEF SendLatest
  <2>1. CASE SendNothing
    BY <2>0, <2>1, ParameterAssumption DEF SendNothing, SendTimer, Sending,
      armVars, inputVars, workVars, timerVars, Timed, Roles
  <2>2. CASE SendLosesTracking
    BY <2>0, <2>2, ParameterAssumption DEF SendLosesTracking, SendTimer,
      Sending, EnterGrace, armVars, inputVars, workVars, timerVars, Timed
  <2>3. CASE SendPaused
    <3>1. CASE GraceOver
      BY <2>0, <2>3, <3>1, ParameterAssumption
         DEF SendPaused, Disarm, LeaveGrace, Timed
    <3>2. CASE ~GraceOver
      <4>1. graceAge <= Grace
        BY <3>2, ParameterAssumption DEF GraceOver, TypeOK
      <4> QED
        BY <2>0, <2>3, <3>2, <4>1 DEF SendPaused, SendTimer, armVars, Timed
    <3> QED BY <3>1, <3>2
  <2>4. CASE SendFails
    BY <2>0, <2>4, ParameterAssumption DEF SendFails, SendTimer, Disarm,
      LeaveGrace, armVars, inputVars, workVars, timerVars, Timed
  <2>5. CASE SendBelowStep
    BY <2>0, <2>5, ParameterAssumption DEF SendBelowStep, SendTimer, armVars,
      inputVars, workVars, timerVars, Timed, MaySend
  <2>6. CASE SendAccepted
    BY <2>0, <2>6, ParameterAssumption DEF SendAccepted, SendTimer, armVars,
      inputVars, workVars, timerVars, Timed, MaySend
  <2> QED BY <1>12, <2>1, <2>2, <2>3, <2>4, <2>5, <2>6 DEF SendLatest
<1>13. CASE PublishState
  BY <1>13, ParameterAssumption DEF PublishState, Disarm, LeaveGrace, armVars,
    inputVars, workVars, timerVars, Timed
<1>14. CASE HandChanges
  BY <1>14, ParameterAssumption DEF HandChanges, armVars, inputVars, workVars,
    timerVars, Timed
<1>15. CASE Tick
  BY <1>15, ParameterAssumption DEF Tick, Aged, armVars, inputVars, workVars,
    timerVars, Timed, TypeOK
<1>16. CASE DestroyNode
  BY <1>16, ParameterAssumption DEF DestroyNode, armVars, inputVars, workVars,
    timerVars, Timed
<1> QED BY <1>u, <1>1, <1>2, <1>3, <1>4, <1>5, <1>6, <1>7, <1>8, <1>9, <1>10,
  <1>11, <1>12, <1>13, <1>14, <1>15, <1>16 DEF Next, OnCommand, OnTracking,
  Worker

(* What is armed and not paused follows a live target from an anchored
   trajectory. *)
LEMMA ReadyStep ==
  ASSUME TypeOK, Roles, Ready, [Next]_vars
  PROVE  Ready'
<1>u. CASE UNCHANGED vars
  BY <1>u DEF vars, armVars, inputVars, workVars, timerVars, Ready
<1>1. CASE OnCommandStored
  BY <1>1 DEF OnCommandStored, ResumeWanted, armVars, inputVars, workVars,
    timerVars, Ready
<1>2. CASE OnCommandResumes
  BY <1>2 DEF OnCommandResumes, ResumeWanted, BeginBlend, LeaveGrace, armVars,
    inputVars, workVars, timerVars, Ready
<1>3. CASE OnCommandExpires
  BY <1>3 DEF OnCommandExpires, ResumeWanted, Disarm, LeaveGrace, armVars,
    inputVars, workVars, timerVars, Ready
<1>4. CASE OnTrackingOk
  BY <1>4 DEF OnTrackingOk, Disarm, LeaveGrace, armVars, inputVars, workVars,
    timerVars, Ready
<1>5. CASE OnTrackingLost
  BY <1>5 DEF OnTrackingLost, EnterGrace, armVars, inputVars, workVars,
    timerVars, Ready
<1>6. CASE OnEnable
  BY <1>6 DEF OnEnable, Preflight, BeginBlend, LeaveGrace, armVars, inputVars, workVars,
    timerVars, Ready, TypeOK, Command
<1>7. CASE OnDisable
  BY <1>7 DEF OnDisable, Disarm, LeaveGrace, armVars, inputVars, workVars,
    timerVars, Ready
<1>8. CASE OnRecover
  BY <1>8 DEF OnRecover, LeaveGrace, armVars, inputVars, workVars, timerVars,
    Ready
<1>9. CASE OnRecoverReturns
  BY <1>9 DEF OnRecoverReturns, armVars, inputVars, workVars, timerVars, Ready
<1>10. CASE WorkerRestarts
  BY <1>10 DEF WorkerRestarts, armVars, inputVars, workVars, timerVars, Ready
<1>11. CASE WorkerReseeds
  BY <1>11 DEF WorkerReseeds, armVars, inputVars, workVars, timerVars, Ready,
    Roles, TypeOK
<1>12. CASE SendLatest
  <2>0. SendTimer BY <1>12 DEF SendLatest
  <2>1. CASE SendNothing
    BY <2>0, <2>1 DEF SendNothing, SendTimer, Sending, armVars, inputVars,
      workVars, timerVars, Ready
  <2>2. CASE SendLosesTracking
    BY <2>0, <2>2 DEF SendLosesTracking, SendTimer, Sending, EnterGrace,
      armVars, inputVars, workVars, timerVars, Ready
  <2>3. CASE SendPaused
    BY <2>0, <2>3 DEF SendPaused, SendTimer, Sending, Disarm, LeaveGrace,
      armVars, inputVars, workVars, timerVars, Ready
  <2>4. CASE SendFails
    BY <2>0, <2>4 DEF SendFails, SendTimer, Disarm, LeaveGrace, armVars,
      inputVars, workVars, timerVars, Ready
  <2>5. CASE SendBelowStep
    BY <2>0, <2>5 DEF SendBelowStep, SendTimer, armVars, inputVars, workVars,
      timerVars, Ready, MaySend
  <2>6. CASE SendAccepted
    BY <2>0, <2>6 DEF SendAccepted, SendTimer, armVars, inputVars, workVars,
      timerVars, Ready, MaySend
  <2> QED BY <1>12, <2>1, <2>2, <2>3, <2>4, <2>5, <2>6 DEF SendLatest
<1>13. CASE PublishState
  BY <1>13 DEF PublishState, Disarm, LeaveGrace, armVars, inputVars, workVars,
    timerVars, Ready
<1>14. CASE HandChanges
  BY <1>14 DEF HandChanges, armVars, inputVars, workVars, timerVars, Ready
<1>15. CASE Tick
  BY <1>15 DEF Tick, Aged, armVars, inputVars, workVars, timerVars, Ready
<1>16. CASE DestroyNode
  BY <1>16 DEF DestroyNode, armVars, inputVars, workVars, timerVars, Ready
<1> QED BY <1>u, <1>1, <1>2, <1>3, <1>4, <1>5, <1>6, <1>7, <1>8, <1>9, <1>10,
  <1>11, <1>12, <1>13, <1>14, <1>15, <1>16 DEF Next, OnCommand, OnTracking,
  Worker

-----------------------------------------------------------------------------

(* The inductive invariant of the bridge holds in every reachable state, for
   all timeouts, any grace time and with tracking required or not. *)
THEOREM InductiveInvariant == Spec => []IInv
<1>1. Init => IInv
  BY InitInvariant
<1>2. IInv /\ [Next]_vars => IInv'
  BY TypeStep, RolesStep, WatchedStep, TimedStep, ReadyStep DEF IInv
<1> QED BY <1>1, <1>2, PTL DEF Spec

(* The bridge's state is well-typed: no age runs past its bound. *)
THEOREM TypeCorrect == Spec => []TypeOK
<1>1. IInv => TypeOK
  BY DEF IInv
<1> QED BY <1>1, InductiveInvariant, PTL

(* An armed, unpaused output has fresh inputs once the output timer of this
   tick has run. *)
THEOREM InputsAreWatched == Spec => []ArmedInputsFresh
<1>1. IInv => ArmedInputsFresh
  BY DEF IInv, Watched, ArmedInputsFresh
<1> QED BY <1>1, InductiveInvariant, PTL

(* Whatever disarms the output also silences the hand. *)
THEOREM DisarmSilences == Spec => []DisarmedIsSilent
<1>1. IInv => DisarmedIsSilent
  BY DEF IInv, Roles, DisarmedIsSilent
<1> QED BY <1>1, InductiveInvariant, PTL

(* With tracking required, no pattern of losses keeps a pause alive for more
   than one timer period beyond the grace time. *)
THEOREM PausesAreBounded ==
  ASSUME RequireTracking
  PROVE  Spec => []GraceBounded
<1>1. IInv => GraceBounded
  BY DEF IInv, Timed, GraceBounded
<1> QED BY <1>1, InductiveInvariant, PTL

(* A recovery never shares the session or the shaper with a moving output. *)
THEOREM RecoveriesAreMotionFree == Spec => []RecoveryIsMotionFree
<1>1. IInv => RecoveryIsMotionFree
  BY DEF IInv, Roles, RecoveryIsMotionFree
<1> QED BY <1>1, InductiveInvariant, PTL

(* A setpoint is only ever accepted by the output timer past its tests. *)
LEMMA OnlySendMoves ==
  ASSUME [Next]_vars, output' # output
  PROVE  /\ armed /\ ~(RequireTracking /\ grace) /\ node = "up"
         /\ servo' = "holding" /\ output' = ~output
         /\ UNCHANGED <<armed, grace, recoveryPending, node>>
<1>1. SendLatest
  BY DEF Next, vars, OnCommand, OnTracking, Worker, OnCommandStored,
         OnCommandResumes, OnCommandExpires, OnTrackingOk, OnTrackingLost,
         OnEnable, Preflight, OnDisable, OnRecover, OnRecoverReturns, WorkerRestarts,
         WorkerReseeds, PublishState, HandChanges, Tick, DestroyNode
<1>2. SendTimer /\ SendAccepted
  BY <1>1 DEF SendLatest, SendNothing, SendLosesTracking, SendPaused,
              SendFails, SendBelowStep
<1> QED
  BY <1>2 DEF SendTimer, SendAccepted, MaySend, Sending, armVars, workVars

(* With tracking required, what the hand is sent arrived after the last
   restoration of tracking, or was what the operator armed with, and never
   before a recovery. *)
THEOREM OnlyLiveTargets ==
  ASSUME RequireTracking
  PROVE  Spec => OnlyLiveTargetsSent
<1>1. IInv /\ [Next]_vars => [output' # output => command = "live"]_vars
  BY OnlySendMoves DEF IInv, Ready
<1> QED BY <1>1, InductiveInvariant, PTL DEF Spec, OnlyLiveTargetsSent

(* With tracking required, every motion after a stop starts from feedback. *)
THEOREM MotionStartsFromFeedback ==
  ASSUME RequireTracking
  PROVE  Spec => SendsFromFeedback
<1>1. IInv /\ [Next]_vars
        => [output' # output => shaper \in {"anchored", "moving"}]_vars
  BY OnlySendMoves DEF IInv, Ready
<1> QED BY <1>1, InductiveInvariant, PTL DEF Spec, SendsFromFeedback

(* With tracking required, a pause gives the hand no new setpoint. *)
THEOREM PausesAreQuiet ==
  ASSUME RequireTracking
  PROVE  Spec => GraceIsQuiet
<1>1. [Next]_vars => [grace => output' = output]_vars
  BY OnlySendMoves
<1> QED BY <1>1, PTL DEF Spec, GraceIsQuiet

-----------------------------------------------------------------------------
(* The bridge implements ArmSafety: its initial state is the abstract one and *)
(* every action is an abstract step of the mode or leaves it as it was.      *)

(* The clockless view of an initial bridge is the initial ArmSafety. *)
LEMMA PromiseInit == Init => Promise!Init
BY DEF Init, Promise!Init, Mode

(* What the actions that change neither the output nor the servo may do to
   the mode is read off armed, grace, recoveryPending and node. *)
LEMMA PromiseStutter ==
  ASSUME UNCHANGED <<armed, grace, recoveryPending, node, servo, output>>
  PROVE  UNCHANGED Promise!vars
BY DEF Promise!vars, Mode

(* Disarm is the abstract Disarm, or nothing if the output is disarmed. *)
LEMMA PromiseDisarm ==
  ASSUME Roles, node = "up", Disarm,
         UNCHANGED <<recoveryPending, node, output>>
  PROVE  [Promise!Next]_(Promise!vars)
BY DEF Roles, Disarm, LeaveGrace, Mode, Promise!Next, Promise!Disarm,
       Promise!vars

(* EnterGrace is the abstract Pause. *)
LEMMA PromisePause ==
  ASSUME Roles, node = "up", EnterGrace,
         UNCHANGED <<recoveryPending, node, output>>
  PROVE  Promise!Pause
BY DEF Roles, EnterGrace, Mode, Promise!Pause

(* Every step of the bridge is a step or a stutter of ArmSafety. *)
LEMMA PromiseStep ==
  ASSUME RequireTracking, TypeOK, Roles, [Next]_vars
  PROVE  [Promise!Next]_(Promise!vars)
<1> USE DEF armVars, inputVars, workVars, timerVars
<1>u. CASE UNCHANGED vars
  BY <1>u, PromiseStutter DEF vars
<1>1. CASE OnCommandStored
  BY <1>1, PromiseStutter DEF OnCommandStored
<1>2. CASE OnCommandResumes
  <2>1. Promise!Resume
    BY <1>2 DEF OnCommandResumes, ResumeWanted, LeaveGrace, Roles, Mode,
                Promise!Resume
  <2> QED BY <2>1 DEF Promise!Next
<1>3. CASE OnCommandExpires
  BY <1>3, PromiseDisarm DEF OnCommandExpires
<1>4. CASE OnTrackingOk
  BY <1>4, PromiseDisarm, PromiseStutter DEF OnTrackingOk
<1>5. CASE OnTrackingLost
  <2>1. CASE EnterGrace
    BY <1>5, <2>1, PromisePause DEF OnTrackingLost, Promise!Next
  <2>2. CASE ~EnterGrace
    BY <1>5, <2>2, PromiseStutter DEF OnTrackingLost
  <2> QED BY <2>1, <2>2
<1>6. CASE OnEnable
  <2>1. Promise!Arm
    BY <1>6 DEF OnEnable, Preflight, LeaveGrace, Mode, Promise!Arm
  <2> QED BY <2>1 DEF Promise!Next
<1>7. CASE OnDisable
  BY <1>7, PromiseDisarm DEF OnDisable
<1>8. CASE OnRecover
  <2>1. Promise!BeginRecovery
    BY <1>8 DEF OnRecover, LeaveGrace, Roles, Mode, Promise!BeginRecovery
  <2> QED BY <2>1 DEF Promise!Next
<1>9. CASE OnRecoverReturns
  <2>1. Promise!EndRecovery
    BY <1>9 DEF OnRecoverReturns, Roles, Mode, Promise!EndRecovery
  <2> QED BY <2>1 DEF Promise!Next
<1>10. CASE WorkerRestarts
  BY <1>10, PromiseStutter DEF WorkerRestarts
<1>11. CASE WorkerReseeds
  BY <1>11, PromiseStutter DEF WorkerReseeds
<1>12. CASE SendLatest
  <2>0. SendTimer
    BY <1>12 DEF SendLatest
  <2>1. CASE SendNothing
    BY <2>0, <2>1, PromiseStutter DEF SendTimer, SendNothing
  <2>2. CASE SendLosesTracking
    BY <2>0, <2>2, PromisePause
       DEF SendTimer, SendLosesTracking, Promise!Next
  <2>3. CASE SendPaused
    BY <2>0, <2>3, PromiseDisarm, PromiseStutter DEF SendTimer, SendPaused
  <2>4. CASE SendFails
    BY <2>0, <2>4, PromiseDisarm DEF SendTimer, SendFails
  <2>5. CASE SendBelowStep
    BY <2>0, <2>5, PromiseStutter DEF SendTimer, SendBelowStep
  <2>6. CASE SendAccepted
    <3>1. Promise!Move
      BY <2>0, <2>6
         DEF SendTimer, SendAccepted, MaySend, Sending, Roles, Mode,
             Promise!Move
    <3> QED BY <3>1 DEF Promise!Next
  <2> QED BY <1>12, <2>1, <2>2, <2>3, <2>4, <2>5, <2>6 DEF SendLatest
<1>13. CASE PublishState
  BY <1>13, PromiseDisarm, PromiseStutter DEF PublishState
<1>14. CASE HandChanges
  BY <1>14, PromiseStutter DEF HandChanges
<1>15. CASE Tick
  BY <1>15, PromiseStutter DEF Tick
<1>16. CASE DestroyNode
  <2>1. CASE node = "up"
    <3>1. UNCHANGED <<Mode, servo, output>>
      BY <1>16, <2>1 DEF DestroyNode, Mode
    <3> QED BY <3>1 DEF Promise!vars
  <2>2. CASE node # "up"
    <3>1. Promise!TurnOff
      BY <1>16, <2>2 DEF DestroyNode, Mode, Promise!TurnOff
    <3> QED BY <3>1 DEF Promise!Next
  <2> QED BY <2>1, <2>2
<1> QED
  BY <1>u, <1>1, <1>2, <1>3, <1>4, <1>5, <1>6, <1>7, <1>8, <1>9, <1>10, <1>11,
     <1>12, <1>13, <1>14, <1>15, <1>16 DEF Next, OnCommand, OnTracking, Worker

(* With tracking required, the bridge keeps what ArmSafety promises. *)
THEOREM PromiseIsKept ==
  ASSUME RequireTracking
  PROVE  Spec => KeepsPromise
<1>1. IInv /\ [Next]_vars => [Promise!Next]_(Promise!vars)
  BY PromiseStep DEF IInv
<1> QED
  BY <1>1, PromiseInit, InductiveInvariant, PTL
     DEF Spec, KeepsPromise, Promise!Spec

-----------------------------------------------------------------------------
(* The refinement of HandSession: what the bridge does to the session.  The
   requirement of tracking plays no part in it. *)

(* The initial state is an initial state of HandSession. *)
LEMMA SessionInit == Init => Session!Init
BY DEF Init, Session!Init, Session!Health, Health

(* A step that touches neither the hand nor the worker nor the node leaves the
   session alone but for the servo, which it may silence. *)
LEMMA SessionSilences ==
  ASSUME UNCHANGED <<hand, worker, node>>, servo' \in {servo, "silent"}
  PROVE  [Session!Next]_(Session!vars)
<1>1. CASE servo' = servo
  BY <1>1 DEF Session!vars, Health
<1>2. CASE servo' = "silent"
  <2>1. Session!Silence
    BY <1>2 DEF Session!Silence, Health
  <2> QED BY <2>1 DEF Session!Next
<1> QED BY <1>1, <1>2

(* Disarm silences the hand or leaves it as it is. *)
LEMMA DisarmSilencesOrKeeps ==
  ASSUME Disarm
  PROVE  servo' \in {servo, "silent"}
BY DEF Disarm

(* Every step of the bridge is a step or a stutter of HandSession. *)
LEMMA SessionStep ==
  ASSUME TypeOK, Roles, [Next]_vars
  PROVE  [Session!Next]_(Session!vars)
<1> USE DEF armVars, inputVars, workVars, timerVars
<1>u. CASE UNCHANGED vars
  BY <1>u DEF vars, Session!vars, Health
<1>1. CASE OnCommandStored
  BY <1>1, SessionSilences DEF OnCommandStored
<1>2. CASE OnCommandResumes
  BY <1>2, SessionSilences DEF OnCommandResumes
<1>3. CASE OnCommandExpires
  BY <1>3, SessionSilences, DisarmSilencesOrKeeps DEF OnCommandExpires
<1>4. CASE OnTrackingOk
  BY <1>4, SessionSilences, DisarmSilencesOrKeeps DEF OnTrackingOk
<1>5. CASE OnTrackingLost
  BY <1>5, SessionSilences DEF OnTrackingLost, EnterGrace
<1>6. CASE OnEnable
  BY <1>6, SessionSilences DEF OnEnable
<1>7. CASE OnDisable
  BY <1>7, SessionSilences, DisarmSilencesOrKeeps DEF OnDisable
<1>8. CASE OnRecover
  <2>1. Health \in {"ready", "unready", "faulted"}
    BY <1>8 DEF OnRecover, Roles, TypeOK, Hand, Health
  <2>2. Health' = "recovering" /\ servo' = "silent"
    BY <1>8 DEF OnRecover, Health
  <2>3. Session!BeginRecovery
    BY <2>1, <2>2 DEF Session!BeginRecovery
  <2> QED BY <2>3 DEF Session!Next
<1>9. CASE OnRecoverReturns
  <2>1. UNCHANGED <<Health, servo>>
    BY <1>9 DEF OnRecoverReturns, Health
  <2> QED BY <2>1 DEF Session!vars
<1>10. CASE WorkerRestarts
  <2>1. CASE node = "down"
    <3>1. UNCHANGED <<Health, servo>>
      BY <1>10, <2>1 DEF WorkerRestarts, Health
    <3> QED BY <3>1 DEF Session!vars
  <2>2. CASE node # "down"
    <3>1. Session!EndRecovery
      BY <1>10, <2>2 DEF WorkerRestarts, Health, Session!EndRecovery
    <3> QED BY <3>1 DEF Session!Next
  <2> QED BY <2>1, <2>2
<1>11. CASE WorkerReseeds
  <2>1. UNCHANGED <<Health, servo>>
    BY <1>11 DEF WorkerReseeds, Health
  <2> QED BY <2>1 DEF Session!vars
<1>12. CASE SendLatest
  <2>0. SendTimer
    BY <1>12 DEF SendLatest
  <2>1. CASE SendNothing
    BY <2>0, <2>1, SessionSilences DEF SendTimer, SendNothing
  <2>2. CASE SendLosesTracking
    BY <2>0, <2>2, SessionSilences
       DEF SendTimer, SendLosesTracking, EnterGrace
  <2>3. CASE SendPaused
    BY <2>0, <2>3, SessionSilences, DisarmSilencesOrKeeps
       DEF SendTimer, SendPaused
  <2>4. CASE SendFails
    BY <2>0, <2>4, SessionSilences, DisarmSilencesOrKeeps
       DEF SendTimer, SendFails
  <2>5. CASE SendBelowStep
    BY <2>0, <2>5, SessionSilences DEF SendTimer, SendBelowStep
  <2>6. CASE SendAccepted
    <3>1. Health = "ready" /\ UNCHANGED Health
      BY <2>0, <2>6
         DEF SendTimer, SendAccepted, MaySend, Sending, Roles, Health
    <3>2. Session!Accept
      BY <2>6, <3>1 DEF SendAccepted, Session!Accept
    <3> QED BY <3>2 DEF Session!Next
  <2> QED BY <1>12, <2>1, <2>2, <2>3, <2>4, <2>5, <2>6 DEF SendLatest
<1>13. CASE PublishState
  BY <1>13, SessionSilences, DisarmSilencesOrKeeps DEF PublishState
<1>14. CASE HandChanges
  <2>1. Session!Change
    BY <1>14 DEF HandChanges, Health, Session!Change
  <2> QED BY <2>1 DEF Session!Next
<1>15. CASE Tick
  BY <1>15, SessionSilences DEF Tick
<1>16. CASE DestroyNode
  <2>1. CASE node = "up"
    <3>1. UNCHANGED <<Health, servo>>
      BY <1>16, <2>1 DEF DestroyNode, Health
    <3> QED BY <3>1 DEF Session!vars
  <2>2. CASE node # "up"
    <3>1. Health # "off" /\ Health' = "off" /\ servo' = "silent"
      BY <1>16, <2>2 DEF DestroyNode, Health, TypeOK, Hand
    <3>2. Session!Close
      BY <3>1 DEF Session!Close
    <3> QED BY <3>2 DEF Session!Next
  <2> QED BY <2>1, <2>2
<1> QED
  BY <1>u, <1>1, <1>2, <1>3, <1>4, <1>5, <1>6, <1>7, <1>8, <1>9, <1>10, <1>11,
     <1>12, <1>13, <1>14, <1>15, <1>16 DEF Next, OnCommand, OnTracking, Worker

(* The bridge gives setpoints only to a ready session, silences the hand before
   it has the session recovered or closed, and relies on no other session than
   HandSession describes. *)
THEOREM SessionIsCountedOn == Spec => CountsOnSession
<1>1. IInv /\ [Next]_vars => [Session!Next]_(Session!vars)
  BY SessionStep DEF IInv
<1> QED
  BY <1>1, SessionInit, InductiveInvariant, PTL
     DEF Spec, CountsOnSession, Session!Spec

=============================================================================
