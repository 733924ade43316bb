------------------------------- MODULE Bridge --------------------------------
(***************************************************************************)
(* The ROS bridge that decides when the hand may move                      *)
(* (ros_bridge_node.py, with the parts of dg5f.py it drives).              *)
(*                                                                         *)
(* Every callback (topic, service, timer) runs on one executor thread and  *)
(* is one action; recover() alone runs on a worker thread.  Time advances  *)
(* in ticks of the 50 Hz output timer.  The executor serves that timer in  *)
(* every tick and the 30 Hz state timer once in two; other callbacks may   *)
(* come in any order and any number within a tick.                         *)
(*                                                                         *)
(* The native session is seen through its health: "ready" is               *)
(* motion_ready, "unready" a condition that may still heal by itself and   *)
(* "faulted" one that only recover() heals (HandControl models why).       *)
(***************************************************************************)
EXTENDS Naturals

CONSTANTS
  TrackingTimeout,     \* tracking_timeout, in ticks
  CommandTimeout,      \* command_timeout, in ticks
  Grace,               \* tracking_grace_s, in ticks
  RequireTracking      \* require_tracking

ASSUME ParameterAssumption ==
  /\ TrackingTimeout \in Nat /\ CommandTimeout \in Nat /\ Grace \in Nat
  /\ RequireTracking \in BOOLEAN

VARIABLES
  armed,               \* _armed
  grace,               \* _tracking_grace_active
  graceAge,            \* now - _tracking_grace_started
  waiting,             \* _resume_waiting_for_fresh_command
  trackingOk,          \* _tracking_ok
  trackAge,            \* now - _last_tracking_time
  command,             \* where _latest_command_deg comes from
  cmdAge,              \* now - _last_command_time
  recoveryPending,     \* _recovery_pending
  worker,              \* the thread running Dg5f.recover
  shaper,              \* what the command shaper will move from
  servo,               \* does the hand repeat a setpoint, or is it silent
  hand,                \* health of the native session
  sendDue,             \* the output timer has not run in this tick
  stateDue,            \* ticks since the state timer ran
  node,                \* is the node spinning, shutting down or gone
  pausedFor,           \* history: ticks since the output was last paused
  output               \* history: changes with every accepted setpoint

armVars   == <<armed, grace, graceAge, waiting, pausedFor>>
inputVars == <<trackingOk, trackAge, command, cmdAge>>
workVars  == <<recoveryPending, worker>>
timerVars == <<sendDue, stateDue>>

vars == <<armVars, inputVars, workVars, shaper, servo, hand, timerVars, node,
          output>>

\* A target is "live", or "paused" once tracking was lost after it arrived or
\* before it did, or "preFault" once a recovery was requested.
Command == {"none", "live", "paused", "preFault"}

\* The shaper was reset from feedback at connect or recovery, stopped at the
\* last accepted setpoint, reset for a blend, or has moved since.
Shaper == {"reseeded", "held", "anchored", "moving"}

WorkerState == {"idle", "running", "reseed", "ok", "failed"}
Servo       == {"silent", "holding"}
Hand        == {"ready", "unready", "faulted"}
NodeState   == {"up", "closing", "down"}

TypeOK ==
  /\ armed \in BOOLEAN /\ grace \in BOOLEAN /\ waiting \in BOOLEAN
  /\ graceAge \in 0..Grace + 2 /\ pausedFor \in 0..Grace + 2
  /\ trackingOk \in BOOLEAN /\ trackAge \in 0..TrackingTimeout + 1
  /\ command \in Command /\ cmdAge \in 0..CommandTimeout + 1
  /\ recoveryPending \in BOOLEAN /\ worker \in WorkerState
  /\ shaper \in Shaper /\ servo \in Servo /\ hand \in Hand
  /\ sendDue \in BOOLEAN /\ stateDue \in 0..2
  /\ node \in NodeState
  /\ output \in BOOLEAN

\* connect() has seeded the shaper; a time never set counts as timed out.
Init ==
  /\ armed = FALSE /\ grace = FALSE /\ graceAge = 0 /\ waiting = FALSE
  /\ pausedFor = 0
  /\ trackingOk = ~RequireTracking /\ trackAge = TrackingTimeout + 1
  /\ command = "none" /\ cmdAge = CommandTimeout + 1
  /\ recoveryPending = FALSE /\ worker = "idle"
  /\ shaper = "reseeded" /\ servo = "silent" /\ hand = "ready"
  /\ sendDue = FALSE /\ stateDue = 0 /\ node = "up" /\ output = FALSE

-----------------------------------------------------------------------------
(* What the callbacks test and what several of them do. *)

FreshTracking ==
  ~RequireTracking \/ (trackingOk /\ trackAge <= TrackingTimeout)

FreshCommand == cmdAge <= CommandTimeout

\* Mutant of InputsFresh: only the age of the command is tested.
CommandOnlyFresh == FreshCommand

\* _input_failure() is None.
InputsFresh == FreshTracking /\ FreshCommand

GraceOver == graceAge > Grace

\* The time a bounded age has after one more tick.
Aged(age, bound) == IF age < bound THEN age + 1 ELSE age

LeaveGrace ==
  grace' = FALSE /\ graceAge' = 0 /\ waiting' = FALSE /\ pausedFor' = 0

\* Mutant of Disarm: the shaper is paused but the keepalive goes on.
DisarmKeepingServo ==
  /\ armed' = FALSE
  /\ LeaveGrace
  /\ shaper' = IF armed THEN "held" ELSE shaper
  /\ UNCHANGED servo

\* A repeated disarm neither holds nor suspends again.
Disarm ==
  /\ armed' = FALSE
  /\ LeaveGrace
  /\ shaper' = IF armed THEN "held" ELSE shaper
  /\ servo' = IF armed THEN "silent" ELSE servo

\* Entered once per outage: the trajectory stops, the keepalive goes on.
EnterGrace ==
  /\ armed /\ ~grace
  /\ grace' = TRUE /\ graceAge' = 0 /\ waiting' = FALSE
  /\ shaper' = "held"
  /\ command' = IF command = "none" THEN "none" ELSE "paused"
  /\ UNCHANGED <<armed, pausedFor, servo>>

\* Mutant of BeginBlend: the trajectory continues from where it stopped.
BeginBlendUnanchored == UNCHANGED shaper

\* prepare_arm() and begin_arm_blend_from_feedback() succeed.
BeginBlend == shaper' = "anchored"

-----------------------------------------------------------------------------
(* Topics. *)

ResumeWanted == armed /\ grace /\ waiting /\ FreshTracking

\* Nothing waits for the target, or resuming is not possible: tracking is
\* stale again, the hand is not ready or its pose is too old.
OnCommandStored ==
  /\ node = "up"
  /\ ~(ResumeWanted /\ GraceOver)
  /\ command' = IF armed /\ grace THEN "paused" ELSE "live"
  /\ cmdAge' = 0
  /\ UNCHANGED <<armVars, trackingOk, trackAge, workVars, shaper, servo, hand,
                 timerVars, node, output>>

OnCommandResumes ==
  /\ node = "up"
  /\ ResumeWanted /\ ~GraceOver
  /\ hand = "ready"
  /\ command' = "live" /\ cmdAge' = 0
  /\ BeginBlend
  /\ LeaveGrace
  /\ UNCHANGED <<armed, trackingOk, trackAge, workVars, servo, hand, timerVars,
                 node, output>>

OnCommandExpires ==
  /\ node = "up"
  /\ ResumeWanted /\ GraceOver
  /\ command' = "paused" /\ cmdAge' = 0
  /\ Disarm
  /\ UNCHANGED <<trackingOk, trackAge, workVars, hand, timerVars, node,
                 output>>

OnTrackingOk ==
  /\ node = "up"
  /\ trackingOk' = TRUE /\ trackAge' = 0
  /\ IF armed /\ grace /\ GraceOver
       THEN Disarm
       ELSE /\ waiting' = (waiting \/ (armed /\ grace))
            /\ UNCHANGED <<armed, grace, graceAge, pausedFor, shaper, servo>>
  /\ UNCHANGED <<command, cmdAge, workVars, hand, timerVars, node, output>>

\* Mutant of OnTrackingLost: every loss starts the grace period again.
OnTrackingLostAgain ==
  /\ node = "up"
  /\ trackingOk' = FALSE /\ trackAge' = 0
  /\ IF armed
       THEN /\ grace' = TRUE /\ graceAge' = 0 /\ waiting' = FALSE
            /\ shaper' = "held"
            /\ command' = IF command = "none" THEN "none" ELSE "paused"
            /\ UNCHANGED <<armed, pausedFor, servo>>
       ELSE UNCHANGED <<armVars, shaper, servo, command>>
  /\ UNCHANGED <<cmdAge, workVars, hand, timerVars, node, output>>

OnTrackingLost ==
  /\ node = "up"
  /\ trackingOk' = FALSE /\ trackAge' = 0
  /\ \/ EnterGrace
     \/ /\ armed /\ grace
        /\ waiting' = FALSE
        /\ UNCHANGED <<armed, grace, graceAge, pausedFor, shaper, servo,
                       command>>
     \/ /\ ~armed
        /\ UNCHANGED <<armVars, shaper, servo, command>>
  /\ UNCHANGED <<cmdAge, workVars, hand, timerVars, node, output>>

-----------------------------------------------------------------------------
(* Services. *)

\* prepare_arm: the session's status alone says whether the hand may be armed.
Preflight == hand = "ready"

\* Mutant of OnEnable: ARM does not ask whether a recovery is running.
OnEnableRecovering ==
  /\ node = "up"
  /\ ~armed
  /\ InputsFresh /\ command # "none" /\ Preflight
  /\ BeginBlend
  /\ LeaveGrace
  /\ armed' = TRUE
  /\ command' = IF command = "preFault" THEN command ELSE "live"
  /\ UNCHANGED <<trackingOk, trackAge, cmdAge, workVars, servo, hand,
                 timerVars, node, output>>

\* ARM.  A preflight that fails leaves the bridge as it was; one that succeeds
\* takes the latest target for what the operator wants.
OnEnable ==
  /\ node = "up"
  /\ ~recoveryPending /\ ~armed
  /\ InputsFresh /\ command # "none" /\ Preflight
  /\ BeginBlend
  /\ LeaveGrace
  /\ armed' = TRUE
  /\ command' = IF command = "preFault" THEN command ELSE "live"
  /\ UNCHANGED <<trackingOk, trackAge, cmdAge, workVars, servo, hand,
                 timerVars, node, output>>

OnDisable ==
  /\ node = "up"
  /\ Disarm
  /\ UNCHANGED <<inputVars, workVars, hand, timerVars, node, output>>

\* Mutant of OnRecover: the latest target and its time are kept.
OnRecoverKeepingTarget ==
  /\ node = "up" /\ ~recoveryPending
  /\ armed' = FALSE /\ LeaveGrace
  /\ shaper' = "held" /\ servo' = "silent"
  /\ command' = IF command = "none" THEN "none" ELSE "preFault"
  /\ recoveryPending' = TRUE /\ worker' = "running"
  /\ UNCHANGED <<trackingOk, trackAge, cmdAge, hand, timerVars, node, output>>

\* Mutant of OnRecover: the hand is not suspended.
OnRecoverUnsuspended ==
  /\ node = "up" /\ ~recoveryPending
  /\ armed' = FALSE /\ LeaveGrace
  /\ shaper' = "held"
  /\ command' = "none" /\ cmdAge' = CommandTimeout + 1
  /\ recoveryPending' = TRUE /\ worker' = "running"
  /\ UNCHANGED <<trackingOk, trackAge, servo, hand, timerVars, node, output>>

\* Disarmed, the last target forgotten, the hand suspended, the worker started.
OnRecover ==
  /\ node = "up" /\ ~recoveryPending
  /\ armed' = FALSE /\ LeaveGrace
  /\ shaper' = "held" /\ servo' = "silent"
  /\ command' = "none" /\ cmdAge' = CommandTimeout + 1
  /\ recoveryPending' = TRUE /\ worker' = "running"
  /\ UNCHANGED <<trackingOk, trackAge, hand, timerVars, node, output>>

\* Mutant of OnRecoverReturns: a recovery that succeeded arms the output.
OnRecoverReturnsArmed ==
  /\ node = "up" /\ worker \in {"ok", "failed"}
  /\ recoveryPending' = FALSE /\ worker' = "idle"
  /\ armed' = (worker = "ok")
  /\ UNCHANGED <<grace, graceAge, waiting, pausedFor, inputVars, shaper, servo,
                 hand, timerVars, node, output>>

\* Mutant of OnRecoverReturns: the pending flag is only cleared on success.
OnRecoverReturnsOnSuccess ==
  /\ node = "up" /\ worker \in {"ok", "failed"}
  /\ recoveryPending' = (recoveryPending /\ worker = "failed")
  /\ worker' = "idle"
  /\ armed' = FALSE
  /\ UNCHANGED <<grace, graceAge, waiting, pausedFor, inputVars, shaper, servo,
                 hand, timerVars, node, output>>

\* The service resumes after the await, whatever the worker's outcome.
OnRecoverReturns ==
  /\ node = "up" /\ worker \in {"ok", "failed"}
  /\ recoveryPending' = FALSE /\ worker' = "idle"
  /\ armed' = FALSE
  /\ UNCHANGED <<grace, graceAge, waiting, pausedFor, inputVars, shaper, servo,
                 hand, timerVars, node, output>>

-----------------------------------------------------------------------------
(* Dg5f.recover on the worker thread. *)

\* The native session is restarted, or recovery throws with the fault latched.
WorkerRestarts ==
  /\ worker = "running"
  /\ \/ hand' = "ready" /\ worker' = "reseed"
     \/ hand' = "faulted" /\ worker' = "failed"
  /\ UNCHANGED <<armVars, inputVars, recoveryPending, shaper, servo, timerVars,
                 node, output>>

WorkerReseeds ==
  /\ worker = "reseed"
  /\ shaper' = "reseeded"
  /\ worker' = IF hand = "ready" THEN "ok" ELSE "failed"
  /\ UNCHANGED <<armVars, inputVars, recoveryPending, servo, hand, timerVars,
                 node, output>>

-----------------------------------------------------------------------------
(* The output timer: _send_latest. *)

SendTimer ==
  /\ node = "up"
  /\ sendDue /\ sendDue' = FALSE
  /\ UNCHANGED <<trackingOk, trackAge, cmdAge, workVars, hand, stateDue, node>>

Sending == armed /\ command # "none"

SendNothing ==
  /\ ~Sending
  /\ UNCHANGED <<armVars, command, shaper, servo, output>>

\* A stale tracking topic starts the grace period as a lost hand does.
SendLosesTracking ==
  /\ Sending /\ ~FreshTracking
  /\ EnterGrace
  /\ UNCHANGED output

\* Mutant of SendPaused: a pause does not end while tracking is missing.
SendPausedForever ==
  /\ Sending /\ RequireTracking /\ grace
  /\ IF GraceOver /\ FreshTracking
       THEN Disarm
       ELSE UNCHANGED <<armVars, shaper, servo>>
  /\ UNCHANGED <<command, output>>

SendPaused ==
  /\ Sending /\ RequireTracking /\ grace
  /\ IF GraceOver THEN Disarm ELSE UNCHANGED <<armVars, shaper, servo>>
  /\ UNCHANGED <<command, output>>

\* Mutant of MaySend: fresh tracking is enough, even before a fresh target.
MaySendTracked == Sending /\ FreshTracking

\* Past the tests on tracking.
MaySend == Sending /\ FreshTracking /\ ~(RequireTracking /\ grace)

\* No fresh target, a load the current guard trips on, or a rejected setpoint.
SendFails ==
  /\ MaySend
  /\ Disarm
  /\ UNCHANGED <<command, output>>

\* The shaper moved by less than the smallest step worth sending.
SendBelowStep ==
  /\ MaySend /\ FreshCommand
  /\ shaper' = "moving"
  /\ UNCHANGED <<armVars, command, servo, output>>

SendAccepted ==
  /\ MaySend /\ FreshCommand
  /\ hand = "ready"
  /\ shaper' = "moving"
  /\ servo' = "holding" /\ output' = ~output
  /\ UNCHANGED <<armVars, command>>

SendLatest ==
  /\ SendTimer
  /\ \/ SendNothing \/ SendLosesTracking \/ SendPaused
     \/ SendFails \/ SendBelowStep \/ SendAccepted

-----------------------------------------------------------------------------
(* The state timer, the session's health, time and shutdown. *)

\* Mutant of PublishState: the hand is not watched outside a pause.
PublishStatePaused ==
  /\ node = "up"
  /\ stateDue > 0 /\ stateDue' = 0
  /\ IF armed /\ grace /\ hand # "ready"
       THEN Disarm
       ELSE UNCHANGED <<armVars, shaper, servo>>
  /\ UNCHANGED <<inputVars, workVars, hand, sendDue, node, output>>

PublishState ==
  /\ node = "up"
  /\ stateDue > 0 /\ stateDue' = 0
  /\ IF armed /\ hand # "ready"
       THEN Disarm
       ELSE UNCHANGED <<armVars, shaper, servo>>
  /\ UNCHANGED <<inputVars, workVars, hand, sendDue, node, output>>

\* While recover() runs the health is its own affair.
HandChanges ==
  /\ node # "down" /\ worker # "running"
  /\ \/ hand = "ready" /\ hand' \in {"unready", "faulted"}
     \/ hand = "unready" /\ hand' \in {"ready", "faulted"}
  /\ UNCHANGED <<armVars, inputVars, workVars, shaper, servo, timerVars, node,
                 output>>

Tick ==
  /\ node = "up"
  /\ ~sendDue /\ stateDue < 2
  /\ sendDue' = TRUE /\ stateDue' = stateDue + 1
  /\ trackAge' = Aged(trackAge, TrackingTimeout + 1)
  /\ cmdAge' = Aged(cmdAge, CommandTimeout + 1)
  /\ graceAge' = IF grace THEN Aged(graceAge, Grace + 2) ELSE graceAge
  /\ pausedFor' = IF grace THEN Aged(pausedFor, Grace + 2) ELSE pausedFor
  /\ UNCHANGED <<armed, grace, waiting, trackingOk, command, workVars, shaper,
                 servo, hand, node, output>>

\* The executor stops wherever it is; destroy_node joins the worker, then
\* disconnects, which stops the control thread.
DestroyNode ==
  /\ \/ node = "up" /\ node' = "closing" /\ UNCHANGED servo
     \/ /\ node = "closing" /\ worker \notin {"running", "reseed"}
        /\ node' = "down"
        /\ servo' = "silent"
  /\ UNCHANGED <<armVars, inputVars, workVars, shaper, hand, timerVars, output>>

-----------------------------------------------------------------------------

OnCommand  == OnCommandStored \/ OnCommandResumes \/ OnCommandExpires
OnTracking == OnTrackingOk \/ OnTrackingLost
Worker     == WorkerRestarts \/ WorkerReseeds

Next ==
  \/ OnCommand \/ OnTracking
  \/ OnEnable \/ OnDisable \/ OnRecover \/ OnRecoverReturns
  \/ Worker
  \/ SendLatest \/ PublishState
  \/ HandChanges \/ Tick \/ DestroyNode

Spec == Init /\ [][Next]_vars

\* The executor serves its timers and resumes the service once the worker is
\* done, the worker's call returns (HandControl!RecoverCompletes), time passes.
Fairness ==
  /\ WF_vars(SendLatest) /\ WF_vars(PublishState) /\ WF_vars(Tick)
  /\ WF_vars(Worker) /\ WF_vars(OnRecoverReturns)

FairSpec == Spec /\ Fairness

-----------------------------------------------------------------------------
(* Properties. *)

\* Once the output timer has run in a tick, an output that is armed and not
\* paused has tracking and a target that are both fresh: no lost or silent
\* topic stays unnoticed for longer than one period of the timer.
ArmedInputsFresh ==
  node = "up" /\ armed /\ ~grace /\ ~sendDue => FreshTracking /\ FreshCommand

\* A disarmed hand is physically silent, whatever disarmed it: it neither
\* moves nor repeats its last setpoint.
DisarmedIsSilent == ~armed => servo = "silent"

\* A pause is over one period after the grace time however often tracking
\* comes and goes meanwhile.
GraceBounded == grace => pausedFor <= Grace + 1

\* From the request of a recovery to its answer the output is disarmed and the
\* hand silent: the worker restarts the session and resets the shaper with
\* nobody else using them.
RecoveryIsMotionFree ==
  recoveryPending \/ worker # "idle" => ~armed /\ servo = "silent"

\* The hand follows only targets that arrived after tracking was restored or
\* that the operator armed with, and none from before a recovery.
OnlyLiveTargetsSent == [][output' # output => command = "live"]_vars

\* After a pause, a disarm or a recovery the first setpoint starts from the
\* measured pose: the shaper never continues from where it was stopped.
SendsFromFeedback ==
  [][output' # output => shaper \in {"anchored", "moving"}]_vars

\* During the grace window the hand is given no new setpoint.
GraceIsQuiet == [][grace => output' = output]_vars

\* A pause never lasts: it ends in a resume or in a disarm.
GraceEnds == grace ~> (~grace \/ node # "up")

\* Every recovery request is answered.
RecoveryEnds == recoveryPending ~> (~recoveryPending \/ node # "up")

\* A faulted hand is disarmed even if no setpoint is sent that would fail.
FaultDisarms == hand = "faulted" ~> (~armed \/ node # "up")

\* What the operator may rely on, in the terms of ArmSafety.
Mode ==
  IF node = "down" THEN "off"
  ELSE IF recoveryPending THEN "recovering"
  ELSE IF ~armed THEN "disarmed"
  ELSE IF grace THEN "paused"
  ELSE "live"

Promise == INSTANCE ArmSafety WITH mode <- Mode

\* The bridge keeps what ArmSafety promises the operator: it arms only on
\* request or by resuming from a pause, moves only while live, and is silent
\* whenever it is disarmed, recovering or off.
KeepsPromise == Promise!Spec

\* The hand in the terms of HandSession; the adapter is in a recovery while the
\* worker's call runs, and gone when the node is.
Health ==
  IF node = "down" THEN "off"
  ELSE IF worker = "running" THEN "recovering"
  ELSE hand

Session == INSTANCE HandSession WITH health <- Health

\* The bridge counts on the session for what HandControl guarantees and nothing
\* else, and keeps its side: it gives a setpoint only to a ready session and has
\* silenced the hand before it has the session recovered or closed.
CountsOnSession == Session!Spec

=============================================================================
