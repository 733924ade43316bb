----------------------------- MODULE HandControl -----------------------------
(***************************************************************************)
(* The native adapter between Python and the vendor's gripper SDK:         *)
(* DGControl (vendor/tesollo_control/dg_control/control.cpp) and the       *)
(* TesolloDg5fBackend calls that drive it.                                 *)
(*                                                                         *)
(* Four threads share the adapter's atomics:                               *)
(*   loop    the 200 Hz control thread, the only caller of MoveServoJoint; *)
(*   main    the Python executor thread: connect, send, suspend, stop;     *)
(*   worker  the Python worker thread that runs recover();                 *)
(*   cb      the SDK's event thread, which delivers the callbacks one at a *)
(*           time and only between ConnectToGripper and                    *)
(*           DisconnectToGripper (the SDK is external to the repository).  *)
(*                                                                         *)
(* One action is what a thread does between two points where another       *)
(* thread can see or change what it uses.  Times are abstracted: a wait    *)
(* may end by its deadline at any moment, and a telemetry stamp is "fresh" *)
(* until the environment lets 500 ms pass.                                 *)
(***************************************************************************)
EXTENDS Naturals, Sequences

CONSTANT Capacity        \* slots of the target mailbox (16 in control.hpp)

ASSUME CapacityAssumption == Capacity \in Nat \ {0}

VARIABLES
  sdkOpen,               \* between ConnectToGripper and DisconnectToGripper
  cb,                    \* where the SDK event thread is inside a callback
  connected,             \* _g_connected
  recoveryRequired,      \* _recoveryRequired
  systemStarted,         \* _systemStarted
  systemStartSet,        \* _systemStartNs > 0
  telemetry,             \* _lastTelemetryNs: "none" (0), "fresh" or "stale"
  temperatureSafe,       \* _temperatureSafe
  commHealthy,           \* _g_commPeriod >= 200
  controlRunning,        \* _controlRunning
  stopRequested,         \* _stopRequested
  latestCommandValid,    \* _latestCommandValid
  motionOk,              \* _lastMotionResult = DG_RESULT_NONE
  keepalive,             \* _servoKeepaliveEnabled
  motionMutex,           \* holder of _motionMutex
  mailbox,               \* _target_joint_buffer
  tempPos,               \* origin of the pose in _tempPos
  loop, mayMove, msgTarget, moveResult,      \* the control thread
  main,                                      \* the Python executor thread
  worker,                                    \* the thread running recover()
  \* History, read by properties only.
  faulted,               \* a fault since the last start() or good recover()
  lateMoves,             \* MoveServoJoint calls made while faulted
  sampleCurrent,         \* the stamped sample came after this SystemStart
  discovered             \* a healthy rate since connect / since SystemStop

sdkVars     == <<sdkOpen, cb>>
sessionVars == <<connected, systemStarted, systemStartSet, telemetry,
                 temperatureSafe, commHealthy>>
motionVars  == <<recoveryRequired, latestCommandValid, motionOk>>
lifeVars    == <<controlRunning, stopRequested, keepalive>>
targetVars  == <<mailbox, tempPos>>
loopVars    == <<loop, mayMove, msgTarget, moveResult>>
faultVars   == <<faulted, lateMoves>>
seenVars    == <<sampleCurrent, discovered>>

vars == <<sdkVars, sessionVars, motionVars, lifeVars, motionMutex, targetVars,
          loopVars, main, worker, faultVars, seenVars>>

(***************************************************************************)
(* A target is "live" from its acceptance until motion is suspended,       *)
(* recovered or restarted, "revoked" afterwards.  _tempPos holds a target  *)
(* or the pose "measured" when the system was started.                     *)
(***************************************************************************)
Target == {"live", "revoked"}
Pose   == Target \cup {"measured"}

CbState   == {"idle", "data", "oldData", "lost", "latched", "unstarted",
              "cleared"}
LoopState == {"none", "boot", "top", "locked", "checked", "decided", "moved",
              "exited"}
MainState == {"closed", "connect", "discover", "starting", "mark", "telemetry",
              "seed", "idle", "retry", "join", "stopSystem", "disconnect"}
WorkerState == {"idle", "lock", "connect", "reset", "discover", "starting",
                "mark", "telemetry", "seed", "finish", "verify"}

TypeOK ==
  /\ sdkOpen \in BOOLEAN /\ cb \in CbState
  /\ connected \in BOOLEAN /\ systemStarted \in BOOLEAN
  /\ systemStartSet \in BOOLEAN /\ telemetry \in {"none", "fresh", "stale"}
  /\ temperatureSafe \in BOOLEAN /\ commHealthy \in BOOLEAN
  /\ recoveryRequired \in BOOLEAN /\ latestCommandValid \in BOOLEAN
  /\ motionOk \in BOOLEAN
  /\ controlRunning \in BOOLEAN /\ stopRequested \in BOOLEAN
  /\ keepalive \in BOOLEAN
  /\ motionMutex \in {"none", "loop", "worker"}
  /\ mailbox \in Seq(Target) /\ Len(mailbox) <= Capacity
  /\ tempPos \in Pose
  /\ loop \in LoopState /\ mayMove \in BOOLEAN
  /\ msgTarget \in Target \cup {"none"} /\ moveResult \in BOOLEAN
  /\ main \in MainState
  /\ worker \in WorkerState
  /\ faulted \in BOOLEAN /\ lateMoves \in Nat
  /\ sampleCurrent \in BOOLEAN /\ discovered \in BOOLEAN

Init ==
  /\ sdkOpen = FALSE /\ cb = "idle"
  /\ connected = FALSE /\ systemStarted = FALSE /\ systemStartSet = FALSE
  /\ telemetry = "none" /\ temperatureSafe = FALSE /\ commHealthy = FALSE
  /\ recoveryRequired = FALSE /\ latestCommandValid = FALSE /\ motionOk = TRUE
  /\ controlRunning = FALSE /\ stopRequested = FALSE /\ keepalive = TRUE
  /\ motionMutex = "none"
  /\ mailbox = <<>> /\ tempPos = "measured"
  /\ loop = "none" /\ mayMove = FALSE /\ msgTarget = "none"
  /\ moveResult = TRUE
  /\ main = "closed" /\ worker = "idle"
  /\ faulted = FALSE /\ lateMoves = 0
  /\ sampleCurrent = FALSE /\ discovered = FALSE

-----------------------------------------------------------------------------
(* What the threads test and what several of them do. *)

IsTelemetryValid ==
  connected /\ systemStarted /\ systemStartSet /\ telemetry = "fresh"

\* Mutant of IsMotionReady: the RECOVERY_REQUIRED test is forgotten.
IsMotionReadyUnlatched ==
  connected /\ controlRunning /\ IsTelemetryValid /\ temperatureSafe /\ motionOk

IsMotionReady ==
  /\ connected
  /\ controlRunning
  /\ IsTelemetryValid
  /\ temperatureSafe
  /\ systemStarted
  /\ motionOk
  /\ ~recoveryRequired

\* A fault is remembered until start() or recover() resets the session.
Fault == faulted' = TRUE /\ UNCHANGED lateMoves

ClearFault == faulted' = FALSE /\ lateMoves' = 0

Revoked(pose) == IF pose = "live" THEN "revoked" ELSE pose

RevokeAll(box) == [i \in DOMAIN box |-> Revoked(box[i])]

\* while (_target_joint_buffer.pop(...)) {}
Drained(box) == <<>>

-----------------------------------------------------------------------------
(* The SDK event thread. *)

ConnectedCallback ==
  /\ sdkOpen /\ cb = "idle"
  /\ ~connected
  /\ connected' = TRUE
  /\ UNCHANGED <<sdkVars, systemStarted, systemStartSet, telemetry,
                 temperatureSafe, commHealthy, motionVars, lifeVars,
                 motionMutex, targetVars, loopVars, main, worker, faultVars,
                 seenVars>>

\* The exchange decides: a duplicate event finds FALSE and does nothing.
DisconnectedCallback ==
  /\ sdkOpen /\ cb = "idle"
  /\ connected
  /\ connected' = FALSE
  /\ cb' = "lost"
  /\ Fault
  /\ UNCHANGED <<sdkOpen, systemStarted, systemStartSet, telemetry,
                 temperatureSafe, commHealthy, motionVars, lifeVars,
                 motionMutex, targetVars, loopVars, main, worker, seenVars>>

DisconnectedLatch ==
  /\ cb = "lost"
  /\ cb' = "latched"
  /\ recoveryRequired' = TRUE
  /\ UNCHANGED <<sdkOpen, sessionVars, latestCommandValid, motionOk, lifeVars,
                 motionMutex, targetVars, loopVars, main, worker, faultVars,
                 seenVars>>

DisconnectedUnstart ==
  /\ cb = "latched"
  /\ cb' = "unstarted"
  /\ systemStarted' = FALSE
  /\ UNCHANGED <<sdkOpen, connected, systemStartSet, telemetry,
                 temperatureSafe, commHealthy, motionVars, lifeVars,
                 motionMutex, targetVars, loopVars, main, worker, faultVars,
                 seenVars>>

DisconnectedClear ==
  /\ cb = "unstarted"
  /\ cb' = "cleared"
  /\ systemStartSet' = FALSE
  /\ telemetry' = "none"
  /\ UNCHANGED <<sdkOpen, connected, systemStarted, temperatureSafe,
                 commHealthy, motionVars, lifeVars, motionMutex, targetVars,
                 loopVars, main, worker, faultVars, seenVars>>

DisconnectedForget ==
  /\ cb = "cleared"
  /\ cb' = "idle"
  /\ latestCommandValid' = FALSE
  /\ UNCHANGED <<sdkOpen, sessionVars, recoveryRequired, motionOk, lifeVars,
                 motionMutex, targetVars, loopVars, main, worker, faultVars,
                 seenVars>>

\* The callback holds _gripperDataMutex from its first step to its last and
\* ignores, for validity, a sample that arrives with the system not started.
ReceivedGripperData ==
  /\ sdkOpen /\ cb = "idle"
  /\ systemStarted
  /\ cb' = "data"
  /\ UNCHANGED <<sdkOpen, sessionVars, motionVars, lifeVars, motionMutex,
                 targetVars, loopVars, main, worker, faultVars, seenVars>>

StampGripperData ==
  /\ cb \in {"data", "oldData"}
  /\ cb' = "idle"
  /\ temperatureSafe' \in BOOLEAN
  /\ telemetry' = "fresh"
  /\ sampleCurrent' = (cb = "data")
  /\ UNCHANGED <<sdkOpen, connected, systemStarted, systemStartSet,
                 commHealthy, motionVars, lifeVars, motionMutex, targetVars,
                 loopVars, main, worker, faultVars, discovered>>

CommunicationPeriod ==
  /\ sdkOpen /\ cb = "idle"
  /\ \E healthy \in BOOLEAN :
       /\ commHealthy' = healthy
       /\ discovered' = (discovered \/ healthy)
  /\ UNCHANGED <<sdkVars, connected, systemStarted, systemStartSet, telemetry,
                 temperatureSafe, motionVars, lifeVars, motionMutex,
                 targetVars, loopVars, main, worker, faultVars, sampleCurrent>>

\* 500 ms pass without a stamped sample.
TelemetryAges ==
  /\ telemetry = "fresh"
  /\ telemetry' = "stale"
  /\ UNCHANGED <<sdkVars, connected, systemStarted, systemStartSet,
                 temperatureSafe, commHealthy, motionVars, lifeVars,
                 motionMutex, targetVars, loopVars, main, worker, faultVars,
                 seenVars>>

-----------------------------------------------------------------------------
(* The control thread: one iteration of _loop under _motionMutex. *)

LoopBoot ==
  /\ loop = "boot"
  /\ loop' = "top"
  /\ controlRunning' = TRUE
  /\ UNCHANGED <<sdkVars, sessionVars, motionVars, stopRequested, keepalive,
                 motionMutex, targetVars, mayMove, msgTarget, moveResult, main,
                 worker, faultVars, seenVars>>

\* Mutant of LoopExit: the stop request is only seen while connected.
LoopExitConnected ==
  /\ loop = "top" /\ stopRequested /\ connected
  /\ loop' = "exited"
  /\ controlRunning' = FALSE
  /\ UNCHANGED <<sdkVars, sessionVars, motionVars, stopRequested, keepalive,
                 motionMutex, targetVars, mayMove, msgTarget, moveResult, main,
                 worker, faultVars, seenVars>>

LoopExit ==
  /\ loop = "top" /\ stopRequested
  /\ loop' = "exited"
  /\ controlRunning' = FALSE
  /\ UNCHANGED <<sdkVars, sessionVars, motionVars, stopRequested, keepalive,
                 motionMutex, targetVars, mayMove, msgTarget, moveResult, main,
                 worker, faultVars, seenVars>>

LoopLock ==
  /\ loop = "top" /\ ~stopRequested
  /\ motionMutex = "none"
  /\ motionMutex' = "loop"
  /\ loop' = "locked"
  /\ UNCHANGED <<sdkVars, sessionVars, motionVars, lifeVars, targetVars,
                 mayMove, msgTarget, moveResult, main, worker, faultVars,
                 seenVars>>

\* _motionMutex is released and the iteration's locals go out of scope.
IterationEnds ==
  /\ loop' = "top"
  /\ motionMutex' = "none"
  /\ mayMove' = FALSE /\ msgTarget' = "none" /\ moveResult' = TRUE

LoopDisconnected ==
  /\ loop = "locked" /\ ~connected
  /\ mailbox' = Drained(mailbox)
  /\ IterationEnds
  /\ UNCHANGED <<sdkVars, sessionVars, motionVars, lifeVars, tempPos, main,
                 worker, faultVars, seenVars>>

\* Stale or hot telemetry, or a failed motion, latches the need to recover.
LoopCheck ==
  /\ loop = "locked" /\ connected
  /\ loop' = "checked"
  /\ IF IsTelemetryValid /\ temperatureSafe /\ motionOk
       THEN UNCHANGED <<recoveryRequired, faultVars>>
       ELSE recoveryRequired' = TRUE /\ Fault
  /\ UNCHANGED <<sdkVars, sessionVars, latestCommandValid, motionOk, lifeVars,
                 motionMutex, targetVars, mayMove, msgTarget, moveResult, main,
                 worker, seenVars>>

\* Mutant of LoopDecide: any connected iteration may move.
LoopDecideConnected ==
  /\ loop = "checked"
  /\ loop' = "decided"
  /\ msgTarget' = IF mailbox = <<>> THEN "none" ELSE mailbox[Len(mailbox)]
  /\ mailbox' = Drained(mailbox)
  /\ mayMove' = connected
  /\ UNCHANGED <<sdkVars, sessionVars, motionVars, lifeVars, motionMutex,
                 tempPos, moveResult, main, worker, faultVars, seenVars>>

\* The newest target of the mailbox wins; an unsafe iteration discards all.
LoopDecide ==
  /\ loop = "checked"
  /\ loop' = "decided"
  /\ msgTarget' = IF mailbox = <<>> THEN "none" ELSE mailbox[Len(mailbox)]
  /\ mailbox' = Drained(mailbox)
  /\ mayMove' = IsMotionReady
  /\ UNCHANGED <<sdkVars, sessionVars, motionVars, lifeVars, motionMutex,
                 tempPos, moveResult, main, worker, faultVars, seenVars>>

MoveWanted == msgTarget # "none" \/ (keepalive /\ latestCommandValid)

\* MoveServoJoint is called; the SDK may accept it or report an error.
LoopMove ==
  /\ loop = "decided"
  /\ mayMove /\ MoveWanted
  /\ loop' = "moved"
  /\ tempPos' = IF msgTarget = "none" THEN tempPos ELSE msgTarget
  /\ moveResult' \in BOOLEAN
  /\ lateMoves' = IF faulted THEN lateMoves + 1 ELSE lateMoves
  /\ UNCHANGED <<sdkVars, sessionVars, motionVars, lifeVars, motionMutex,
                 mailbox, mayMove, msgTarget, main, worker, faulted, seenVars>>

LoopRest ==
  /\ loop = "decided"
  /\ ~(mayMove /\ MoveWanted)
  /\ IterationEnds
  /\ UNCHANGED <<sdkVars, sessionVars, motionVars, lifeVars, targetVars,
                 main, worker, faultVars, seenVars>>

LoopRecord ==
  /\ loop = "moved"
  /\ IterationEnds
  /\ motionOk' = moveResult
  /\ latestCommandValid' = (latestCommandValid \/ moveResult)
  /\ IF moveResult THEN UNCHANGED faultVars ELSE Fault
  /\ UNCHANGED <<sdkVars, sessionVars, recoveryRequired, lifeVars, targetVars,
                 main, worker, seenVars>>

-----------------------------------------------------------------------------
(* The Python executor thread: connect() and disconnect(). *)

\* SetGripperSystem or ConnectToGripper may fail; the backend then stops.
StartBegin ==
  /\ main = "closed"
  /\ recoveryRequired' = FALSE /\ latestCommandValid' = FALSE
  /\ motionOk' = TRUE
  /\ temperatureSafe' = FALSE /\ telemetry' = "none"
  /\ systemStartSet' = FALSE /\ systemStarted' = FALSE
  /\ keepalive' \in BOOLEAN
  /\ sdkOpen' \in BOOLEAN
  /\ main' = IF sdkOpen' THEN "connect" ELSE "join"
  /\ stopRequested' = ~sdkOpen'
  /\ ClearFault
  /\ mailbox' = RevokeAll(mailbox) /\ tempPos' = Revoked(tempPos)
  /\ discovered' = FALSE
  /\ UNCHANGED <<cb, connected, commHealthy, controlRunning, motionMutex,
                 loopVars, worker, sampleCurrent>>

StartConnected ==
  /\ main = "connect" /\ connected
  /\ main' = "discover"
  /\ UNCHANGED <<sdkVars, sessionVars, motionVars, lifeVars, motionMutex,
                 targetVars, loopVars, worker, faultVars, seenVars>>

StartDiscovered ==
  /\ main = "discover" /\ commHealthy
  /\ main' = "starting"
  /\ telemetry' = "none" /\ temperatureSafe' = FALSE /\ systemStartSet' = TRUE
  /\ UNCHANGED <<sdkVars, connected, systemStarted, commHealthy, motionVars,
                 lifeVars, motionMutex, targetVars, loopVars, worker,
                 faultVars, seenVars>>

\* Samples delivered before the SDK's SystemStart() returns are not current.
SystemStart ==
  /\ sampleCurrent' = FALSE
  /\ cb' = IF cb = "data" THEN "oldData" ELSE cb

StartSystemStart ==
  /\ main = "starting"
  /\ main' = "mark"
  /\ SystemStart
  /\ UNCHANGED <<sdkOpen, sessionVars, motionVars, lifeVars, motionMutex,
                 targetVars, loopVars, worker, faultVars, discovered>>

StartMark ==
  /\ main = "mark"
  /\ main' = "telemetry"
  /\ systemStarted' = TRUE
  /\ UNCHANGED <<sdkVars, connected, systemStartSet, telemetry,
                 temperatureSafe, commHealthy, motionVars, lifeVars,
                 motionMutex, targetVars, loopVars, worker, faultVars,
                 seenVars>>

StartTelemetry ==
  /\ main = "telemetry" /\ IsTelemetryValid
  /\ main' = "seed"
  /\ UNCHANGED <<sdkVars, sessionVars, motionVars, lifeVars, motionMutex,
                 targetVars, loopVars, worker, faultVars, seenVars>>

\* Seed the pose under _gripperDataMutex, empty the mailbox, start the thread.
StartLaunch ==
  /\ main = "seed" /\ temperatureSafe
  /\ cb \notin {"data", "oldData"}
  /\ main' = "idle"
  /\ tempPos' = "measured"
  /\ mailbox' = Drained(mailbox)
  /\ loop' = "boot"
  /\ UNCHANGED <<sdkVars, sessionVars, motionVars, lifeVars, motionMutex,
                 mayMove, msgTarget, moveResult, worker, faultVars, seenVars>>

\* A failed call, a deadline, a disconnect, an invalid pose or a hot joint
\* makes start() throw, and TesolloDg5fBackend.connect call stop().
StartFails ==
  /\ \/ main \in {"connect", "starting", "seed"}
     \/ main = "discover" /\ ~commHealthy
     \/ main = "telemetry" /\ ~IsTelemetryValid
  /\ main' = "join"
  /\ stopRequested' = TRUE
  /\ systemStartSet' = (systemStartSet /\ main # "starting")
  /\ UNCHANGED <<sdkVars, connected, systemStarted, telemetry, temperatureSafe,
                 commHealthy, motionVars, controlRunning, keepalive,
                 motionMutex, targetVars, loopVars, worker, faultVars,
                 seenVars>>

\* The bridge's destroy_node waits for the worker before it disconnects.
StopBegin ==
  /\ main = "idle" /\ worker = "idle"
  /\ main' = "join"
  /\ stopRequested' = TRUE
  /\ UNCHANGED <<sdkVars, sessionVars, motionVars, controlRunning, keepalive,
                 motionMutex, targetVars, loopVars, worker, faultVars,
                 seenVars>>

\* Mutant of StopJoined: the session is torn down without joining the loop.
StopUnjoined ==
  /\ main = "join"
  /\ main' = "stopSystem"
  /\ controlRunning' = FALSE /\ latestCommandValid' = FALSE
  /\ telemetry' = "none" /\ systemStartSet' = FALSE /\ commHealthy' = FALSE
  /\ UNCHANGED <<sdkVars, connected, systemStarted, temperatureSafe,
                 recoveryRequired, motionOk, stopRequested, keepalive,
                 motionMutex, targetVars, loopVars, worker, faultVars,
                 seenVars>>

StopJoined ==
  /\ main = "join" /\ loop \in {"none", "exited"}
  /\ main' = "stopSystem"
  /\ loop' = "none"
  /\ controlRunning' = FALSE /\ latestCommandValid' = FALSE
  /\ telemetry' = "none" /\ systemStartSet' = FALSE /\ commHealthy' = FALSE
  /\ UNCHANGED <<sdkVars, connected, systemStarted, temperatureSafe,
                 recoveryRequired, motionOk, stopRequested, keepalive,
                 motionMutex, targetVars, mayMove, msgTarget, moveResult,
                 worker, faultVars, seenVars>>

StopSystem ==
  /\ main = "stopSystem"
  /\ main' = "disconnect"
  /\ systemStarted' = FALSE
  /\ UNCHANGED <<sdkVars, connected, systemStartSet, telemetry,
                 temperatureSafe, commHealthy, motionVars, lifeVars,
                 motionMutex, targetVars, loopVars, worker, faultVars,
                 seenVars>>

\* 100 ms later: DisconnectToGripper, after which the SDK is silent.
StopDisconnect ==
  /\ main = "disconnect" /\ cb = "idle"
  /\ main' = "closed"
  /\ sdkOpen' = FALSE /\ connected' = FALSE
  /\ UNCHANGED <<cb, systemStarted, systemStartSet, telemetry, temperatureSafe,
                 commHealthy, motionVars, lifeVars, motionMutex, targetVars,
                 loopVars, worker, faultVars, seenVars>>

-----------------------------------------------------------------------------
(* The Python executor thread: send_positions() and suspend_motion(). *)

\* Mutant of Accepts: the mailbox is never full.
AcceptsAlways == IsMotionReady

Accepts == IsMotionReady /\ Len(mailbox) < Capacity

\* The first attempt and, 2 ms after a rejection, the only retry.
SendPositions ==
  /\ main \in {"idle", "retry"}
  /\ motionMutex = "none"
  /\ IF Accepts
       THEN mailbox' = Append(mailbox, "live") /\ main' = "idle"
       ELSE /\ UNCHANGED mailbox
            /\ main' = IF main = "idle" THEN "retry" ELSE "idle"
  /\ UNCHANGED <<sdkVars, sessionVars, motionVars, lifeVars, motionMutex,
                 tempPos, loopVars, worker, faultVars, seenVars>>

\* Mutant of SuspendMotion: pending targets stay in the mailbox.
SuspendKeepingMailbox ==
  /\ main = "idle"
  /\ motionMutex = "none"
  /\ mailbox' = RevokeAll(mailbox)
  /\ tempPos' = Revoked(tempPos)
  /\ latestCommandValid' = FALSE
  /\ UNCHANGED <<sdkVars, sessionVars, recoveryRequired, motionOk, lifeVars,
                 motionMutex, loopVars, main, worker, faultVars, seenVars>>

SuspendMotion ==
  /\ main = "idle"
  /\ motionMutex = "none"
  /\ mailbox' = Drained(RevokeAll(mailbox))
  /\ tempPos' = Revoked(tempPos)
  /\ latestCommandValid' = FALSE
  /\ UNCHANGED <<sdkVars, sessionVars, recoveryRequired, motionOk, lifeVars,
                 motionMutex, loopVars, main, worker, faultVars, seenVars>>

-----------------------------------------------------------------------------
(* The worker thread: recover(), which holds _motionMutex throughout. *)

RecoverCall ==
  /\ main = "idle" /\ worker = "idle"
  /\ worker' = "lock"
  /\ UNCHANGED <<sdkVars, sessionVars, motionVars, lifeVars, motionMutex,
                 targetVars, loopVars, main, faultVars, seenVars>>

RecoverReturns == worker' = "idle" /\ motionMutex' = "none"

\* Mutant of RecoverLock: the targets of the mailbox survive the recovery.
RecoverLockKeepingMailbox ==
  /\ worker = "lock" /\ motionMutex = "none"
  /\ recoveryRequired' = TRUE
  /\ latestCommandValid' = FALSE
  /\ mailbox' = RevokeAll(mailbox)
  /\ tempPos' = Revoked(tempPos)
  /\ IF controlRunning
       THEN worker' = "connect" /\ motionMutex' = "worker"
       ELSE RecoverReturns
  /\ UNCHANGED <<sdkVars, sessionVars, motionOk, lifeVars, loopVars, main,
                 faultVars, seenVars>>

RecoverLock ==
  /\ worker = "lock" /\ motionMutex = "none"
  /\ recoveryRequired' = TRUE
  /\ latestCommandValid' = FALSE
  /\ mailbox' = Drained(RevokeAll(mailbox))
  /\ tempPos' = Revoked(tempPos)
  /\ IF controlRunning
       THEN worker' = "connect" /\ motionMutex' = "worker"
       ELSE RecoverReturns
  /\ UNCHANGED <<sdkVars, sessionVars, motionOk, lifeVars, loopVars, main,
                 faultVars, seenVars>>

\* The transport is back: SystemStop, if the system is started, may fail.
RecoverConnected ==
  /\ worker = "connect" /\ connected
  /\ systemStarted' = FALSE
  /\ \/ worker' = "reset" /\ UNCHANGED motionMutex
     \/ systemStarted /\ RecoverReturns
  /\ UNCHANGED <<sdkVars, connected, systemStartSet, telemetry,
                 temperatureSafe, commHealthy, motionVars, lifeVars,
                 targetVars, loopVars, main, faultVars, seenVars>>

\* Mutant of RecoverReset: the rate cached before the fault is reused.
RecoverResetCached ==
  /\ worker = "reset"
  /\ discovered' = FALSE
  /\ worker' = "discover"
  /\ UNCHANGED <<sdkVars, sessionVars, motionVars, lifeVars, motionMutex,
                 targetVars, loopVars, main, faultVars, sampleCurrent>>

\* The cached rate is dropped; then SetGripperOption, which may fail.
RecoverReset ==
  /\ worker = "reset"
  /\ commHealthy' = FALSE
  /\ discovered' = FALSE
  /\ \/ worker' = "discover" /\ UNCHANGED motionMutex
     \/ RecoverReturns
  /\ UNCHANGED <<sdkVars, connected, systemStarted, systemStartSet, telemetry,
                 temperatureSafe, motionVars, lifeVars, targetVars, loopVars,
                 main, faultVars, sampleCurrent>>

RecoverDiscovered ==
  /\ worker = "discover" /\ commHealthy
  /\ worker' = "starting"
  /\ telemetry' = "none" /\ temperatureSafe' = FALSE /\ systemStartSet' = TRUE
  /\ motionOk' = TRUE
  /\ UNCHANGED <<sdkVars, connected, systemStarted, commHealthy,
                 recoveryRequired, latestCommandValid, lifeVars, motionMutex,
                 targetVars, loopVars, main, faultVars, seenVars>>

RecoverSystemStart ==
  /\ worker = "starting"
  /\ \/ /\ worker' = "mark"
        /\ SystemStart
        /\ UNCHANGED <<systemStartSet, motionMutex>>
     \/ /\ systemStartSet' = FALSE
        /\ RecoverReturns
        /\ UNCHANGED <<cb, sampleCurrent>>
  /\ UNCHANGED <<sdkOpen, connected, systemStarted, telemetry, temperatureSafe,
                 commHealthy, motionVars, lifeVars, targetVars, loopVars, main,
                 faultVars, discovered>>

RecoverMark ==
  /\ worker = "mark"
  /\ worker' = "telemetry"
  /\ systemStarted' = TRUE
  /\ UNCHANGED <<sdkVars, connected, systemStartSet, telemetry,
                 temperatureSafe, commHealthy, motionVars, lifeVars,
                 motionMutex, targetVars, loopVars, main, faultVars, seenVars>>

RecoverTelemetry ==
  /\ worker = "telemetry" /\ IsTelemetryValid
  /\ worker' = "seed"
  /\ UNCHANGED <<sdkVars, sessionVars, motionVars, lifeVars, motionMutex,
                 targetVars, loopVars, main, faultVars, seenVars>>

RecoverSeed ==
  /\ worker = "seed" /\ temperatureSafe
  /\ cb \notin {"data", "oldData"}
  /\ worker' = "finish"
  /\ tempPos' = "measured"
  /\ UNCHANGED <<sdkVars, sessionVars, motionVars, lifeVars, motionMutex,
                 mailbox, loopVars, main, faultVars, seenVars>>

RecoverFinish ==
  /\ worker = "finish"
  /\ worker' = "verify"
  /\ latestCommandValid' = FALSE
  /\ recoveryRequired' = FALSE
  /\ UNCHANGED <<sdkVars, sessionVars, motionOk, lifeVars, motionMutex,
                 targetVars, loopVars, main, faultVars, seenVars>>

RecoverVerify ==
  /\ worker = "verify"
  /\ RecoverReturns
  /\ IF IsMotionReady
       THEN ClearFault /\ UNCHANGED recoveryRequired
       ELSE recoveryRequired' = TRUE /\ UNCHANGED faultVars
  /\ UNCHANGED <<sdkVars, sessionVars, latestCommandValid, motionOk, lifeVars,
                 targetVars, loopVars, main, seenVars>>

\* Mutant of RecoverThrows: the wait for the transport has no deadline.
RecoverThrowsConnected ==
  /\ \/ worker = "discover" /\ ~commHealthy
     \/ worker = "telemetry" /\ ~IsTelemetryValid
     \/ worker = "seed"
  /\ RecoverReturns
  /\ UNCHANGED <<sdkVars, sessionVars, motionVars, lifeVars, targetVars,
                 loopVars, main, faultVars, seenVars>>

\* A deadline, a disconnect, an invalid pose or a hot joint: recover() throws
\* with _recoveryRequired still set.
RecoverThrows ==
  /\ \/ worker = "connect" /\ ~connected
     \/ worker = "discover" /\ ~commHealthy
     \/ worker = "telemetry" /\ ~IsTelemetryValid
     \/ worker = "seed"
  /\ RecoverReturns
  /\ UNCHANGED <<sdkVars, sessionVars, motionVars, lifeVars, targetVars,
                 loopVars, main, faultVars, seenVars>>

-----------------------------------------------------------------------------

Callback ==
  \/ ConnectedCallback \/ DisconnectedCallback \/ DisconnectedLatch
  \/ DisconnectedUnstart \/ DisconnectedClear \/ DisconnectedForget
  \/ ReceivedGripperData \/ StampGripperData \/ CommunicationPeriod
  \/ TelemetryAges

Loop ==
  \/ LoopBoot \/ LoopExit \/ LoopLock \/ LoopDisconnected \/ LoopCheck
  \/ LoopDecide \/ LoopMove \/ LoopRest \/ LoopRecord

Start ==
  \/ StartBegin \/ StartConnected \/ StartDiscovered \/ StartSystemStart
  \/ StartMark \/ StartTelemetry \/ StartLaunch \/ StartFails

Stop == StopBegin \/ StopJoined \/ StopSystem \/ StopDisconnect

Recover ==
  \/ RecoverCall \/ RecoverLock \/ RecoverConnected \/ RecoverReset
  \/ RecoverDiscovered \/ RecoverSystemStart \/ RecoverMark
  \/ RecoverTelemetry \/ RecoverSeed \/ RecoverFinish \/ RecoverVerify
  \/ RecoverThrows

Next == Callback \/ Loop \/ Start \/ Stop \/ SendPositions \/ SuspendMotion
        \/ Recover

Spec == Init /\ [][Next]_vars

\* Every thread that can run does; a deadline ends every wait; a thread that
\* keeps asking for _motionMutex, free for most of each 5 ms, gets it; and
\* DisconnectToGripper finds the SDK thread between two callbacks.
Fairness ==
  /\ WF_vars(DisconnectedLatch \/ DisconnectedUnstart \/ DisconnectedClear
             \/ DisconnectedForget \/ StampGripperData)
  /\ WF_vars(Loop) /\ SF_vars(LoopLock)
  /\ WF_vars(StopJoined \/ StopSystem) /\ SF_vars(StopDisconnect)
  /\ WF_vars(Recover /\ ~RecoverCall) /\ SF_vars(RecoverLock)

FairSpec == Spec /\ Fairness

-----------------------------------------------------------------------------
(* Properties. *)

\* Outside a recovery in progress, isMotionReady never reports a session in
\* which the transport was lost, a motion failed or the loop saw bad telemetry
\* and no recover() has succeeded since: reconnecting alone heals nothing.
ReadyMeansUnfaulted ==
  IsMotionReady /\ worker \notin {"verify"} => ~faulted

\* Of the MoveServoJoint calls, at most one leaves after a fault: the one whose
\* iteration had already found the session ready when the transport dropped.
AtMostOneLateMove == lateMoves <= 1

\* What MoveServoJoint sends is a target accepted after the last suspend,
\* recovery or start: never a stale target, never the seeded pose.
OnlyLiveTargetsMove ==
  [][loop = "decided" /\ loop' = "moved" => tempPos' = "live"]_vars

\* Telemetry counts as valid only if the sample was delivered after the current
\* SystemStart, even when a data callback straddles the restart.
ValidTelemetryIsCurrent == IsTelemetryValid => sampleCurrent

\* While MoveServoJoint is being called no other thread restarts, stops or
\* closes the SDK session.
MoveOwnsSession ==
  loop = "moved" => /\ sdkOpen /\ motionMutex = "loop"
                    /\ worker \in {"idle", "lock"}
                    /\ main \in {"idle", "retry", "join"}

\* recover() calls SystemStart only after a healthy communication rate was
\* reported in this recovery.
RecoverDiscoversAfresh ==
  [][worker = "discover" /\ worker' = "starting" => discovered]_vars

\* start() makes the same promise of the session it has just connected.
StartDiscoversAfresh ==
  [][main = "discover" /\ main' = "starting" => discovered]_vars

\* Every recover() returns or throws, whatever the SDK does.
RecoverCompletes == worker # "idle" ~> worker = "idle"

\* Every stop() returns, even while the transport is down.
StopCompletes == main = "join" ~> main = "closed"

\* The session in the terms of HandSession.  A mailbox that is not empty, a
\* target taken from it, a call in progress, after which its pose counts as
\* commanded, and a pose that is repeated are a setpoint.
Health ==
  IF loop = "none" THEN "off"
  ELSE IF worker \notin {"idle", "lock"} THEN "recovering"
  ELSE IF IsMotionReady THEN "ready"
  ELSE IF faulted \/ recoveryRequired THEN "faulted"
  ELSE "unready"

HasSetpoint ==
  loop # "none" /\ \/ mailbox # <<>> \/ msgTarget # "none"
                   \/ loop = "moved" \/ latestCommandValid

Session == INSTANCE HandSession WITH
             health <- Health, servo <- IF HasSetpoint THEN "holding" ELSE "silent"

\* What the bridge counts on: no fault heals by itself, a setpoint is taken only
\* while ready, and recover() and stop() leave none behind.
KeepsSession == Session!Spec

=============================================================================
