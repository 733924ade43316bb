# A verification of the DG5F hand retargeting stack

This directory holds TLA+ models of the software that drives a Tesollo DG5F
robot hand from a Meta Quest headset, the TLC configurations that check them on
small instances, and TLAPS proofs of their main properties for all values of
the constants. Paths below are relative to the repository root, which the
project sees as `src/`; `RB` abbreviates
`src/src/lerobot_robot_dg5f/lerobot_robot_dg5f`, `TC` abbreviates
`src/vendor/tesollo_control`, `DT` abbreviates `src/src/dg5f_teleop/dg5f_teleop`,
`EP` abbreviates `src/src/ros_tcp_endpoint/ros_tcp_endpoint` and `CUBE` the
directory of `dg5f_cube_env.py` in `src/isaaclab_ext`.

## The system

```
 Quest/Unity --TCP--> ros_tcp_endpoint --> unity adapter --> retarget node
                                                               |  command, tracking
 operator --- enable, recover services ----------------------> v
              bridge (Dg5fLeRobotBridge, 50 Hz)  -- current guard, contacts
                |  Dg5f: command shaper            |  worker thread: recover()
                v                                  v
              TesolloDg5fBackend --pybind11--> DGControl (200 Hz loop)
                                                   |  MoveServoJoint
              SDK event thread --callbacks-->      v
                                               DGSDK --TCP--> hand
 dataset recorder, debug recorder, MuJoCo twin: passive subscribers
```

The stack answers one question over and over: *may the hand move now, and to
where?* Three layers answer it, each with its own clock and its own threads, and
none trusts the others: the retarget node says whether the operator's hand is
tracked, the bridge whether the output is armed and its inputs fresh, the native
adapter whether the session with the hand is healthy.

### Inventory

| component | state it keeps | operations | talks to | what is hard |
|---|---|---|---|---|
| **Native adapter** `TC/dg_control/control.cpp`, `TC/python/wrapper.cpp`, `RB/backends.py` | connection, started, recovery-required and telemetry atomics; mailbox of 16 targets; last command; `_motionMutex` | SDK callbacks, 200 Hz loop, `start`, `stop`, `suspendMotion`, `setTragetPosition`, `recover` | DGSDK (calls and callbacks), bridge (pybind11; only `recover` releases the GIL) | four threads on atomics, half of them without a lock; faults between a test and its use; recovery holding the mutex for seconds |
| **Ring buffer** `TC/lockfree/lockfree.hpp` | storage, head and tail, a copy of each on the other side | `push`, `pop` | adapter: telemetry from the loop, without a lock; targets to it, under `_motionMutex` | each side writes and reads without the other; it trusts an old copy of the other's index; wrap-around |
| **Bridge** `RB/ros_bridge_node.py`, `RB/dg5f.py` | armed, tracking grace, resume flag, latest target and its age, tracking and its age, recovery pending | topics, `enable` and `recover` services, output timer 50 Hz, state timer 30 Hz, `destroy_node` | all of the others | timeouts against late answers, flickering tracking, an `await` in the middle of a service, a worker thread on shared objects |
| **Command shaper** `RB/command_shaper.py` | command pose, last sent pose, velocity, blend | `reset`, `begin_arm_blend`, `step`, `accept_output`, `hold` | bridge, through `Dg5f` | numeric edges; what `hold` and a rejection leave behind |
| **Current guard, contact kinematics, object contact** `RB/current_guard.py`, `RB/contact_kinematics.py`, `RB/object_contact.py` | per-joint scales, over-limit and stall timers, contact state of each finger | `update` once per output tick, `reset` | bridge | timers that must not be reset by noise; release hysteresis; three limits on one setpoint, one after the other |
| **Dataset recorder** `RB/dataset_recording.py`, `RB/lerobot_dataset_recorder.py` | sample buffer, episode state, dataset handle, manifest; on disk: episodes and manifest file | topics, `start`, `tick`, `finish`, `discard`, `close`, resume | passive | best-effort topics in any order; crash and failure between sealing an episode and listing it |
| **Debug recorder** `RB/debug_recorder.py`, `RB/debug_recording.py` | CSV and event files | append | passive | little |
| **Unity adapter** `src/src/dg5f_unity_teleop` | nothing | hand message to landmarks | endpoint, retarget node | incomplete messages |
| **Retarget node** `DT/retarget_node.py` | last output, hybrid correction, tracking verdict, last frame time | landmark topic, watchdog timer | publishes command and tracking on separate topics | watchdog racing late frames; state kept over rejected frames; order across topics |
| **MuJoCo twin** `DT/mujoco_bridge_node.py` | last target, joint state | command topic, simulation timer | follows the retarget node | commands replaced before they are read; fixed joints that the physics moves |
| **ROS-TCP endpoint** `EP` | connections, queue in force, pending service id, waiting service calls, registered nodes | connect, read, system commands, publish, service call and answer | Unity, all nodes | two threads per connection on shared fields; overlapping reconnection; lost wake-up |
| **Isaac Lab cube environment** `CUBE` | delay queue, joint commands, held-success tracker, per environment | `_pre_physics_step`, `_get_dones`, `_get_rewards`, `_reset_idx` | simulator, RSL-RL | environments of one batch reset in different steps; joints of different delays |
| **Isaac Lab MARL template**, **scripts, launch, Docker, models** | | | | a generator's template, configuration and assets |

What makes each correct, in a line: the adapter never moves the hand from a
faulted session, with an old target or after it was told to be silent; the ring
buffer is a bounded queue; the bridge moves it only while armed with fresh inputs, from where the hand is, and always
gets back to silence; the shaper's output is within its step and speed limits and
starts where the hand is; the guard trips in bounded time under a sustained load
and never raises a load it is limiting; a frame of the dataset never mixes targets
from both sides of a tracking loss, and the manifest lists nothing but episodes on
disk; the retarget node says "tracked" only of recent frames and a broken joint is
never asked to move; the endpoint answers a call with its own answer, unless two
connections have shared a header, and sends to the newest connection; the cube environment delivers each action to each joint when
the real hand would, and pays for no success that the policy did not hold.

`PROJECT.json` lists the components with their status and, under `hazards`, what
in this code a test would hardly reach, each at its line with the properties that
cover it or the reason none does yet.

## The modules

| module | what it is |
|---|---|
| `HandControl` | the native adapter, all its threads |
| `MCHandControl`, `HandControl*.cfg` | TLC instances |
| `HandControlProofs` | inductive invariant, safety theorems and the refinement of `HandSession`, for every mailbox capacity |
| `HandSession` | what the adapter guarantees and the bridge counts on: a session's health and its setpoint |
| `BoundedFifo` | abstract specification: what a queue between two threads promises |
| `RingBuffer` | the lock-free ring buffer, step by step |
| `MCRingBuffer`, `RingBuffer.cfg` | TLC instance |
| `RingBufferProofs` | inductive invariant and the refinement of `BoundedFifo`, for every capacity |
| `ArmSafety` | abstract specification: what the operator may rely on |
| `Bridge` | the bridge with its timers, services and worker thread |
| `MCBridge`, `Bridge*.cfg` | TLC instances |
| `BridgeProofs` | inductive invariant, safety theorems and the refinements of `ArmSafety` and `HandSession`, for all timeouts |
| `ObjectContact` | the contact machine of one finger, as operators |
| `OutputGuard` | EXTENDS `ObjectContact`: what an armed bridge does with a target - current guard, contact, shaper, send |
| `MCOutputGuard`, `OutputGuard*.cfg` | TLC instances |
| `OutputGuardProofs` | trip timer, step bound and hard freeze for every range, step, hold time and contact configuration |
| `SampleBuffer` | what the dataset recorder knows of the teleoperation, over lossy topics |
| `EpisodeRecorder` | EXTENDS `SampleBuffer`: the recorder process, its files, failures and restarts |
| `MCSampleBuffer`, `MCEpisodeRecorder` and their `.cfg` | TLC instances |
| `EpisodeRecorderProofs` | invariants of both, for every age and number of frames |
| `UnityEndpoint` | connections, their threads, the executor and the service calls |
| `MCUnityEndpoint`, `UnityEndpoint.cfg` | TLC instance |
| `UnityEndpointProofs` | queue and answers, for any number of connections, calls and threads |
| `Retarget` | Unity adapter, retarget node and MuJoCo twin in a chain of one-message topics |
| `MCRetarget`, `Retarget.cfg` | TLC instance |
| `RetargetProofs` | safety theorems for every set of joints, cap, timeout and range |
| `CubeEpisode` | a batch of environments of the cube task |
| `MCCubeEpisode`, `CubeEpisode.cfg` | TLC instance |
| `CubeEpisodeProofs` | delivery and bonus for every batch, every delay and episode length |

In every module, a definition whose comment begins with *Mutant of*
is a plausible bug, not part of the model: no specification uses it. Each shows
that the property it is paired with in `PROJECT.json` can be violated by a
mistake in this code.

### HandControl

State is the set of atomics of `DGControl` (`connected` is `_g_connected`,
`recoveryRequired` is `_recoveryRequired`, and so on, one variable per member),
the mailbox, the mutex, and one program counter per thread:

* `cb`, the SDK event thread. `_DisconnectedCallback` writes five atomics
  without a lock, so it is five actions (`DisconnectedCallback`, `...Latch`,
  `...Unstart`, `...Clear`, `...Forget`); every other thread may act between
  them. `_ReceivedGripperDataCallback` tests `_systemStarted` in one action and
  stamps the sample in a later one, so a callback can straddle a restart.
* `loop`, the 200 Hz thread: one iteration of `_loop` is `LoopLock`,
  `LoopCheck` (latching a fault), `LoopDecide` (draining the mailbox and asking
  `isMotionReady`), `LoopMove` or `LoopRest`, `LoopRecord`.
* `main`, the Python executor thread: `start` step by step, `send_positions`
  with its one retry, `suspendMotion`, `stop` step by step. Every throw of
  `start` ends in `stop`, as `TesolloDg5fBackend.connect` has it.
* `worker`, the Python worker thread inside `recover`, which holds
  `_motionMutex` from `RecoverLock` on.

Targets are abstracted to what the properties tell apart: a target is `live` from
its acceptance until motion is suspended, recovered or restarted, and `revoked`
from then on. The telemetry stamp is `none`, `fresh` or `stale`; `TelemetryAges`
lets 500 ms pass at any moment. A wait with a deadline may end by the deadline
whenever its condition is false. SDK calls may fail wherever the code tests their
result. Four history variables (`faulted`, `lateMoves`, `sampleCurrent`,
`discovered`) are read by properties only.

Assumptions, all about code outside the repository or about calls this
repository never makes: the SDK delivers callbacks one at a time, from one
thread, between `ConnectToGripper` and `DisconnectToGripper`; `stop` is called
with no `recover` running (`destroy_node` joins the worker first); the loads of
`motionReadyReason` are one step (`_recoveryRequired`, which every fault sets
first, is read last). Left out: counters, telemetry ring buffers and the
diagnosis, fingertip and GPIO callbacks, which only feed diagnostics; the joint
range test of `_updatePos`, which can only drop coordinates of a target.

### HandSession

`HandControl` and `Bridge` are checked apart; `HandSession` is what the one
guarantees and the other assumes. It has two variables: the `health` of a session
(`off`, `ready`, `unready`, `faulted`, `recovering`) and whether the hand has a
setpoint to go to and repeat (`servo`). A fault heals only by a recovery or another
connect, a first setpoint is taken only while `ready`, and none is left when a
recovery begins or the session ends.

* `HandControl` implements it (`KeepsSession`): `Health` is read off the loop, the
  worker and the conditions of `isMotionReady`, and a setpoint is a target in the
  mailbox or in the loop's hands, a `MoveServoJoint` in progress, or a pose that the
  keepalive repeats (`HasSetpoint`). A recovery begins there when `recover` has the
  mutex.
* `Bridge` maps onto it as well (`CountsOnSession`), its `hand` and `servo` being
  the bridge's view of the same session: it gives a setpoint only to a ready session
  and has silenced it before it calls `recover` or disconnects, and nothing that
  `Bridge` lets the hand do by itself (`HandChanges`, `WorkerRestarts`) is more
  than `HandSession` allows.

What is still missing for one specification of both is the first point of the plan:
the bridge learns of a change by polling, and its call and the adapter's step are
not the same moment.

### RingBuffer and BoundedFifo

`push` and `pop` end a step wherever the other side may see or change what this
side uses next: the test by the cached index (`PushCall`, `PopCall`), the refresh
of the copy and the second test (`PushReload`, `PopReload`), the access to the
slot (`PushWrite`, `PopRead`) and the store of the own index (`PushPublish`,
`PopAdvance`). Loads and stores of the atomics are atomic and in order, which is
what acquire and release give the two indices; the slots are plain memory, so
that a slot is never written and read at once is a property (`NoTornValue`) and
not an assumption. Slots and locals start with anything, as the memory does.

`BoundedFifo` is a sequence, a limit and the last two answers. The refinement
maps the queue to the slots from head to tail: `PushPublish` appends,
`PopAdvance` removes, and "full" and "empty" are answered at the moment of the
refresh, when they are true.

There is one producer and one consumer at a time because the callers see to it:
every access to the mailbox is under `_motionMutex` except the drain in `start`,
before the loop exists; the telemetry queues are pushed by the loop and popped
by Python threads under the GIL. `HandControl` therefore takes the mailbox for a
queue whose operations are single steps, and would be served by any queue; it is
the telemetry queues that need the buffer to be right without a lock.

### Bridge and ArmSafety

A callback runs to completion on the one executor thread, so each is one action;
`_on_recover` has an `await` in it and is two, `OnRecover` and
`OnRecoverReturns`, with everything else allowed in between. `Dg5f.recover` runs
on the worker (`WorkerRestarts`, `WorkerReseeds`). Ages are counted in ticks of
the 50 Hz timer and stop at the first value at which every comparison with them
is settled; `Tick` waits until the output timer has run in this tick (`sendDue`)
and lets the 30 Hz timer be late by one (`stateDue`). A time that was never set
is an age that has timed out, which is what `command_is_fresh` makes of `None`.

`command` says where `_latest_command_deg` came from: `live`, received while
tracking was lost (`paused`), or before a recovery was requested (`preFault`).
`shaper` says what the trajectory will start from: the last reset, the stopped
pose, an anchored blend or its own motion. `servo` is whether the 200 Hz
keepalive repeats a setpoint. `hand` is the health of the session as
`get_diagnostics` reports it: `unready` may heal by itself (temperature),
`faulted` needs `recover` - that a reconnect does not heal is what
`ReadyMeansUnfaulted` of `HandControl` shows.

`ArmSafety` is the promise to the operator without clocks, callbacks or threads:
five modes, `disarmed`, `live`, `paused`, `recovering`, `off`. The hand gets a
new setpoint only while `live`; `live` is reached by an explicit ARM or by
resuming from a pause, never from a recovery; every way out of `live` and
`paused` that is not a resume silences the hand. The refinement maps `mode` to an
expression over `node`, `recoveryPending`, `armed` and `grace`.

Left out: the published disarm reason and diagnostics; the contact topics; the
current guard's arithmetic (a trip may happen at any output tick); `auto_enable`,
which the code refuses for the real hand; a failed ARM, which changes nothing
modelled here. What an armed output does with its target is `OutputGuard`.
Several clock reads in one callback are taken at one time.
Callbacks left in `closing`, between the end of `spin` and `destroy_node`, do not
run; the keepalive does, until the session is closed.

### OutputGuard and ObjectContact

`Bridge` decides *whether* an output tick sends; `OutputGuard` follows *what* it
sends, for one joint of one finger with a range of `0..Top` degrees. One
`SendLatest` is one call of `_send_latest`: `AdaptiveCurrentGuard.update` (with
`PerFingerObjectContact.update` inside it), `PositionCommandShaper.step` with the
guard's bounds, `send_action`, `accept_output`. Target, pose and load are new in
every tick and arbitrary.

* `Softened` is the slowing of a motion that adds load, `ContactOutcomes` what the
  contact machine makes of it, `Freezes` the freeze at a hard load (`Eases` says
  what it lets through), `OverTrip`, `Stalls` and `Timer` the two timers whose end
  disarms.
* `Seeded`, `BeginsBlend`, `Holds`, `Blended`, `Shaped` are `reset`,
  `begin_arm_blend`, `hold` and the direct profile of `step`; `Accepted` and
  `Rejected` are the two ends of `send_action`, which leaves `command` ahead of
  `out` when the step is below `min_send_step_deg`.
* In `ObjectContact` the contact is a record with the fields of the finger's state
  in the code; `Confirm` is FREE to CONTACT_PENDING to CONTACT_HOLD with its
  ordinary and fast hold times, `FollowOperator`, `HeldTarget`, `Quieted` and
  `Release` the hold and its two ways out, `ResumeOutcome` the gradual return.

Loads are four: quiet, soft, hard, trip. The gains of the slowing are a choice (at
a hard load the gain is 0), and so is what a window of samples says of progress
and intent. `seen` and `overloaded` are history variables; the run's `VIEW` drops
`seen`, which no guard reads, and the values no later tick can tell apart: how long
ago a finger that is already held was found, and ages that a gap in the updates
makes void before they are read. During a pause the code does not evaluate the guard,
and neither does the model (`PausedTick`). Left out: the branch for missing
currents, a disabled guard, the smoothing profile, more than one joint per finger,
and the forward kinematics behind the contact signals, of which only "separating"
remains. The blend rounds down; with `BlendTicks` 0 there is none, as with
`startup_blend_s` 0. The runs have a blend, the proofs are for every length.

### SampleBuffer and EpisodeRecorder

`SampleBuffer` is the class of that name with its subscriptions: the newest sample
of every topic with its age in recording periods, the tracking sample, the time of
the last restoration and `was_tracking`. Topics deliver in order, late or never,
and do not wait for each other; in each period the hand is tracked or it is not,
and what is published says so. `Verdicts` is what `snapshot` returns (`frame`,
`skip`, `fatal`) and `SnapshotForgets` its side effect on `was_tracking`.
`heardLoss` and `tracked` are history variables.

`EpisodeRecorder` adds the process. The RAM half (`state`, `frames`, `segment`,
`gap`, the dataset handle, the manifest, `episodes`) is lost in `Exit`; the disk
half (`sealed`, `listed`, `created`) stays. `Start`, `AddFrame`, `Skip`, `Finish`,
`Discard`, `Close` are the methods, `StartFails`, `AddFrameFails`, `FinishFails`
their failures, and `Finish` may seal the episode and fail to list it. `Kill` ends
the process at rest, inside `finish` or inside `create`; `Launch` starts it again,
with or without `--resume`. The code has one thread and defers signals to the spin
boundary, so a method is one step. The LeRobotDataset library is external: an
episode saved through a finalized handle overwrites the file sealed last, which is
why `finish` has to drop its handle.

### UnityEndpoint

Each connection has a reader (`ClientThread.run`: the actions in `Read`) and a
sender thread (`sender_loop`: `SenderInstalls`, `SenderSends`, `SenderTimesOut`,
`SenderEnds`), a queue of its own and a halt event. Shared by all: the queue in
force (`self.queue`), `pending_srv_id`, the table of waiting calls, the registered
nodes. A service call to Unity runs in an executor thread in four steps, `Call`
(an id under the lock), `CallQueues`, `CallSleeps`, `CallReturns`; the answer may
come between any two. Calls of a ROS service are answered by a thread of their own
(`Reply`), followed one at a time. Unity connects (also before its old connection
is gone), sends one command at a time, answers requests it has heard or that an
earlier endpoint sent, and hangs up. `newest` and `mixed` are history variables.

No lock guards `pending_srv_id` and `pending_srv_is_request`, so a reader ends a
step wherever another connection's reader could change them: a header is found with
none pending (`ReadHeader`), sets the id (`NameHeader`) and then the flag
(`FlagHeader`); the message after it finds a header pending (`ReadPaired`), is
served (`ServeRequest`, `ServeResponse`, `ServeUnknown`) and clears the id
(`ClearHeader`, which leaves the flag as it is). `mixed` becomes true when a reader
finds another connection's header pending, or writes its own over one; until then
nobody else touches a header that is in use (`Owned`, proved). The flag and the id
are read in the step that serves: another reader can only come between the two once
`mixed` is true. `AnswersMatch` says nothing from then on, because the code does
not: two connections that share a header do swap answers. An item that is sent
after Unity has hung up is lost, whether `sendall` still takes it or raises.

Some unhappy ends are in the model because they are in the code, and no property
speaks of them because the code promises nothing: an answer that arrives before
`CallSleeps` wakes nobody and the call sleeps for ever; a request queued without a
connection is lost; an unknown answer ends its reader with the header still
pending, so that the next connection's first message is taken for it; a topic list
with an unregistered topic of several types ends the reader. Left out:
serialisation and sizes, the body of a published message, and the attribute
`self.future` of a ROS service (`EP/service.py:63`), which concurrent calls of one
service share.

### Retarget

Three programs in a chain: the adapter (`Adapt`), the retarget node (`AcceptFrame`,
`RejectFrame`, `NotFinite`, `Watchdog`), the twin (`TakeCommand`, `TwinStep`). Every
topic between them keeps one message, so a variable per topic holds it or `None`.
A frame is `short` (dropped by the adapter), `degenerate` (no wrist frame), `apart`
or `near` (DexPilot is asked); the two optimizers return any pose or fail.
`AcceptFrame` is the whole callback: Vector's pose, the smoothed and bounded part of
DexPilot's change (`Corrections`), the velocity cap (`Limited`), the fixed joints
(`Fixes`), then command, tracking and contact signals. `poisoned` is a NaN in the
correction's state, which the code keeps: every later frame is rejected. `allowance`, a history variable, is how far the cap has let the
output go since the twin last took a command. Left out: messages the twin refuses
(no change), its timeout, which it only logs, and its joint state message. The
hyperextension limit is on Vector's pose only, as in the code.

### CubeEpisode

`phase` is the method that `DirectRLEnv.step` calls next. `PrePhysics` pushes the
policy's clamped action into each environment's queue and decodes what each joint's
delay lets out; `Physics` is the simulator and `_get_dones`; `Rewards` updates the
held-success tracker and pays the bonus; `Reset` is `_reset_idx` of exactly the
environments that fell or timed out. `count`, `taken`, `streak`, `bonuses` and
`fresh` are history variables. `fresh` exempts the first training episode from the
second half of `BonusIsEarned`: RSL-RL is started with `init_at_random_ep_len=True`
(`train.py:217`), which shifts the episode counter, so that the test for a policy
already in control passes at once. Left out: observations, the other rewards, logs,
and different actions for the joints of one environment (each joint has its own
delay and the queue treats them alike).

## What is checked

| run | expects | what it asks |
|---|---|---|
| `HandControl` | pass | type invariant; `ReadyMeansUnfaulted`, `AtMostOneLateMove`, `ValidTelemetryIsCurrent`, `MoveOwnsSession`, `OnlyLiveTargetsMove`, `RecoverDiscoversAfresh` over all interleavings of the four threads and any number of sessions; `KeepsSession`, the refinement of `HandSession`; liveness: `RecoverCompletes`, `StopCompletes` |
| `HandControlStart` | violation | `StartDiscoversAfresh` (below) |
| `RingBuffer` | pass | `NoTornValue`; `IsFifo`, the refinement of `BoundedFifo` |
| `Bridge` | pass | `ArmedInputsFresh`, `DisarmedIsSilent`, `GraceBounded`, `RecoveryIsMotionFree`, `OnlyLiveTargetsSent`, `SendsFromFeedback`, `GraceIsQuiet`; `KeepsPromise`, the refinement of `ArmSafety`; `CountsOnSession`, that of `HandSession`; liveness: `GraceEnds`, `RecoveryEnds`, `FaultDisarms` |
| `BridgeUntracked` | violation | `GraceIsQuiet` with `require_tracking` false (below) |
| `OutputGuard` | pass | `OverloadIsBounded`: no armed output stays at a trip load past the hold time, whatever the operator does; `HardLoadFreezes`, `StepIsBounded`, `HoldIsGentle`, `ReleaseIsGradual`: what guard, contact and shaper *together* send |
| `OutputGuardBlend` | violation | `HardLoadFreezesBlends` (below) |
| `SampleBuffer` | pass | `HeardLossesSeparate`: no frame mixes targets from before and after a loss that the recorder heard of |
| `EpisodeRecorder` | pass | `ManifestIsTrue`, `SealedIsForever` over failures, kills and resumed recordings; `SegmentsAreGapless` |
| `UnityEndpoint` | pass | `QueueIsServed` over an overlapping reconnection; `AnswersMatch`, as long as the two connections share no header |
| `Retarget` | pass | `FixedStaysFixed`, `TrackingIsRecent`, `TravelIsBounded` from Unity's frames to the twin |
| `CubeEpisode` | pass | `DeliveredOnTime`, `BonusIsEarned` over environments that reset in different steps |

Every property has a mutant: a changed definition of the model, of the kind a
mistake in the code would make, with which the same run finds it violated.

### Bounds

* `Capacity`, the mailbox: 2 for safety, so that it is found empty, partly full
  and full, and a newest target exists that is not the oldest; 1 where only the
  start sequence is at stake. The code has 16; the proofs cover
  every capacity. Nothing else in `HandControl` is bounded: sessions, faults and
  recoveries repeat without limit (`lateMoves` is a number, and the invariant
  that bounds it by 1 is what keeps it finite).
* `RingBuffer` has capacity 3 and two values: the indices wrap, a copy may lag by
  any distance the buffer allows, and a slot that is lost, repeated or overwritten
  shows. The proofs cover every capacity and every set of values.
* `TrackingTimeout`, `CommandTimeout`: 2 ticks, `Grace`: 3, in `Bridge`. An input
  can be fresh, aging and stale within one pause, and a pause can expire while
  inputs are fresh. The shipped values are 0.35 s, 0.35 s and 15 s, that is
  some 17, 17 and 750 ticks; the proofs cover every value. `BridgeUntracked`
  has 1, 1 and 1.
* The ages stop one (inputs) or two (`graceAge`, `pausedFor`) past the largest
  value they are compared with.

* `OutputGuard`: a range of 0..3 (0..5 for the blend), steps of 2, a smallest step
  of 1, rates of 1; hold times of 1 and 2 ticks and a window of 2, so that each
  timer can be started, interrupted, run through a gap and expire. The joint can be
  free, blocked, held short of the object, opened past the release angle and on its
  way back. The proofs cover every value.
* `SampleBuffer`: `MaxAge` 3, so that a loss and a restoration fit between the
  oldest usable target and the newest. `EpisodeRecorder`: `MaxAge` 1, two frames an
  episode and two episodes: a second frame to be in the first one's segment or not,
  a second episode to overwrite the first or not. The two command streams are
  interchangeable (symmetry).
* `UnityEndpoint`: two connections (one reconnection, overlapping), two calls, two
  executor threads (the code has one more than its tables have entries at start), one item per
  queue, two unread messages - a header and its body, or one message on each
  connection. A behaviour is followed up to the step in which the connections share
  a header (`CONSTRAINT NotMixed`): from there on `AnswersMatch`
  promises nothing. Nor is it followed while a ROS service is called during calls of
  Unity (`OneKindOfCall`): its thread only puts a message into the queue, which a
  reader's error does at any time. Both properties are proved without constraints.
* `Retarget`: a moving joint and a broken spread joint, angles two apart with a cap
  of 1 per tick, a correction of 1, a watchdog with period 1 and timeout 2. `LeastDt`
  is 0: the code's 1 ms is below a tick. Ages stop at 4, past every comparison. The
  cap is switched on; the launch file ships it as 0, where `TravelIsBounded` allows
  the whole range.
* `CubeEpisode`: two environments, joints of delays 2 and 1, actions -2 (clamped to
  -1) and 1, a hold of 2 steps, episodes of 6: long enough to be held, to fall in
  between and to be held again.

`Bridge` is checked without deadlock because a node that has been destroyed
really has nothing left to do, `UnityEndpoint` because its connections and calls
are numbered and run out; all others may always go on and are checked with it.

### Fairness, and why the code justifies it

`HandControl`: every thread that can take a step takes it (weak fairness of the
loop, of the worker, of a callback that has begun, of `stop` after its join); a
deadline ends every wait, which is weak fairness of the step that throws. The
mutex is a `std::mutex`, which promises no order, but the loop holds it for a
fraction of each 5 ms and sleeps for the rest, and the executor thread for
microseconds per 20 ms: whoever keeps asking gets it, hence strong fairness of
`LoopLock` and `RecoverLock`. `DisconnectToGripper` returns once the SDK thread
is between callbacks, infinitely often the case: strong fairness of
`StopDisconnect`. Nothing is assumed of `start`, of callbacks not yet begun, or
of a reconnect.

`Bridge`: the executor serves its timers, and resumes the service when the
worker's future is done (weak fairness of `SendLatest`, `PublishState`,
`OnRecoverReturns`); time passes (`Tick`); the worker's call returns, which is
`RecoverCompletes` of `HandControl` (`Worker`). Nothing is assumed of topics,
operator or hand.

The other modules state no liveness and assume no fairness: the recorder and the
environments do nothing until they are called, and the endpoint's calls have no
timeout that would end them.

### Findings

* **`HandControlStart` - a start can pass the discovery gate on an old rate.**
  `start()` waits for a communication rate of at least 200 before `SystemStart`
  (`control.cpp:191` says why) but does not reset `_g_commPeriod`. `stop()` does,
  but before the 100 ms sleep and `DisconnectToGripper`: a callback in that window
  stores the old session's rate again, and the next `start()` in the same process
  finds the gate open. `recover()` resets the rate and is shown to be right
  (`RecoverDiscoversAfresh`).
* **`BridgeUntracked` - a pause that pauses nothing.** With
  `require_tracking=false`, a `tracking=false` message still starts the grace
  period and logs that the last pose is held, but `_send_latest` tests the grace
  period only under `require_tracking`, so setpoints go on being sent. Shipped
  configurations set it to true, as the `Bridge` run does.
* **`OutputGuardBlend` - an arm blend can push on at a hard load.** The guard lets a
  target through without bounds that moves the setpoint towards the measured pose.
  During an arm blend `step()` does not move to that target but to a point between
  the blend's origin and it (`command_shaper.py:219`): when the operator's target
  falls back, so does the blended point, and the setpoint moves further from the
  measured pose, the way the joint already pushes. `current_guard.py:111` says that
  such motion is frozen and makes no exception; `HardLoadFreezes` holds outside
  blends and is proved there.

Not a run, because the code cannot know: `docs/LEROBOT_DATASET_RECORDING.md:271`
says that old targets are not used again after a tracking loss. If the only
`tracking=false` of a loss is lost in the topic and the loss is shorter than the
sample age, a frame can hold a target from before it. `HeardLossesSeparate` is
therefore about losses the recorder was told of.

## What is proved

All theorems are about `Spec` and hold for every value of the constants; the only
assumptions on these are the two `CapacityAssumption`s (a positive natural),
`ParameterAssumption` (timeouts and grace natural numbers, `RequireTracking` a
Boolean), and `GuardAssumption`, `ContactAssumption`, `SampleBufferAssumption`,
`BoundsAssumption`, `EndpointAssumption`, `RetargetAssumption` and
`CubeAssumption`: types, and the ranges that the code's constructors insist on.

`HandControlProofs`. The properties are not inductive by themselves; the
invariant `IInv` adds to `TypeOK`

* `Phases`: which combinations of thread positions, mutex, session and loop
  exist - in particular that the mutex belongs to the loop from `locked` to
  `moved` and to the worker from `connect` on, and that `main` is past `start`
  whenever the loop or the worker is active;
* `Latched`: how a fault leaves its mark before the loop can look again: either
  the callback is still on its way to `_recoveryRequired` with `connected`
  false, or the latch is set, or the failed result is recorded;
* `Current`: when the stamped sample can be one from before `SystemStart`, and
  why it does not count then;
* `Live`: where a revoked target can still be - not in the mailbox, and in
  `_tempPos` only while `latestCommandValid` is false - and where a target can be
  at all: the loop holds one only between its decision and the end of the call.

From it follow `TypeCorrect`, `FaultsStayLatched` (`ReadyMeansUnfaulted`),
`LateMovesBounded` (`AtMostOneLateMove`), `TelemetryIsCurrent`,
`MovesExcludeRestarts` (`MoveOwnsSession`), `StaleTargetsNeverMove`
(`OnlyLiveTargetsMove`) and `RecoveryDiscovers` (`RecoverDiscoversAfresh`).
`SessionIsKept` (`KeepsSession`) is the refinement of `HandSession`. Most actions
only degrade a session (`Degrades`, `SessionDegrades`): no setpoint appears, no
fault is forgotten, and by `Latched` a session whose fault is remembered is not
ready; what is left are the actions that begin and end a session or a recovery and
`SendPositions`. Two theorems tie the abstraction down: `MovesSpendSetpoints`, every
`MoveServoJoint` is for a setpoint that `HandSession` counts, and in a session that
is neither closed nor being recovered; and `RecoveriesRest`, derived from
`HandSession` alone and carried over by the refinement. With them every safety
property of the run is proved.

`RingBufferProofs`. `IInv` adds to `TypeOK`

* `Lag`: going round from the producer's copy of the head one meets the head
  before the tail, and from the head the consumer's copy of the tail before the
  tail. A copy is therefore only ever pessimistic: a side that can go on by its
  copy can go on in fact;
* `Claims`: what each side has made sure of before it touches the storage, and
  that a slot about to be published or delivered holds the value.

The arithmetic is in five lemmas about `NextIndex` and `Distance`. `TypeCorrect`,
`NoTearing` (`NoTornValue`) and `ImplementsFifo` (`IsFifo`) follow; `FifoStep`
maps each action to the abstract step it implements or to a stutter.

`BridgeProofs`. `IInv` adds to `TypeOK`

* `Roles`: no pause without an armed output, no recovery with one, the pending
  flag exactly while the worker is not idle, silence whenever disarmed;
* `Watched`: what the output timer has made sure of once it has run in a tick;
* `Timed`: a pause is never older than the grace time once the timer has run,
  and at most one tick older before; its age is the time since the pause began,
  however often tracking came and went;
* `Ready`: an output that is armed and not paused has a live target and an
  anchored or moving trajectory. This is what makes `OnlyLiveTargetsSent` and
  `SendsFromFeedback` inductive: neither is visible in the state between pauses.

From it follow `TypeCorrect`, `InputsAreWatched`, `DisarmSilences`,
`RecoveriesAreMotionFree` and, with `RequireTracking`, `PausesAreBounded`,
`OnlyLiveTargets`, `MotionStartsFromFeedback`, `PausesAreQuiet` and
`PromiseIsKept`, the refinement of `ArmSafety`. `PromiseStep`
maps each action to the abstract step it implements or to a stutter. The
hypothesis `RequireTracking` cannot be dropped there: `BridgeUntracked` is the
counterexample. `SessionIsCountedOn` (`CountsOnSession`, by `SessionStep`) does
without it: a bridge that ignores tracking still uses the session as it should.
Every safety property of the run is proved.

`OutputGuardProofs`. `OverloadStaysBounded` rests on `TimerRuns`: the trip timer is
as old as the overload, which is why nothing the operator or the contact does may
restart it. `StepsStayBounded` and `HardLoadsFreeze` rest on `ShaperInv`
(`ShaperInvariance`): `command` is never further ahead of `out` than the smallest
step that is sent, over pauses, rejections and skipped sends - without it neither
is inductive, because a step is measured from `command` and felt from `out`. The
lemmas between them say of each stage of the guard what target it may return.
`HoldStaysGentle` (`HoldIsGentle`) and `ReleasesStayGradual` (`ReleaseIsGradual`)
follow the contact machine through its latch, its hold and its two ways out; they
need one fact about earlier steps, `HeldInv` (`HeldInvariance`): a finger that is
latched again has forgotten the gradual return of its last release.

`EpisodeRecorderProofs`. `LossesPrecede` (the buffer): while the newest tracking
message says "tracked" and is recent, tracking was restored after the last loss that
was heard was sent. From it follows `HeardLossesStaySeparate`. `FilesAgree` (the
files): both manifests, in memory and on disk, list only sealed episodes as they
are, the running recorder's next index is the one the library will use, and a handle
is never one that was finalized. From it follow
`ManifestStaysTrue` and `SealedStays`. `GapsAreKnown`: a skipped tick leaves its mark
in `gap`; from it `SegmentsStayGapless`. `FramesSeparateLosses` says of the whole
recorder, over episodes and restarts, what `HeardLossesStaySeparate` says of the
buffer.

`UnityEndpointProofs`. For `QueueStaysServed` the threads are enough: a
connection whose reader was never started has no sender (`Started`), and what the
property itself says.
`AnswersStayMatched` adds the shape of what Unity may send (a header is followed by
its own body), that ids and calls correspond (`OwnId`, `OwnWaiting`), and, until two
connections share a header, `Owned`, whoever sets, uses or clears the pending header
has set it, and `Paired`, what its connection reads next is its body. `Handling`
says what a reader has in its inbox between two steps.

`RetargetProofs`. `Inv` (`Invariance`) adds to the types and the invariants `WatchdogIsDue`
(while tracking, the age of the frame and the time to the next watchdog call
together are bounded - the age alone is not inductive) and `TwinFollows` (the
output is no further from the twin's target than the allowance). From it follow
`FixedJointsStayFixed`, `TrackingStaysRecent`, `CorrectionStaysBounded` and
`TravelStaysBounded`.

`CubeEpisodeProofs`. `IInv` adds `CountersAgree` (the episode's counters and the
phase), `QueueIsRecent` (the queue holds the last actions of this episode and zeros
before them) and `TrackerIsSound` (the tracker's count is no more than the streak).
From it follow `ActionsAreDeliveredOnTime` and `BonusesAreEarned`.

Every module with a specification of its own has a `TypeCorrect`; that of
`CubeEpisode` includes that in every control mode a joint's position target stays
within its limits. TLC evaluates `TypeOK` in the `HandControl` run only.

Only model-checked: the liveness properties of `HandControl` and `Bridge`
(`RecoverCompletes`, `StopCompletes`, `GraceEnds`, `RecoveryEnds`, `FaultDisarms`),
because the prover reasons neither about `ENABLED` nor about fairness. Every
invariant, action property and refinement that a passing run checks is proved for
all values of the constants. Of `SampleBuffer`, `HeardLossesSeparate` is proved in
`EpisodeRecorderProofs`. The three properties that runs refute are of course not.

## Plan

Done, in this order: `HandControl`; `RingBuffer`, `BoundedFifo`; `Bridge`,
`ArmSafety`; `OutputGuard`, `ObjectContact`; `SampleBuffer`, `EpisodeRecorder`;
`UnityEndpoint`; `Retarget`; `CubeEpisode`; the proofs of each. What is left:

1. `HandStack`: a composition of `Bridge` and `HandControl` in which a callback
   of the bridge makes its calls on the adapter one by one, the bridge's `hand`
   and `servo` become the adapter's state, and `ArmSafety` is shown of both
   together. Small instance: capacity 1, timeouts 1.
2. `Retarget` with `Bridge`: the two topics between them, each keeping only its
   newest message, which may overtake each other, and the age of a target measured
   from its publication.
3. `OutputGuard` with two joints of one finger, and with the smoothing profile's
   velocity and acceleration limits over integers.

### Not modelled

* *Debug recorder*: a passive log of one subscriber; nothing reads its state.
* *Isaac Lab MARL environment*: the cart-pole template of the project generator,
  not the hand, and stateless.
* *Scripts, launch files, Docker, models*: start-up, configuration and assets.
* *Optimizers, forward kinematics, rewards, observations, the physics*: numerical
  code without a protocol; the modules take any result of theirs.
* *SDK binary, LeRobotDataset, Isaac Lab, Unity*: external, modelled from how the
  code uses them. `json.hpp`, the UDP server and the examples are not used by the
  stack.
* *Queue contents after a reconnect* (`RB/backends.py:290`), *the step a delayed
  loop makes of several targets* (`control.cpp:341`), *the GIL*
  (`wrapper.cpp:33`): hazards without a property, with the reasons in
  `PROJECT.json`.
