---------------------------- MODULE SampleBuffer ----------------------------
(***************************************************************************)
(* What the dataset recorder knows of the teleoperation: the newest        *)
(* message of each topic with its time (SampleBuffer), fed by best-effort  *)
(* subscriptions that keep one message (LeRobotDatasetRecorder).           *)
(*                                                                         *)
(* The clock counts periods of the recording timer.  A time is kept as an  *)
(* age, capped at Old: a sample that old is stale whatever its age.  In    *)
(* each period the retargeting node either tracks the hand, and publishes  *)
(* tracking=true and a target, or does not and publishes tracking=false.   *)
(* A topic delivers messages in order, late or not at all.                 *)
(***************************************************************************)
EXTENDS Naturals

CONSTANTS
  MaxAge,       \* required_data_max_age_ms, in periods
  Targets       \* the two command streams, "raw" and "effective"

ASSUME SampleBufferAssumption == MaxAge \in Nat /\ Targets \cap {"diagnostics"} = {}

Old      == MaxAge + 1
Ages     == 0..Old
Older(a) == IF a < Old THEN a + 1 ELSE a
Streams  == Targets \cup {"diagnostics"}
Kinds    == {"ok", "hold", "lost", "fault"}

VARIABLES
  tracked,      \* tracked[a]: the hand was tracked a periods ago (ghost)
  stamp,        \* age of the sample of each stamped stream
  diag,         \* what the newest diagnostics said
  tracking,     \* the tracking sample: its value, when received, when sent
  restoredAt,   \* age of tracking_restored_at
  wasTracking,
  heardLoss     \* when the newest loss that was delivered was sent (ghost)

bufferVars == <<tracked, stamp, diag, tracking, restoredAt, wasTracking, heardLoss>>

(* samples = {}: a missing sample is skipped just as a stale one is. *)
EmptyBuffer ==
  /\ stamp = [s \in Streams |-> Old]
  /\ diag = "hold"
  /\ tracking = [value |-> FALSE, received |-> Old, sent |-> Old]
  /\ restoredAt = Old
  /\ wasTracking = FALSE
  /\ heardLoss = Old

InitBuffer == EmptyBuffer /\ tracked = [a \in Ages |-> FALSE]

(***************************************************************************)
(* The environment: a period passes in which the hand is tracked or not.   *)
(***************************************************************************)
Elapse ==
  /\ \E now \in BOOLEAN :
        tracked' = [a \in Ages |-> IF a = 0 THEN now ELSE tracked[a - 1]]
  /\ stamp' = [s \in Streams |-> Older(stamp[s])]
  /\ tracking' = [tracking EXCEPT !.received = Older(@), !.sent = Older(@)]
  /\ restoredAt' = Older(restoredAt)
  /\ heardLoss' = Older(heardLoss)
  /\ diag' = IF stamp'["diagnostics"] = Old THEN "hold" ELSE diag
  /\ UNCHANGED wasTracking

(***************************************************************************)
(* _receive and put: a stamped message is filed under its source's time.   *)
(* Targets are published only in periods with tracking; the bridge's own   *)
(* view in the diagnostics is "ok", "hold" (grace or resume pending, or a  *)
(* flag is missing), "lost" or "fault".  A message that does not decode    *)
(* invalidates the stream, as if it had grown old.                         *)
(***************************************************************************)
ReceiveTarget(s) ==
  /\ \E a \in 0..MaxAge :
        /\ a < stamp[s]
        /\ tracked[a]
        /\ stamp' = [stamp EXCEPT ![s] = a]
  /\ UNCHANGED <<tracked, diag, tracking, restoredAt, wasTracking, heardLoss>>

ReceiveDiagnostics ==
  /\ \E a \in 0..MaxAge, k \in Kinds :
        /\ a < stamp["diagnostics"]
        /\ tracked[a] => k # "lost"
        /\ ~tracked[a] => k # "ok"
        /\ stamp' = [stamp EXCEPT !["diagnostics"] = a]
        /\ diag' = k
  /\ UNCHANGED <<tracked, tracking, restoredAt, wasTracking, heardLoss>>

Undecodable(s) ==
  /\ stamp[s] # Old
  /\ stamp' = [stamp EXCEPT ![s] = Old]
  /\ diag' = IF s = "diagnostics" THEN "hold" ELSE diag
  /\ UNCHANGED <<tracked, tracking, restoredAt, wasTracking, heardLoss>>

(* Mutant of Restores: only a silence counts as a loss, not a false. *)
RestoresAfterSilence(value) == value /\ tracking.received > MaxAge

(* Whether put() takes a tracking=true for a return of tracking. *)
Restores(value) == value /\ (~wasTracking \/ tracking.received > MaxAge)

ReceiveTracking ==
  /\ \E a \in 0..MaxAge :
        LET value == tracked[a] IN
        /\ a < tracking.sent
        /\ tracking' = [value |-> value, received |-> 0, sent |-> a]
        /\ restoredAt' = IF Restores(value) THEN 0 ELSE restoredAt
        /\ wasTracking' = value
        /\ heardLoss' = IF value THEN heardLoss ELSE a
  /\ UNCHANGED <<tracked, stamp, diag>>

Receive ==
  \/ \E s \in Targets : ReceiveTarget(s)
  \/ ReceiveDiagnostics
  \/ \E s \in Streams : Undecodable(s)
  \/ ReceiveTracking

(***************************************************************************)
(* snapshot(): a frame, a reason to skip this tick, or a fatal condition.  *)
(* Bad vectors, missing images and stale source ages skip; a non-zero      *)
(* broken pinky is fatal.  These depend on data that is left out here.     *)
(***************************************************************************)
Fresh(s) == stamp[s] <= MaxAge

HardFault == Fresh("diagnostics") /\ diag = "fault"

TrackingLost == ~tracking.value \/ diag = "lost"

BeforeRestore == \E s \in Targets : stamp[s] > restoredAt

Usable ==
  /\ \A s \in Streams : Fresh(s)
  /\ tracking.received <= MaxAge
  /\ diag = "ok"
  /\ ~TrackingLost
  /\ ~BeforeRestore

Verdicts ==
  IF HardFault THEN {"fatal"}
  ELSE IF Usable THEN {"frame", "skip", "fatal"} ELSE {"skip"}

(* The checks that come before the tracking ones return first. *)
SnapshotForgets ==
  /\ ~HardFault
  /\ \A s \in Streams : Fresh(s)
  /\ tracking.received > MaxAge \/ TrackingLost

Snapshot ==
  /\ wasTracking' = (wasTracking /\ ~SnapshotForgets)
  /\ UNCHANGED <<tracked, stamp, diag, tracking, restoredAt, heardLoss>>

NextBuffer == Elapse \/ Receive \/ Snapshot

SpecBuffer == InitBuffer /\ [][NextBuffer]_bufferVars

-----------------------------------------------------------------------------

TypeOKBuffer ==
  /\ tracked \in [Ages -> BOOLEAN]
  /\ stamp \in [Streams -> Ages]
  /\ diag \in Kinds
  /\ tracking \in [value : BOOLEAN, received : Ages, sent : Ages]
  /\ restoredAt \in Ages
  /\ wasTracking \in BOOLEAN
  /\ heardLoss \in Ages

(* A frame holds no target from before a tracking loss that the recorder   *)
(* was told of, in whatever order and however late the topics were         *)
(* delivered (put and snapshot of dataset_recording.py).                   *)
HeardLossesSeparate == Usable => \A s \in Targets : stamp[s] < heardLoss
=============================================================================
