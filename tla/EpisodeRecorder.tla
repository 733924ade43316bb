--------------------------- MODULE EpisodeRecorder ---------------------------
(***************************************************************************)
(* The dataset recorder process (EpisodeRecorder in a                      *)
(* LeRobotDatasetRecorder node): episodes are collected in RAM tick by     *)
(* tick, sealed on disk by finish() and listed in a manifest beside the    *)
(* dataset.  Every file operation may fail; the process may be stopped     *)
(* (Ctrl+C saves), killed between any two file operations and started      *)
(* again with or without --resume.                                         *)
(*                                                                         *)
(* Signals are deferred to the spin boundary and there is one thread, so   *)
(* a handler is one step whose outcome is chosen.  The advisory locks let  *)
(* one process at a time own the directory: state "DOWN" is no owner.      *)
(*                                                                         *)
(* The LeRobotDataset library is external: an episode saved through a      *)
(* handle is appended; one saved through a handle that was finalized       *)
(* already overwrites the file sealed last; an empty dataset does not      *)
(* open.                                                                   *)
(***************************************************************************)
EXTENDS SampleBuffer, FiniteSets, Sequences

CONSTANTS MaxFrames, MaxEpisodes          \* bounds of the exploration

ASSUME BoundsAssumption == MaxFrames \in Nat \ {0} /\ MaxEpisodes \in Nat

NoManifest    == [exists |-> FALSE, entries |-> {}]
EmptyManifest == [exists |-> TRUE, entries |-> {}]
StallLimit == 2              \* 2.5 / fps, in whole periods

VARIABLES
  state, frames, segment, gap,
  sinceFrame,   \* age of _last_frame_time, capped
  ticked,       \* the timer was served in this period (_last_tick)
  rejected,     \* a tick was skipped since the last frame (ghost)
  dataset,      \* the handle: "none", "open" or "closed"
  manifest,     \* the manifest in memory
  episodes,
  unsealed,     \* frames of an episode saved but not finalized
  sealed,       \* disk: the lengths of the finalized episodes
  listed,       \* disk: meta/dg5f_recording.json
  created       \* disk: the dataset directory exists

ramVars  == <<state, frames, segment, gap, sinceFrame, ticked, rejected>>
diskVars == <<dataset, manifest, episodes, unsealed, sealed, listed, created>>
vars     == <<bufferVars, ramVars, diskVars>>

Init ==
  /\ InitBuffer
  /\ state = "DOWN"
  /\ frames = 0 /\ segment = 0 /\ sinceFrame = 0
  /\ gap = FALSE /\ ticked = FALSE /\ rejected = FALSE
  /\ dataset = "none" /\ manifest = NoManifest /\ listed = NoManifest
  /\ episodes = 0 /\ unsealed = 0
  /\ sealed = <<>>
  /\ created = FALSE

WithEntry(m, index, n) ==
  [m EXCEPT !.entries = @ \cup {[episode_index |-> index, frames |-> n]}]

(* Without an episode with frames there is no last frame to measure from. *)
Idle == state # "RECORDING" \/ frames = 0

Forget == sinceFrame' = 0 /\ rejected' = FALSE

(* A period of the timer: missed ticks are not made up for. *)
Period ==
  /\ Elapse
  /\ ticked' = FALSE
  /\ sinceFrame' = IF Idle \/ sinceFrame > StallLimit THEN sinceFrame ELSE sinceFrame + 1
  /\ UNCHANGED <<state, frames, segment, gap, rejected, diskVars>>

Message ==
  /\ state # "DOWN"
  /\ Receive
  /\ UNCHANGED <<ramVars, diskVars>>

(***************************************************************************)
(* The constructor.  Without --resume an existing directory is refused;    *)
(* with it the manifest and the dataset must both open.                    *)
(***************************************************************************)
CanLoad == listed.exists /\ sealed # <<>>

(* Mutant of EpisodesOnDisk: the next index is taken from the manifest. *)
EpisodesInManifest == Cardinality(listed.entries)

(* dataset.num_episodes of a dataset that was opened again. *)
EpisodesOnDisk == Len(sealed)

Launch(resume) ==
  /\ state = "DOWN"
  /\ IF resume THEN CanLoad ELSE ~created
  /\ state' = "IDLE"
  /\ frames' = 0 /\ segment' = 0 /\ gap' = FALSE
  /\ dataset' = IF resume THEN "open" ELSE "none"
  /\ manifest' = IF resume THEN listed ELSE NoManifest
  /\ episodes' = IF resume THEN EpisodesOnDisk ELSE 0
  /\ UNCHANGED <<bufferVars, sinceFrame, ticked, rejected, unsealed, sealed, listed, created>>

(***************************************************************************)
(* start(): reopens the dataset after a finish, creates it the first time  *)
(* and uses the handle of a resume or of an episode that was discarded.    *)
(***************************************************************************)
OpenDataset ==
  \/ /\ dataset # "none"
     /\ UNCHANGED <<dataset, manifest, episodes, listed, created>>
  \/ /\ dataset = "none" /\ manifest.exists /\ CanLoad
     /\ dataset' = "open" /\ manifest' = listed /\ episodes' = EpisodesOnDisk
     /\ UNCHANGED <<listed, created>>
  \/ /\ dataset = "none" /\ ~manifest.exists /\ ~created
     /\ dataset' = "open" /\ manifest' = EmptyManifest /\ listed' = manifest'
     /\ created' = TRUE
     /\ UNCHANGED episodes

Begin ==
  /\ state' = "RECORDING"
  /\ frames' = 0 /\ segment' = 0 /\ gap' = FALSE
  /\ Forget

Start ==
  /\ state = "IDLE"
  /\ Len(sealed) < MaxEpisodes
  /\ "frame" \in Verdicts
  /\ Snapshot
  /\ OpenDataset
  /\ Begin
  /\ UNCHANGED <<ticked, unsealed, sealed>>

(* start() raises: the snapshot, or after create() the manifest write. *)
StartFails ==
  /\ state = "IDLE"
  /\ Snapshot
  /\ \/ UNCHANGED diskVars
     \/ /\ "frame" \in Verdicts
        /\ dataset = "none" /\ ~manifest.exists /\ ~created
        /\ dataset' = "open" /\ manifest' = EmptyManifest /\ created' = TRUE
        /\ UNCHANGED <<episodes, unsealed, sealed, listed>>
  /\ UNCHANGED ramVars

(***************************************************************************)
(* _tick and tick(): at most one per period.                               *)
(***************************************************************************)
Tick ==
  /\ state = "RECORDING" /\ ~ticked
  /\ ticked' = TRUE
  /\ Snapshot
  /\ UNCHANGED diskVars

Skip ==
  /\ Tick
  /\ gap' = (frames > 0)
  /\ \/ /\ "skip" \in Verdicts
        /\ rejected' = (frames > 0)
        /\ UNCHANGED <<state, sinceFrame>>
     \/ /\ "fatal" \in Verdicts
        /\ state' = "PAUSED"
        /\ Forget
  /\ UNCHANGED <<frames, segment>>

(* Mutant of NewSegment: a stall without a skipped tick goes unnoticed. *)
NewSegmentSkips == gap

NewSegment == gap \/ (frames > 0 /\ sinceFrame > StallLimit)

AddFrame ==
  /\ Tick
  /\ frames < MaxFrames
  /\ "frame" \in Verdicts
  /\ segment' = IF NewSegment THEN segment + 1 ELSE segment
  /\ gap' = FALSE
  /\ frames' = frames + 1
  /\ Forget
  /\ UNCHANGED state

AddFrameFails ==
  /\ Tick
  /\ "frame" \in Verdicts
  /\ segment' = IF NewSegment THEN segment + 1 ELSE segment
  /\ gap' = FALSE
  /\ state' = "ERROR"
  /\ Forget
  /\ UNCHANGED frames

(***************************************************************************)
(* finish(): save_episode, clear_episode_buffer, finalize, then the entry  *)
(* and the manifest file.  The handle is dropped: a sealed file is never   *)
(* written again, the next start() opens the dataset anew.                 *)
(***************************************************************************)
Savable == state \in {"RECORDING", "PAUSED"} /\ frames > 0

SealedWith(n) == IF dataset = "closed" THEN [sealed EXCEPT ![Len(sealed)] = n]
                                       ELSE Append(sealed, n)

(* Mutant of HandleAfterFinish: the finalized handle is used again. *)
HandleReused == "closed"

HandleAfterFinish == "none"

Seal ==
  /\ sealed' = SealedWith(frames)
  /\ unsealed' = 0
  /\ UNCHANGED created

Finish ==
  /\ Savable
  /\ Seal
  /\ manifest' = WithEntry(manifest, episodes, frames)
  /\ listed' \in {manifest', listed}           \* the last write may fail
  /\ episodes' = episodes + 1
  /\ dataset' = HandleAfterFinish
  /\ state' = "IDLE" /\ frames' = 0
  /\ Forget
  /\ UNCHANGED <<bufferVars, segment, gap, ticked>>

FinishFails ==
  /\ Savable
  /\ state' = "ERROR"
  /\ unsealed' \in {0, frames}                 \* save_episode or finalize raised
  /\ Forget
  /\ UNCHANGED <<bufferVars, frames, segment, gap, ticked, dataset,
                 manifest, episodes, sealed, listed, created>>

Discard ==
  /\ state \in {"RECORDING", "PAUSED"}
  /\ state' = "IDLE" /\ frames' = 0
  /\ Forget
  /\ UNCHANGED <<bufferVars, segment, gap, ticked, diskVars>>

Status ==
  /\ state # "DOWN"
  /\ Snapshot
  /\ UNCHANGED <<ramVars, diskVars>>

(***************************************************************************)
(* The end of the process: RAM and locks are gone, the disk stays.         *)
(***************************************************************************)
Exit ==
  /\ state # "DOWN"
  /\ state' = "DOWN" /\ frames' = 0 /\ segment' = 0 /\ gap' = FALSE
  /\ Forget
  /\ dataset' = "none" /\ manifest' = NoManifest /\ episodes' = 0
  /\ stamp' = [s \in Streams |-> Old] /\ diag' = "hold"
  /\ tracking' = [value |-> FALSE, received |-> Old, sent |-> Old]
  /\ restoredAt' = Old /\ wasTracking' = FALSE /\ heardLoss' = Old
  /\ UNCHANGED <<tracked, ticked>>

(* close(): an episode with frames is finished first; finalize() runs on   *)
(* whatever handle is left and may seal what a failed finish() had saved.  *)
Close ==
  /\ Exit
  /\ \/ /\ Savable
        /\ Seal
        /\ listed' \in {WithEntry(manifest, episodes, frames), listed}
     \/ /\ ~Savable /\ unsealed = 0
        /\ UNCHANGED <<sealed, unsealed, listed, created>>
     \/ /\ Savable \/ unsealed > 0
        /\ \/ sealed' = sealed
           \/ sealed' = SealedWith(IF Savable THEN frames ELSE unsealed)
        /\ unsealed' = 0
        /\ UNCHANGED <<listed, created>>

(* A kill: at rest, inside finish() after finalize, or inside create().    *)
Kill ==
  /\ Exit
  /\ unsealed' = 0
  /\ \/ UNCHANGED <<sealed, listed, created>>
     \/ /\ Savable
        /\ sealed' = SealedWith(frames)
        /\ UNCHANGED <<listed, created>>
     \/ /\ state = "IDLE" /\ dataset = "none" /\ ~manifest.exists
        /\ created' = TRUE
        /\ UNCHANGED <<sealed, listed>>

Next ==
  \/ Period \/ Message
  \/ \E resume \in BOOLEAN : Launch(resume)
  \/ Start \/ StartFails \/ Skip \/ AddFrame \/ AddFrameFails
  \/ Finish \/ FinishFails \/ Discard \/ Status
  \/ Close \/ Kill

Spec == Init /\ [][Next]_vars

-----------------------------------------------------------------------------

TypeOK ==
  /\ TypeOKBuffer
  /\ state \in {"DOWN", "IDLE", "RECORDING", "PAUSED", "ERROR"}
  /\ frames \in Nat /\ segment \in Nat /\ sinceFrame \in Nat
  /\ gap \in BOOLEAN /\ ticked \in BOOLEAN /\ rejected \in BOOLEAN
  /\ dataset \in {"none", "open", "closed"}
  /\ episodes \in Nat /\ unsealed \in Nat
  /\ sealed \in Seq(Nat)
  /\ created \in BOOLEAN

Records == frames' = frames + 1

(* Two frames of one segment have no rejected tick and no stall of more    *)
(* than 2.5 periods between them, over pauses, discards and restarts.      *)
SegmentsAreGapless ==
  [][Records /\ frames > 0 /\ segment' = segment
       => ~rejected /\ sinceFrame <= StallLimit]_vars

(* A sealed episode stays as it is on disk and, once the manifest lists    *)
(* it, listed, whatever fails, dies or is started again later.             *)
SealedIsForever ==
  [][/\ SubSeq(sealed', 1, Len(sealed)) = sealed
     /\ listed.entries \subseteq listed'.entries]_vars

(* The manifest on disk lists only sealed episodes, each under its own     *)
(* index and with its number of frames (finish, _load_existing).           *)
ManifestIsTrue ==
  \A e \in listed.entries : /\ e.episode_index < Len(sealed)
                            /\ sealed[e.episode_index + 1] = e.frames
=============================================================================
