------------------------ MODULE EpisodeRecorderProofs ------------------------
(***************************************************************************)
(* For every sample age and any number of frames, episodes, failures,      *)
(* kills and restarts: frames hold no targets from before a loss that was  *)
(* heard, segments have no gaps, sealed episodes stay and the manifest     *)
(* lists nothing else.                                                     *)
(***************************************************************************)
EXTENDS EpisodeRecorder, TLAPS

-----------------------------------------------------------------------------
(* The sample buffer. *)

(* A loss is never younger than the newest message, and tracking that came *)
(* back did so after the last loss that was heard.                         *)
LossesPrecede ==
  /\ tracking.sent <= heardLoss
  /\ wasTracking => tracking.value
  /\ tracking.value /\ tracking.received <= MaxAge =>
       restoredAt < heardLoss \/ heardLoss = Old

BufferInv == TypeOKBuffer /\ LossesPrecede

LEMMA OlderAges ==
  ASSUME NEW a \in Ages
  PROVE  /\ Older(a) \in Ages /\ a <= Older(a)
         /\ \A b \in Ages : /\ a <= b => Older(a) <= Older(b)
                            /\ a < b => Older(a) < Older(b) \/ Older(b) = Old
BY SampleBufferAssumption DEF Ages, Older, Old

LEMMA AgesAre ==
  /\ MaxAge \in Nat /\ Old \in Ages /\ 0 \in Ages
  /\ \A a \in Ages : a \in Nat /\ (a <= MaxAge \/ a = Old) /\ a <= Old
  /\ \A a \in 0..MaxAge : a \in Ages /\ a < Old
BY SampleBufferAssumption DEF Ages, Old

LEMMA EmptyBufferInv ==
  ASSUME EmptyBuffer, tracked \in [Ages -> BOOLEAN]
  PROVE  BufferInv
BY AgesAre DEF EmptyBuffer, BufferInv, TypeOKBuffer, LossesPrecede, Kinds

LEMMA EmptiedBufferInv ==
  ASSUME EmptyBuffer', UNCHANGED tracked, BufferInv
  PROVE  BufferInv'
BY AgesAre DEF EmptyBuffer, BufferInv, TypeOKBuffer, LossesPrecede, Kinds

LEMMA ElapseInv ==
  ASSUME BufferInv, Elapse
  PROVE  BufferInv'
<1> USE DEF BufferInv, TypeOKBuffer, LossesPrecede
<1>1. tracked' \in [Ages -> BOOLEAN]
  <2>1. \A a \in Ages \ {0} : a - 1 \in Ages
    BY SampleBufferAssumption DEF Ages, Old
  <2> QED BY <2>1 DEF Elapse
<1>2. stamp' \in [Streams -> Ages] /\ restoredAt' \in Ages /\ heardLoss' \in Ages
      /\ diag' \in Kinds /\ wasTracking' \in BOOLEAN
  BY OlderAges DEF Elapse, Kinds
<1>3. tracking' = [tracking EXCEPT !.received = Older(@), !.sent = Older(@)]
      /\ restoredAt' = Older(restoredAt) /\ heardLoss' = Older(heardLoss)
      /\ wasTracking' = wasTracking
  BY DEF Elapse
<1>4. tracking' \in [value : BOOLEAN, received : Ages, sent : Ages]
      /\ tracking'.value = tracking.value /\ tracking'.sent = Older(tracking.sent)
      /\ tracking.received <= tracking'.received
  BY <1>3, OlderAges
<1>5. LossesPrecede'
  BY <1>3, <1>4, OlderAges, AgesAre
<1> QED BY <1>1, <1>2, <1>4, <1>5

LEMMA ReceiveInv ==
  ASSUME BufferInv, Receive
  PROVE  BufferInv'
<1> USE DEF BufferInv, TypeOKBuffer, LossesPrecede
<1>1. ASSUME NEW s \in Targets, ReceiveTarget(s) PROVE BufferInv'
  BY <1>1, AgesAre DEF ReceiveTarget, Streams
<1>2. CASE ReceiveDiagnostics
  BY <1>2, AgesAre DEF ReceiveDiagnostics
<1>3. ASSUME NEW s \in Streams, Undecodable(s) PROVE BufferInv'
  BY <1>3, AgesAre DEF Undecodable, Kinds
<1>4. CASE ReceiveTracking
  <2>1. PICK a \in 0..MaxAge :
          /\ a < tracking.sent
          /\ tracking' = [value |-> tracked[a], received |-> 0, sent |-> a]
          /\ restoredAt' = IF Restores(tracked[a]) THEN 0 ELSE restoredAt
          /\ wasTracking' = tracked[a]
          /\ heardLoss' = IF tracked[a] THEN heardLoss ELSE a
    BY <1>4 DEF ReceiveTracking
  <2>2. UNCHANGED <<tracked, stamp, diag>>
    BY <1>4 DEF ReceiveTracking
  <2>3. tracked[a] \in BOOLEAN /\ a \in Ages
    BY AgesAre
  <2>4. TypeOKBuffer'
    BY <2>1, <2>2, <2>3, AgesAre
  <2>5. LossesPrecede'
    <3>1. CASE ~tracked[a]
      <4>1. tracked[a] = FALSE
        BY <2>3, <3>1
      <4>2. ~wasTracking' /\ ~tracking'.value /\ tracking'.sent = a /\ heardLoss' = a
        BY <2>1, <4>1
      <4> QED BY <4>2, AgesAre
    <3>2. CASE tracked[a] /\ Restores(tracked[a])
      <4>1. tracked[a] = TRUE
        BY <2>3, <3>2
      <4>2. tracking'.value /\ tracking'.sent = a /\ heardLoss' = heardLoss /\ restoredAt' = 0
        BY <2>1, <3>2, <4>1
      <4> QED BY <2>1, <4>2, AgesAre
    <3>3. CASE tracked[a] /\ ~Restores(tracked[a])
      <4>1. wasTracking /\ tracking.received <= MaxAge
        BY <3>3, AgesAre DEF Restores
      <4>2. tracked[a] = TRUE
        BY <2>3, <3>3
      <4>3. /\ tracking'.value /\ tracking'.sent = a
            /\ heardLoss' = heardLoss /\ restoredAt' = restoredAt
        BY <2>1, <3>3, <4>2
      <4>4. restoredAt < heardLoss \/ heardLoss = Old
        BY <4>1
      <4>5. a <= heardLoss
        BY <2>1, AgesAre
      <4> QED BY <4>3, <4>4, <4>5
    <3> QED BY <3>1, <3>2, <3>3
  <2> QED BY <2>4, <2>5
<1> QED BY <1>1, <1>2, <1>3, <1>4 DEF Receive

LEMMA SnapshotInv ==
  ASSUME BufferInv, Snapshot
  PROVE  BufferInv'
BY DEF BufferInv, TypeOKBuffer, LossesPrecede, Snapshot

LEMMA BufferSeparates == BufferInv => HeardLossesSeparate
<1> SUFFICES ASSUME BufferInv, Usable, NEW s \in Targets PROVE stamp[s] < heardLoss
  BY DEF HeardLossesSeparate
<1>1. s \in Streams /\ stamp[s] \in Ages /\ restoredAt \in Ages /\ heardLoss \in Ages
  BY DEF BufferInv, TypeOKBuffer, Streams
<1>2. stamp[s] <= MaxAge /\ stamp[s] <= restoredAt
  BY <1>1, AgesAre DEF Usable, Fresh, BeforeRestore
<1>3. restoredAt < heardLoss \/ heardLoss = Old
  BY DEF Usable, TrackingLost, BufferInv, LossesPrecede
<1> QED BY <1>1, <1>2, <1>3, AgesAre

(* No frame mixes targets from before and after a tracking loss that the   *)
(* recorder has heard of, for every sample age and however late, in        *)
(* whatever order or whether at all the topics deliver (put, snapshot).    *)
THEOREM HeardLossesStaySeparate == SpecBuffer => []HeardLossesSeparate
<1>1. InitBuffer => BufferInv
  BY EmptyBufferInv DEF InitBuffer
<1>2. BufferInv /\ [NextBuffer]_bufferVars => BufferInv'
  <2>1. SUFFICES ASSUME BufferInv, [NextBuffer]_bufferVars PROVE BufferInv'
    OBVIOUS
  <2>2. CASE UNCHANGED bufferVars
    BY <2>1, <2>2 DEF bufferVars, BufferInv, TypeOKBuffer, LossesPrecede
  <2> QED BY <2>1, <2>2, ElapseInv, ReceiveInv, SnapshotInv DEF NextBuffer
<1> QED BY <1>1, <1>2, BufferSeparates, PTL DEF SpecBuffer

-----------------------------------------------------------------------------
(* The recorder and its files. *)

Manifests == [exists : BOOLEAN,
              entries : SUBSET [episode_index : Nat, frames : Nat]]

Lists(m, episodesOnDisk) ==
  \A e \in m.entries : /\ e.episode_index < Len(episodesOnDisk)
                       /\ episodesOnDisk[e.episode_index + 1] = e.frames

FilesTyped ==
  /\ state \in {"DOWN", "IDLE", "RECORDING", "PAUSED", "ERROR"}
  /\ frames \in Nat /\ segment \in Nat /\ sinceFrame \in Nat
  /\ dataset \in {"none", "open", "closed"}
  /\ episodes \in Nat /\ unsealed \in Nat
  /\ sealed \in Seq(Nat) /\ created \in BOOLEAN
  /\ manifest \in Manifests /\ listed \in Manifests

(* Who counts on which file: a handle is never one that was finalized, an  *)
(* episode is recorded into an open dataset, a running recorder's next     *)
(* index is the one that the library will give the episode, and a manifest *)
(* in memory has forgotten nothing that is on disk.                        *)
FilesAgree ==
  /\ dataset \in {"none", "open"}
  /\ dataset = "open" \/ sealed # <<>> \/ unsealed > 0 => created
  /\ state \in {"RECORDING", "PAUSED"} => dataset = "open"
  /\ state # "DOWN" => episodes = Len(sealed)
  /\ state = "DOWN" => dataset = "none"
  /\ Lists(manifest, sealed) /\ Lists(listed, sealed)
  /\ dataset = "open" => manifest.exists
  /\ manifest.exists => listed.entries \subseteq manifest.entries
  /\ ~created => listed.entries = {}

FilesInv == FilesTyped /\ FilesAgree

(* A tick that was rejected is a gap until the next frame. *)
GapsAreKnown == (rejected => gap) /\ (state = "DOWN" => ~rejected)

LEMMA BufferStep ==
  ASSUME BufferInv, [Next]_vars
  PROVE  BufferInv'
<1>1. CASE Elapse
  BY <1>1, ElapseInv
<1>2. CASE Receive
  BY <1>2, ReceiveInv
<1>3. CASE Snapshot
  BY <1>3, SnapshotInv
<1>4. CASE UNCHANGED bufferVars
  BY <1>4 DEF bufferVars, BufferInv, TypeOKBuffer, LossesPrecede
<1>5. CASE Exit
  BY <1>5, EmptiedBufferInv DEF Exit, EmptyBuffer
<1> QED BY <1>1, <1>2, <1>3, <1>4, <1>5 DEF Next, vars, Period, Message, Launch, Start,
           StartFails, Tick, Skip, AddFrame, AddFrameFails, Finish, FinishFails, Discard,
           Status, Close, Kill

(* Another episode takes nothing from a list, and its own entry is true.   *)
LEMMA ListsGrow ==
  ASSUME NEW s \in Seq(Nat), NEW n \in Nat, NEW m \in Manifests, Lists(m, s)
  PROVE  /\ Append(s, n) \in Seq(Nat) /\ Len(Append(s, n)) = Len(s) + 1
         /\ SubSeq(Append(s, n), 1, Len(s)) = s
         /\ Lists(m, Append(s, n))
         /\ WithEntry(m, Len(s), n) \in Manifests
         /\ Lists(WithEntry(m, Len(s), n), Append(s, n))
<1>1. Append(s, n) \in Seq(Nat) /\ Len(Append(s, n)) = Len(s) + 1 /\ Len(s) \in Nat
  OBVIOUS
<1>2. \A i \in 1..Len(s) : Append(s, n)[i] = s[i]
  OBVIOUS
<1>3. Append(s, n)[Len(s) + 1] = n
  OBVIOUS
<1>4. SubSeq(Append(s, n), 1, Len(s)) = s
  <2>1. SubSeq(Append(s, n), 1, Len(s)) \in Seq(Nat)
        /\ Len(SubSeq(Append(s, n), 1, Len(s))) = Len(s)
    BY <1>1
  <2>2. \A i \in 1..Len(s) : SubSeq(Append(s, n), 1, Len(s))[i] = s[i]
    BY <1>1, <1>2
  <2> QED BY <2>1, <2>2
<1>5. Lists(m, Append(s, n))
  BY <1>1, <1>2 DEF Lists, Manifests
<1>6. WithEntry(m, Len(s), n) \in Manifests
  BY <1>1 DEF WithEntry, Manifests
<1>7. Lists(WithEntry(m, Len(s), n), Append(s, n))
  BY <1>1, <1>3, <1>5 DEF Lists, WithEntry, Manifests
<1> QED BY <1>1, <1>4, <1>5, <1>6, <1>7

LEMMA FilesStep ==
  ASSUME FilesInv, [Next]_vars
  PROVE  FilesInv'
<1> USE DEF FilesInv, FilesTyped, FilesAgree
<1>n. NoManifest \in Manifests /\ EmptyManifest \in Manifests
      /\ Lists(NoManifest, sealed) /\ Lists(EmptyManifest, sealed)
      /\ ~NoManifest.exists /\ EmptyManifest.exists /\ EmptyManifest.entries = {}
  BY DEF NoManifest, EmptyManifest, Manifests, Lists
<1>l. Len(sealed) \in Nat /\ (sealed = <<>> => Len(sealed) = 0)
  OBVIOUS
<1>g. ASSUME NEW n \in Nat
      PROVE  /\ SealedWith(n) \in Seq(Nat) /\ Len(SealedWith(n)) = Len(sealed) + 1
             /\ Lists(manifest, SealedWith(n)) /\ Lists(listed, SealedWith(n))
             /\ WithEntry(manifest, Len(sealed), n) \in Manifests
             /\ Lists(WithEntry(manifest, Len(sealed), n), SealedWith(n))
  BY ListsGrow DEF SealedWith
<1>w. ASSUME NEW i, NEW n
      PROVE  /\ WithEntry(manifest, i, n).exists = manifest.exists
             /\ manifest.entries \subseteq WithEntry(manifest, i, n).entries
  BY DEF WithEntry, Manifests
(* What the end of the process leaves to be shown: the files. *)
<1>x. ASSUME Exit, sealed' \in Seq(Nat), unsealed' = 0, created' \in BOOLEAN,
             listed' \in Manifests, Lists(listed', sealed'), sealed' # <<>> => created',
             ~created' => listed'.entries = {}
      PROVE  FilesInv'
  <2>1. Lists(NoManifest, sealed')
    BY DEF NoManifest, Lists
  <2> QED BY <1>x, <1>n, <2>1 DEF Exit, Forget
<1>1. CASE Period
  BY <1>1 DEF Period, diskVars
<1>2. CASE Message
  BY <1>2 DEF Message, ramVars, diskVars
<1>3. ASSUME NEW resume \in BOOLEAN, Launch(resume) PROVE FilesInv'
  <2>1. CASE resume
    BY <1>3, <2>1, <1>n, <1>l DEF Launch, CanLoad, EpisodesOnDisk
  <2>2. CASE ~resume
    BY <1>3, <2>2, <1>n, <1>l DEF Launch
  <2> QED BY <2>1, <2>2
<1>4. CASE Start
  <2>1. CASE dataset # "none"
            /\ UNCHANGED <<dataset, manifest, episodes, listed, created>>
    BY <1>4, <2>1 DEF Start, Begin, Forget
  <2>2. CASE /\ dataset = "none" /\ CanLoad
             /\ dataset' = "open" /\ manifest' = listed /\ episodes' = EpisodesOnDisk
             /\ UNCHANGED <<listed, created>>
    BY <1>4, <2>2, <1>l DEF Start, Begin, Forget, CanLoad, EpisodesOnDisk
  <2>3. CASE /\ dataset = "none" /\ ~manifest.exists /\ ~created
             /\ dataset' = "open" /\ manifest' = EmptyManifest /\ listed' = manifest'
             /\ created' = TRUE
             /\ UNCHANGED episodes
    BY <1>4, <2>3, <1>n DEF Start, Begin, Forget
  <2> QED BY <1>4, <2>1, <2>2, <2>3 DEF Start, OpenDataset
<1>5. CASE StartFails
  <2>1. CASE UNCHANGED diskVars
    BY <1>5, <2>1 DEF StartFails, ramVars, diskVars
  <2>2. CASE /\ ~created
             /\ dataset' = "open" /\ manifest' = EmptyManifest /\ created' = TRUE
             /\ UNCHANGED <<episodes, unsealed, sealed, listed>>
    BY <1>5, <1>n, <2>2 DEF StartFails, ramVars
  <2> QED BY <1>5, <2>1, <2>2 DEF StartFails
<1>6. CASE Skip
  BY <1>6 DEF Skip, Tick, Forget, diskVars
<1>7. CASE AddFrame
  BY <1>7 DEF AddFrame, Tick, Forget, diskVars
<1>8. CASE AddFrameFails
  BY <1>8 DEF AddFrameFails, Tick, Forget, diskVars
<1>9. CASE Finish
  <2>1. dataset = "open" /\ episodes = Len(sealed) /\ frames \in Nat /\ created
    BY <1>9 DEF Finish, Savable
  <2>2. /\ sealed' = SealedWith(frames) /\ unsealed' = 0 /\ UNCHANGED created
        /\ manifest' = WithEntry(manifest, Len(sealed), frames)
        /\ listed' \in {manifest', listed} /\ episodes' = Len(sealed) + 1
        /\ dataset' = "none" /\ state' = "IDLE" /\ frames' = 0
        /\ sinceFrame' = 0 /\ rejected' = FALSE
        /\ UNCHANGED <<segment, gap, ticked>>
    BY <1>9, <2>1 DEF Finish, Seal, HandleAfterFinish, Forget
  <2>3. Lists(manifest', sealed') /\ Lists(listed', sealed')
        /\ manifest' \in Manifests /\ listed' \in Manifests
    BY <1>g, <2>1, <2>2
  <2>4. sealed' \in Seq(Nat) /\ Len(sealed') = episodes' /\ episodes' \in Nat
    BY <1>g, <1>l, <2>1, <2>2
  <2>5. listed'.entries \subseteq manifest'.entries /\ created'
    BY <1>w, <2>1, <2>2
  <2> QED BY <2>1, <2>2, <2>3, <2>4, <2>5
<1>10. CASE FinishFails
  BY <1>10 DEF FinishFails, Savable, Forget
<1>11. CASE Discard
  BY <1>11 DEF Discard, Forget, diskVars
<1>12. CASE Status
  BY <1>12 DEF Status, ramVars, diskVars
<1>13. CASE Close
  <2>1. CASE /\ Savable /\ sealed' = SealedWith(frames) /\ unsealed' = 0
             /\ UNCHANGED created
             /\ listed' \in {WithEntry(manifest, episodes, frames), listed}
    <3>1. episodes = Len(sealed) /\ created
      BY <2>1 DEF Savable
    <3> QED BY <1>x, <1>13, <1>g, <1>n, <2>1, <3>1 DEF Close
  <2>2. CASE /\ ~Savable /\ unsealed = 0
             /\ UNCHANGED <<sealed, unsealed, listed, created>>
    BY <1>x, <1>13, <2>2 DEF Close
  <2>3. CASE /\ Savable \/ unsealed > 0
             /\ \/ sealed' = sealed
                \/ sealed' = SealedWith(IF Savable THEN frames ELSE unsealed)
             /\ unsealed' = 0
             /\ UNCHANGED <<listed, created>>
    <3>1. created
      BY <2>3 DEF Savable
    <3>2. CASE sealed' = sealed
      BY <1>x, <1>13, <2>3, <3>1, <3>2 DEF Close
    <3>3. CASE sealed' = SealedWith(IF Savable THEN frames ELSE unsealed)
      BY <1>x, <1>13, <1>g, <2>3, <3>1, <3>3 DEF Close
    <3> QED BY <2>3, <3>2, <3>3
  <2> QED BY <1>13, <2>1, <2>2, <2>3 DEF Close, Seal
<1>14. CASE Kill
  <2>1. CASE UNCHANGED <<sealed, listed, created>>
    BY <1>x, <1>14, <2>1 DEF Kill
  <2>2. CASE Savable /\ sealed' = SealedWith(frames) /\ UNCHANGED <<listed, created>>
    <3>1. created
      BY <2>2 DEF Savable
    <3> QED BY <1>x, <1>14, <1>g, <2>2, <3>1 DEF Kill
  <2>3. CASE created' = TRUE /\ UNCHANGED <<sealed, listed>>
    BY <1>x, <1>14, <2>3 DEF Kill
  <2> QED BY <1>14, <2>1, <2>2, <2>3 DEF Kill
<1>15. CASE UNCHANGED vars
  BY <1>15 DEF vars, ramVars, diskVars
<1> QED BY <1>1, <1>2, <1>3, <1>4, <1>5, <1>6, <1>7, <1>8, <1>9, <1>10, <1>11, <1>12,
           <1>13, <1>14, <1>15 DEF Next

LEMMA GapsStep ==
  ASSUME GapsAreKnown, [Next]_vars
  PROVE  GapsAreKnown'
<1> USE DEF GapsAreKnown
<1>1. CASE UNCHANGED <<state, gap, rejected>>
  BY <1>1
<1>2. ASSUME ~rejected' PROVE GapsAreKnown'
  BY <1>2
<1>3. ASSUME NEW resume \in BOOLEAN, Launch(resume) PROVE GapsAreKnown'
  BY <1>3 DEF Launch
<1>4. CASE Skip
  <2>1. CASE rejected' = (frames > 0) /\ gap' = (frames > 0) /\ UNCHANGED state
               /\ state = "RECORDING"
    BY <2>1
  <2>2. CASE Forget
    BY <2>2 DEF Forget
  <2> QED BY <1>4, <2>1, <2>2 DEF Skip, Tick
<1>5. CASE Period \/ Message \/ StartFails \/ Status \/ UNCHANGED vars
  BY <1>1, <1>5 DEF Period, Message, StartFails, Status, ramVars, vars
<1>6. CASE Start \/ AddFrame \/ AddFrameFails \/ Finish \/ FinishFails \/ Discard
           \/ Close \/ Kill
  <2>1. rejected' = FALSE
    BY <1>6 DEF Start, Begin, AddFrame, AddFrameFails, Finish, FinishFails, Discard,
                Close, Kill, Exit, Forget
  <2> QED BY <1>2, <2>1
<1> QED BY <1>3, <1>4, <1>5, <1>6 DEF Next

IInv == BufferInv /\ FilesInv /\ GapsAreKnown

(* The invariant of the recorder: which losses it has heard of, what it    *)
(* knows of the files and which gaps it has still to record.               *)
THEOREM Invariance == Spec => []IInv
<1>1. Init => IInv
  <2>1. SUFFICES ASSUME Init PROVE IInv
    OBVIOUS
  <2>2. BufferInv
    BY <2>1, EmptyBufferInv DEF Init, InitBuffer
  <2>3. FilesInv
    <3>1. NoManifest \in Manifests /\ Lists(NoManifest, sealed)
      BY DEF NoManifest, Manifests, Lists
    <3>2. sealed \in Seq(Nat)
      BY <2>1 DEF Init
    <3>3. Lists(manifest, sealed) /\ Lists(listed, sealed)
      BY <2>1 DEF Init, NoManifest, Lists
    <3>4. manifest \in Manifests /\ listed \in Manifests
      BY <2>1, <3>1 DEF Init
    <3>5. Len(sealed) = 0 /\ episodes = 0 /\ unsealed = 0 /\ sealed = <<>>
      BY <2>1 DEF Init
    <3>6. state = "DOWN" /\ dataset = "none" /\ created = FALSE
      BY <2>1 DEF Init
    <3>7. frames = 0 /\ segment = 0 /\ sinceFrame = 0
      BY <2>1 DEF Init
    <3>8. FilesTyped
      BY <3>2, <3>4, <3>5, <3>6, <3>7 DEF FilesTyped
    <3>9. FilesAgree
      BY <2>1, <3>3, <3>5, <3>6 DEF FilesAgree, Init, NoManifest
    <3> QED BY <3>8, <3>9 DEF FilesInv
  <2>4. GapsAreKnown
    BY <2>1 DEF Init, GapsAreKnown
  <2> QED BY <2>2, <2>3, <2>4 DEF IInv
<1>2. IInv /\ [Next]_vars => IInv'
  BY BufferStep, FilesStep, GapsStep DEF IInv
<1> QED BY <1>1, <1>2, PTL DEF Spec

(* The manifest on disk lists only sealed episodes, each under its own     *)
(* index and with its number of frames, whatever fails, dies or resumes    *)
(* (finish, _write_manifest, _load_existing).                              *)
THEOREM ManifestStaysTrue == Spec => []ManifestIsTrue
<1>1. IInv => ManifestIsTrue
  BY DEF IInv, FilesInv, FilesAgree, Lists, ManifestIsTrue
<1> QED BY <1>1, Invariance, PTL

(* What was sealed stays as it is, and what was listed stays listed: a     *)
(* handle that was finalized is never used again (finish sets the dataset  *)
(* to None, start opens it anew), and a manifest is written only by a      *)
(* recorder that has read it or found none.                                *)
THEOREM SealedStays == Spec => SealedIsForever
<1>1. ASSUME FilesInv, [Next]_vars PROVE SubSeq(sealed', 1, Len(sealed)) = sealed
  <2>1. sealed \in Seq(Nat) /\ dataset # "closed" /\ frames \in Nat /\ unsealed \in Nat
    BY <1>1 DEF FilesInv, FilesTyped, FilesAgree
  <2>2. CASE sealed' = sealed
    BY <2>1, <2>2
  <2>3. ASSUME NEW n \in Nat, sealed' = SealedWith(n)
        PROVE  SubSeq(sealed', 1, Len(sealed)) = sealed
    BY <2>1, <2>3, <1>1, ListsGrow DEF SealedWith, FilesInv, FilesTyped, FilesAgree
  <2>4. sealed' = sealed \/ \E n \in Nat : sealed' = SealedWith(n)
    <3>1. CASE Finish \/ Close \/ Kill
      <4>1. \/ sealed' = sealed \/ sealed' = SealedWith(frames)
            \/ sealed' = SealedWith(IF Savable THEN frames ELSE unsealed)
        BY <3>1 DEF Finish, Close, Kill, Seal
      <4> QED BY <2>1, <4>1
    <3>2. CASE ~(Finish \/ Close \/ Kill)
      BY <1>1, <3>2 DEF Next, vars, diskVars, Period, Message, Launch, Start, StartFails,
            Tick, Skip, AddFrame, AddFrameFails, FinishFails, Discard, Status
    <3> QED BY <3>1, <3>2
  <2> QED BY <2>2, <2>3, <2>4
<1>2. ASSUME FilesInv, [Next]_vars PROVE listed.entries \subseteq listed'.entries
  <2> USE <1>2 DEF FilesInv, FilesTyped, FilesAgree
  <2>1. CASE listed' = listed
    BY <2>1
  <2>2. CASE Savable /\ listed' = WithEntry(manifest, episodes, frames)
    <3>1. listed.entries \subseteq manifest.entries
      BY <2>2 DEF Savable
    <3> QED BY <2>2, <3>1 DEF WithEntry, Manifests
  <2>3. CASE ~created
    BY <2>3
  <2>4. CASE Finish \/ Close
    BY <2>1, <2>2, <2>4 DEF Finish, Close, Seal
  <2>5. CASE Start
    BY <2>1, <2>3, <2>5 DEF Start, OpenDataset
  <2>6. CASE ~(Finish \/ Close \/ Start)
    BY <2>1, <2>6 DEF Next, vars, diskVars, Period, Message, Launch, StartFails, Tick,
          Skip, AddFrame, AddFrameFails, FinishFails, Discard, Status, Kill
  <2> QED BY <2>4, <2>5, <2>6
<1>3. IInv /\ [Next]_vars => [/\ SubSeq(sealed', 1, Len(sealed)) = sealed
                             /\ listed.entries \subseteq listed'.entries]_vars
  BY <1>1, <1>2 DEF IInv
<1> QED BY <1>3, Invariance, PTL DEF Spec, SealedIsForever

(* Two frames of a segment have no rejected tick and no stall between      *)
(* them: _gap is set by every skip and cleared only by a frame that begins *)
(* a segment (tick).                                                       *)
THEOREM SegmentsStayGapless == Spec => SegmentsAreGapless
<1>1. ASSUME IInv, [Next]_vars, Records, frames > 0, segment' = segment
      PROVE  ~rejected /\ sinceFrame <= StallLimit
  <2>1. frames \in Nat /\ segment \in Nat /\ sinceFrame \in Nat /\ frames' = frames + 1
    BY <1>1 DEF IInv, FilesInv, FilesTyped, Records
  <2>2. AddFrame
    BY <1>1, <2>1 DEF Next, vars, ramVars, Period, Message, Launch, Start, Begin,
          StartFails, Skip, AddFrameFails, Finish, FinishFails, Discard, Status, Close,
          Kill, Exit
  <2>3. ~NewSegment
    BY <1>1, <2>1, <2>2 DEF AddFrame
  <2>4. ~gap /\ ~(sinceFrame > StallLimit)
    BY <1>1, <2>3 DEF NewSegment
  <2>5. ~rejected
    BY <1>1, <2>4 DEF IInv, GapsAreKnown
  <2> QED BY <2>1, <2>4, <2>5 DEF StallLimit
<1>2. IInv /\ [Next]_vars => [Records /\ frames > 0 /\ segment' = segment
                                => ~rejected /\ sinceFrame <= StallLimit]_vars
  BY <1>1
<1> QED BY <1>2, Invariance, PTL DEF Spec, SegmentsAreGapless

(* The frames of the recorder keep apart what the buffer keeps apart:      *)
(* whatever is recorded, discarded, closed, killed and launched again, no  *)
(* frame holds a target from before a tracking loss that this process was  *)
(* told of (tick takes a frame only from a snapshot without a reason).     *)
THEOREM FramesSeparateLosses ==
  Spec => [][Records => \A s \in Targets : stamp[s] < heardLoss]_vars
<1>1. ASSUME IInv, [Next]_vars, Records PROVE \A s \in Targets : stamp[s] < heardLoss
  <2>1. frames \in Nat /\ frames' = frames + 1
    BY <1>1 DEF IInv, FilesInv, FilesTyped, Records
  <2>2. AddFrame
    BY <1>1, <2>1 DEF Next, vars, ramVars, Period, Message, Launch, Start, Begin,
          StartFails, Skip, AddFrameFails, Finish, FinishFails, Discard, Status, Close,
          Kill, Exit
  <2>3. Usable
    BY <2>2 DEF AddFrame, Verdicts
  <2> QED BY <1>1, <2>3, BufferSeparates DEF IInv, HeardLossesSeparate
<1>2. IInv /\ [Next]_vars => [Records => \A s \in Targets : stamp[s] < heardLoss]_vars
  BY <1>1
<1> QED BY <1>2, Invariance, PTL DEF Spec

(* The types of the recorder's state, for any number of frames and         *)
(* episodes.                                                               *)
THEOREM TypeCorrect == Spec => []TypeOK
<1> DEFINE Flags == gap \in BOOLEAN /\ ticked \in BOOLEAN /\ rejected \in BOOLEAN
<1>1. Init => Flags
  BY DEF Init
<1>2. ASSUME Flags, [Next]_vars PROVE Flags'
  <2>1. CASE Skip
    <3>1. gap' = (frames > 0) /\ ticked' = TRUE
      BY <2>1 DEF Skip, Tick
    <3>2. rejected' = (frames > 0) \/ rejected' = FALSE
      BY <2>1 DEF Skip, Forget
    <3>3. (frames > 0) \in BOOLEAN
      OBVIOUS
    <3> QED BY <3>1, <3>2, <3>3
  <2>2. CASE ~Skip
    <3>1. gap' = gap \/ gap' = FALSE
      BY <1>2, <2>2 DEF Next, vars, ramVars, Period, Message, Launch, Start, Begin,
            StartFails, AddFrame, AddFrameFails, Finish, FinishFails, Discard, Status,
            Close, Kill, Exit
    <3>2. ticked' = ticked \/ ticked' = FALSE \/ ticked' = TRUE
      BY <1>2, <2>2 DEF Next, vars, ramVars, Period, Message, Launch, Start, StartFails,
            Tick, AddFrame, AddFrameFails, Finish, FinishFails, Discard, Status, Close,
            Kill, Exit
    <3>3. rejected' = rejected \/ rejected' = FALSE
      BY <1>2, <2>2 DEF Next, vars, ramVars, Forget, Period, Message, Launch, Start,
            Begin, StartFails, AddFrame, AddFrameFails, Finish, FinishFails, Discard,
            Status, Close, Kill, Exit
    <3> QED BY <1>2, <3>1, <3>2, <3>3
  <2> QED BY <2>1, <2>2
<1>3. IInv /\ Flags => TypeOK
  BY DEF IInv, BufferInv, FilesInv, FilesTyped, TypeOK
<1> QED BY <1>1, <1>2, <1>3, Invariance, PTL DEF Spec
=============================================================================
