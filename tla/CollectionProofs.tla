-------------------------- MODULE CollectionProofs --------------------------
(***************************************************************************)
(* Type correctness of CollectionRun, and that local data is not lost:     *)
(* NoLocalLoss and RecordedHasCopy of CollectionSafety.  All of it for     *)
(* every set of References, Sets, names and contents, every source and     *)
(* every choice of faults; the last two on a local root that tells letter  *)
(* case apart, or for names that do not differ only by case.               *)
(*                                                                         *)
(* TypeOK is not inductive: a rename reads its paths from the manifests,   *)
(* and an install the staged content, so MoveInv adds that these are there *)
(* as long as renames, destinations and staged downloads are pending.      *)
(* CopyInv says what the files look like around a rename: its target is    *)
(* free before the copy, and between copy and removal both hold the        *)
(* content.  RecordInv adds that what the manifest, the plan or a result   *)
(* calls complete has a local copy.                                        *)
(***************************************************************************)
EXTENDS CollectionSafety, TLAPS

-----------------------------------------------------------------------------
(* Type correctness.                                                       *)


(* What a plan with pending renames or destinations refers to.             *)
MovesPlanned ==
    \A p \in renames \cup moving :
        /\ saved # NoManifest
        /\ next # NoManifest
        /\ saved.placements[p].path \in Paths
        /\ next.placements[p].path \in Paths
        /\ saved.placements[p].path # next.placements[p].path

MovesInPhase ==
    /\ pc \in {"idle", "downloading", "saving"} => renames = {}
    /\ pc \notin {"removing", "ended"} => moving = {}

SameDirectory ==
    pc \in {"renaming", "removing"} /\ saved # NoManifest /\ next # NoManifest
        => next.name = saved.name

DestinationsPlanned ==
    \A p \in Placements : dest[p] # "none" =>
        next # NoManifest /\ next.placements[p].path \in Paths

(* A download is installed only once its content is known.                 *)
StagedKnown == \A r \in References : job[r] = "staged" => digest[r] \in Contents

MoveInv ==
    /\ MovesPlanned
    /\ MovesInPhase
    /\ SameDirectory
    /\ DestinationsPlanned
    /\ StagedKnown

-----------------------------------------------------------------------------
(* Types of the planner's results.                                         *)

(* The manifest that merge starts from is a manifest.                      *)
LEMMA NewManifestType ==
    ASSUME NEW name \in Names
    PROVE  NewManifest(name) \in ManifestRecord
  BY DEF NewManifest, ManifestRecord, NewReference, NewPlacement, ReferenceRecord,
     PlacementRecord, PresenceState, DownloadState, RunState, Checksums

(* The presence of what the source no longer shows is a presence.          *)
LEMMA MissingIfRecordedType ==
    ASSUME NEW presence \in PresenceState
    PROVE  MissingIfRecorded(presence) \in PresenceState
  BY DEF MissingIfRecorded, PresenceState

(* A source path is a path.                                                *)
LEMMA SourcePathType ==
    ASSUME NEW s \in SourceCollection, NEW p \in Placements
    PROVE  SourcePath(s, p) \in Paths
  BY DEF SourcePath, SourceCollection, Placements, Paths

(* A merged Placement record has its type.                                 *)
LEMMA MergedPlacementType ==
    ASSUME NEW v, v.prior \in ManifestRecord, v.src \in SourceCollection,
           NEW p \in Placements
    PROVE  MergedPlacement(v, p) \in PlacementRecord
  <1> DEFINE old == v.prior.placements[p]
  <1>1. old \in PlacementRecord
    BY DEF ManifestRecord
  <1>2. CASE p \notin Active(v.src)
    <2>1. MissingIfRecorded(old.presence) \in PresenceState
      BY <1>1, MissingIfRecordedType DEF PlacementRecord
    <2>2. UnshownPlacement(old) \in PlacementRecord
      BY <1>1, <2>1 DEF UnshownPlacement, PlacementRecord
    <2> QED
      BY <1>2, <2>2 DEF MergedPlacement
  <1>3. CASE p \in Active(v.src)
    BY <1>1, <1>3, SourcePathType
    DEF MergedPlacement, PlacementRecord, PresenceState, DownloadState, Checksums
  <1> QED
    BY <1>2, <1>3

(* A merged Reference record has its type.                                 *)
LEMMA MergedReferenceType ==
    ASSUME NEW v, v.prior \in ManifestRecord, NEW r \in References
    PROVE  MergedReference(v, r) \in ReferenceRecord
  <1> DEFINE old == v.prior.references[r]
             active == {p \in Active(v.src) : p[1] = r}
  <1>1. old \in ReferenceRecord
    BY DEF ManifestRecord
  <1>2. CASE active = {}
    <2>1. MissingIfRecorded(old.presence) \in PresenceState
      BY <1>1, MissingIfRecordedType DEF ReferenceRecord
    <2>2. UnplacedReference(v, r) \in ReferenceRecord
      BY <1>1, <2>1 DEF UnplacedReference, ReferenceRecord, PresenceState
    <2> QED
      BY <1>2, <2>2 DEF MergedReference
  <1>3. CASE active # {}
    BY <1>1, <1>3
    DEF MergedReference, ReferenceRecord, PresenceState, DownloadState, Checksums
  <1> QED
    BY <1>2, <1>3

(* merge makes a manifest.                                                 *)
LEMMA MergedType ==
    ASSUME NEW v, v.prior \in ManifestRecord, v.src \in SourceCollection
    PROVE  Merged(v) \in ManifestRecord
  <1> DEFINE m == [name       |-> v.src.name,
                   presence   |-> "present",
                   run        |-> "incomplete",
                   sets       |-> [s \in Sets |-> MergedSet(v, s)],
                   references |-> [r \in References |-> MergedReference(v, r)],
                   placements |-> [p \in Placements |-> MergedPlacement(v, p)]]
  <1>1. \A s \in Sets : MergedSet(v, s) \in PresenceState
    <2> TAKE s \in Sets
    <2>1. v.prior.sets[s] \in PresenceState
      BY DEF ManifestRecord
    <2> QED
      BY <2>1, MissingIfRecordedType DEF MergedSet, PresenceState
  <1>2. \A r \in References : MergedReference(v, r) \in ReferenceRecord
    BY MergedReferenceType
  <1>3. \A p \in Placements : MergedPlacement(v, p) \in PlacementRecord
    BY MergedPlacementType
  <1>4. v.src.name \in Names
    BY DEF SourceCollection
  <1>5. m \in ManifestRecord
    BY <1>1, <1>2, <1>3, <1>4 DEF ManifestRecord, RunState
  <1>6. RunStateOf(m) \in RunState
    BY DEF RunStateOf, RunState
  <1>7. Merged(v) = [m EXCEPT !.run = RunStateOf(m)]
    BY DEF Merged
  <1> HIDE DEF m
  <1> QED
    BY <1>5, <1>6, <1>7 DEF ManifestRecord

(* MarkSourceMissing makes a manifest.                                     *)
LEMMA SourceMissingType ==
    ASSUME NEW m \in ManifestRecord
    PROVE  SourceMissing(m) \in ManifestRecord
  <1>1. \A s \in Sets : MissingIfRecorded(m.sets[s]) \in PresenceState
    BY MissingIfRecordedType DEF ManifestRecord
  <1>2. ASSUME NEW r \in References
        PROVE  [m.references[r] EXCEPT !.presence = MissingIfRecorded(@)]
                   \in ReferenceRecord
    <2>1. m.references[r] \in ReferenceRecord
      BY DEF ManifestRecord
    <2>2. MissingIfRecorded(m.references[r].presence) \in PresenceState
      BY <2>1, MissingIfRecordedType DEF ReferenceRecord
    <2> QED
      BY <2>1, <2>2 DEF ReferenceRecord
  <1>3. ASSUME NEW p \in Placements
        PROVE  [m.placements[p] EXCEPT !.presence = MissingIfRecorded(@)]
                   \in PlacementRecord
    <2>1. m.placements[p] \in PlacementRecord
      BY DEF ManifestRecord
    <2>2. MissingIfRecorded(m.placements[p].presence) \in PresenceState
      BY <2>1, MissingIfRecordedType DEF PlacementRecord
    <2> QED
      BY <2>1, <2>2 DEF PlacementRecord
  <1> QED
    BY <1>1, <1>2, <1>3 DEF SourceMissing, ManifestRecord

(* The results of the downloads fit into the planned manifest.             *)
LEMMA AppliedRecord ==
    ASSUME TypeOK, next # NoManifest
    PROVE  Applied \in ManifestRecord
  <1>1. next \in ManifestRecord
    BY DEF TypeOK
  <1>2. ASSUME NEW p \in Placements
        PROVE  AppliedPlacement(p) \in PlacementRecord
    <2>1. next.placements[p] \in PlacementRecord
      BY <1>1 DEF ManifestRecord
    <2>2. digest[p[1]] \in Checksums
      BY DEF TypeOK, Placements
    <2> QED
      BY <2>1, <2>2 DEF AppliedPlacement, PlacementRecord, DownloadState
  <1>3. ASSUME NEW r \in References
        PROVE  AppliedReference(r) \in ReferenceRecord
    <2>1. next.references[r] \in ReferenceRecord
      BY <1>1 DEF ManifestRecord
    <2>2. digest[r] \in Checksums
      BY DEF TypeOK
    <2>3. RecomputedState(r) \in DownloadState
      BY DEF RecomputedState, DownloadState
    <2> QED
      BY <2>1, <2>2, <2>3 DEF AppliedReference, ReferenceRecord, DownloadState
  <1> QED
    BY <1>1, <1>2, <1>3 DEF Applied, ManifestRecord

LEMMA AppliedType ==
    ASSUME TypeOK
    PROVE  Applied \in ManifestRecord \cup {NoManifest}
  BY AppliedRecord DEF Applied

-----------------------------------------------------------------------------
(* What a run starts with.                                                 *)

(* A planned rename is of a recorded Placement, from its recorded path to  *)
(* another one that is free, unless it differs only by case.               *)
LEMMA RenamesRecorded ==
    ASSUME TypeOK, NEW o \in RunOptions,
           Working(View(o)), Refusal(View(o)) = "none",
           NEW p \in Renames(View(o))
    PROVE  /\ saved # NoManifest
           /\ p \in Placements
           /\ saved.placements[p].path \in Paths
           /\ Merged(View(o)).placements[p].path = SourcePath(src, p)
           /\ SourcePath(src, p) \in Paths
           /\ saved.placements[p].path # SourcePath(src, p)
           /\ \/ files[Key(saved.name, p, SourcePath(src, p))] = NoFile
              \/ /\ SameCaseOnly(saved.placements[p].path, SourcePath(src, p))
                 /\ SameFile(files, Key(saved.name, p, saved.placements[p].path),
                             Key(saved.name, p, SourcePath(src, p)))
  <1> DEFINE v == View(o)
  <1>1. /\ v.src = src /\ v.files = files /\ v.opts = o
        /\ v.prior = IF saved = NoManifest THEN NewManifest(src.name) ELSE saved
    BY DEF View
  <1>2. src \in SourceCollection
    BY DEF TypeOK
  <1>3. p \in Active(src) /\ Trusted(v, p) /\ PathChanged(v, p)
    BY <1>1 DEF Renames
  <1>4. p \in Placements
    BY <1>2, <1>3 DEF Active, SourceCollection
  <1>5. v.prior.placements[p].presence # "none"
    BY <1>3 DEF Trusted, Recorded
  <1>6. saved # NoManifest
    <2> SUFFICES ASSUME saved = NoManifest PROVE FALSE
      OBVIOUS
    <2>1. v.prior.placements[p] = NewPlacement
      BY <1>1, <1>4 DEF NewManifest
    <2> QED
      BY <1>5, <2>1 DEF NewPlacement
  <1>7. v.prior = saved /\ saved \in ManifestRecord
    BY <1>1, <1>6 DEF TypeOK
  <1>8. Valid(saved) /\ ~DestinationExists(v)
    BY <1>1, <1>6 DEF Refusal, Working
  <1>9. saved.placements[p].path \in Paths
    <2>1. saved.placements[p].path # NoPath
      BY <1>4, <1>5, <1>7, <1>8 DEF Valid
    <2> QED
      BY <2>1, <1>4, <1>7 DEF ManifestRecord, PlacementRecord
  <1>10. Merged(v).placements[p].path = SourcePath(src, p)
    <2>1. Merged(v).placements[p] = MergedPlacement(v, p)
      BY <1>4 DEF Merged
    <2> QED
      BY <1>1, <1>3, <2>1 DEF MergedPlacement
  <1>11. saved.placements[p].path # SourcePath(src, p)
    BY <1>1, <1>3, <1>7 DEF PathChanged
  <1>12. \/ files[Key(saved.name, p, SourcePath(src, p))] = NoFile
         \/ /\ SameCaseOnly(saved.placements[p].path, SourcePath(src, p))
            /\ SameFile(files, Key(saved.name, p, saved.placements[p].path),
                        Key(saved.name, p, SourcePath(src, p)))
    <2>1. ~PlacementExists(v)
      BY <1>8 DEF DestinationExists
    <2> QED
      BY <1>1, <1>3, <1>5, <1>7, <2>1
      DEF PlacementExists, SourceKey, RecordedKey, Recorded
  <1> QED
    BY <1>2, <1>4, <1>6, <1>9, <1>10, <1>11, <1>12, SourcePathType

(* A planned destination has a path in the planned manifest.               *)
LEMMA DownloadsPlanned ==
    ASSUME TypeOK, NEW o \in RunOptions, NEW p \in Downloads(View(o))
    PROVE  /\ p \in Placements
           /\ Merged(View(o)).placements[p].path = SourcePath(src, p)
           /\ SourcePath(src, p) \in Paths
  <1> DEFINE v == View(o)
  <1>1. v.src = src /\ src \in SourceCollection
    BY DEF View, TypeOK
  <1>2. p \in Active(src)
    BY <1>1 DEF Downloads
  <1>3. p \in Placements
    BY <1>1, <1>2 DEF Active, SourceCollection
  <1>4. Merged(v).placements[p] = MergedPlacement(v, p)
    BY <1>3 DEF Merged
  <1> QED
    BY <1>1, <1>2, <1>3, <1>4, SourcePathType DEF MergedPlacement

(* What a run plans is a manifest, or nothing.                             *)
LEMMA PlannedType ==
    ASSUME TypeOK, NEW o \in RunOptions
    PROVE  /\ Planned(View(o)) \in ManifestRecord \cup {NoManifest}
           /\ Merged(View(o)) \in ManifestRecord
  <1> DEFINE v == View(o)
  <1>1. v.src = src /\ src \in SourceCollection /\ src.name \in Names
    BY DEF View, TypeOK, SourceCollection
  <1>2. v.prior \in ManifestRecord
    BY <1>1, NewManifestType DEF View, TypeOK
  <1>3. Merged(v) \in ManifestRecord
    BY <1>1, <1>2, MergedType
  <1>4. saved # NoManifest => SourceMissing(saved) \in ManifestRecord
    BY SourceMissingType DEF TypeOK
  <1> QED
    BY <1>3, <1>4 DEF Planned, TypeOK

-----------------------------------------------------------------------------
(* Type correctness.                                                       *)

IInv == TypeOK /\ MoveInv

(* The variables that a run forgets at its end fit every invariant.        *)
LEMMA ForgetKeeps ==
    ASSUME IInv, Forget, UNCHANGED <<source, disk>>
    PROVE  IInv'
  <1>1. TypeOK'
    BY DEF IInv, TypeOK, Forget, source, disk, AllOptions, Options, Phase, NoJobs,
       NoSums, NoDests, JobState, DestState, Outcome, Checksums
  <1>2. MoveInv'
    BY DEF MoveInv, MovesPlanned, MovesInPhase, SameDirectory, DestinationsPlanned,
       StagedKnown, Forget, NoDests, NoJobs
  <1> QED
    BY <1>1, <1>2 DEF IInv

(* Init satisfies the invariant.                                           *)
LEMMA InitIInv == Init => IInv
  <1> SUFFICES ASSUME Init PROVE IInv
    OBVIOUS
  <1>1. TypeOK
    <2>1. events \in 0..MaxEvents
      BY EnvironmentAssumption DEF Init
    <2>2. src \in SourceCollection
      BY EnvironmentAssumption DEF Init
    <2>3. job \in [References -> JobState] /\ dest \in [Placements -> DestState]
      BY DEF Init, NoJobs, NoDests, JobState, DestState
    <2>4. digest \in [References -> Checksums]
      BY DEF Init, NoSums, Checksums
    <2> QED
      BY <2>1, <2>2, <2>3, <2>4 DEF Init, TypeOK, AllOptions, Options, Phase, Outcome
  <1>2. MoveInv
    BY DEF Init, MoveInv, MovesPlanned, MovesInPhase, SameDirectory,
       DestinationsPlanned, StagedKnown, NoDests, NoJobs
  <1> QED
    BY <1>1, <1>2 DEF IInv

(* Planning keeps the invariant.                                           *)
LEMMA StartKeeps ==
    ASSUME IInv, NEW o \in RunOptions, Start(o)
    PROVE  IInv'
  <1> DEFINE v == View(o)
  <1>0. TypeOK /\ MoveInv
    BY DEF IInv
  <1>1. /\ pc = "idle" /\ opts' = o /\ o \in Options
        /\ src' = src /\ events' = events /\ files' = files /\ saved' = saved
        /\ moving' = moving /\ digest' = digest /\ canceled' = canceled
    BY EnvironmentAssumption DEF Start, source, disk
  <1>2. CASE Refusal(v) # "none"
    <2>1. /\ pc' = "ended" /\ outcome' = Refusal(v)
          /\ UNCHANGED <<next, renames, job, dest>>
      BY <1>2 DEF Start
    <2>2. Refusal(v) \in Outcome
      BY DEF Refusal, Outcome
    <2>3. TypeOK'
      BY <1>0, <1>1, <2>1, <2>2 DEF TypeOK, Phase
    <2>4. MoveInv'
      BY <1>0, <1>1, <2>1
      DEF MoveInv, MovesPlanned, MovesInPhase, SameDirectory, DestinationsPlanned,
          StagedKnown
    <2> QED
      BY <2>3, <2>4 DEF IInv
  <1>3. CASE Refusal(v) = "none"
    <2>1. /\ pc' = "planned" /\ next' = Planned(v) /\ outcome' = outcome
          /\ renames' = IF Working(v) THEN Renames(v) ELSE {}
          /\ dest' = [p \in Placements |->
                 IF Working(v) /\ p \in Downloads(v) THEN "queued" ELSE "none"]
          /\ job' = [r \in References |->
                 IF Working(v) /\ \E p \in Downloads(v) : p[1] = r
                 THEN "queued" ELSE "none"]
      BY <1>3 DEF Start
    <2>2. next' \in ManifestRecord \cup {NoManifest}
      BY <1>0, <2>1, PlannedType
    <2>3. renames' \in SUBSET Placements
      BY <1>0, <1>3, <2>1, RenamesRecorded
    <2>4. dest' \in [Placements -> DestState] /\ job' \in [References -> JobState]
      BY <2>1 DEF DestState, JobState
    <2>5. TypeOK'
      BY <1>0, <1>1, <2>1, <2>2, <2>3, <2>4 DEF TypeOK, Phase
    <2>6. Working(v) => next' = Merged(v) /\ Merged(v) # NoManifest
      BY <1>0, <2>1, PlannedType, DataAssumption DEF Planned
    <2>7. moving' = {}
      BY <1>0, <1>1 DEF MoveInv, MovesInPhase
    <2>8. MovesPlanned'
      BY <1>0, <1>1, <1>3, <2>1, <2>6, <2>7, RenamesRecorded DEF MovesPlanned
    <2>9. DestinationsPlanned'
      BY <1>0, <2>1, <2>6, DownloadsPlanned DEF DestinationsPlanned
    <2>10. MovesInPhase' /\ SameDirectory'
      BY <2>1, <2>7 DEF MovesInPhase, SameDirectory
    <2>11. StagedKnown'
      BY <2>1 DEF StagedKnown
    <2> QED
      BY <2>5, <2>8, <2>9, <2>10, <2>11 DEF IInv, MoveInv
  <1> QED
    BY <1>2, <1>3

(* The copy that a rename makes is a file.                                 *)
LEMMA CopiedType ==
    ASSUME IInv, pc = "renaming", NEW p \in renames, files[From(p)] # NoFile
    PROVE  /\ From(p) \in FileKeys
           /\ [content |-> files[From(p)].content, meta |-> FALSE] \in File
           /\ Copied(p) \in [FileKeys -> File \cup {NoFile}]
  <1>0. TypeOK /\ MoveInv
    BY DEF IInv
  <1>1. From(p) \in FileKeys
    BY <1>0, DataAssumption
    DEF TypeOK, MoveInv, MovesPlanned, From, Key, FileKeys, Paths, ManifestRecord
  <1>2. files[From(p)].content \in Digests
    BY <1>0, <1>1 DEF TypeOK, File
  <1>3. [content |-> files[From(p)].content, meta |-> FALSE] \in File
    BY <1>2 DEF File
  <1> QED
    BY <1>0, <1>1, <1>3 DEF TypeOK, Copied

(* Both halves of a rename, failing or not, keep the invariant.            *)
LEMMA RenameKeeps ==
    ASSUME IInv,
           RenameError \/ \E p \in Placements : RenamePut(p) \/ RenameRemove(p)
    PROVE  IInv'
  <1>0. TypeOK /\ MoveInv
    BY DEF IInv
  <1>1. ASSUME RenameFails, files' \in [FileKeys -> File \cup {NoFile}]
        PROVE  IInv'
    <2>1. /\ pc' = "ended" /\ outcome' = "rename failed"
          /\ UNCHANGED <<source, saved, planVars, workVars, canceled>>
      BY <1>1 DEF RenameFails, EndWith
    <2>2. TypeOK'
      BY <1>0, <1>1, <2>1 DEF TypeOK, Phase, Outcome, source, planVars, workVars
    <2>3. MoveInv'
      BY <1>0, <2>1
      DEF MoveInv, MovesPlanned, MovesInPhase, SameDirectory, DestinationsPlanned,
          StagedKnown, planVars, workVars
    <2> QED
      BY <2>2, <2>3 DEF IInv
  <1>2. files \in [FileKeys -> File \cup {NoFile}]
    BY <1>0 DEF TypeOK
  <1>3. \A p : Removed(p) \in [FileKeys -> File \cup {NoFile}]
    BY <1>2 DEF Removed
  <1>4. CASE RenameError
    <2>1. RenameFails
      BY <1>4 DEF RenameError
    <2>2. files' \in [FileKeys -> File \cup {NoFile}]
      BY <1>2, <1>3, <1>4, CopiedType DEF RenameError
    <2> QED
      BY <1>1, <2>1, <2>2
  <1>5. ASSUME NEW p \in Placements, RenamePut(p), files[From(p)] = NoFile
        PROVE  IInv'
    BY <1>1, <1>2, <1>5 DEF RenamePut
  <1>6. ASSUME NEW p \in Placements, RenamePut(p), files[From(p)] # NoFile
        PROVE  IInv'
    <2>1. /\ pc = "renaming" /\ p \in renames
          /\ files' = Copied(p)
          /\ renames' = renames \ {p} /\ moving' = {p} /\ pc' = "removing"
          /\ UNCHANGED <<source, saved, planVars, job, digest, dest,
                         canceled, outcome>>
      BY <1>6 DEF RenamePut
    <2>2. files' \in [FileKeys -> File \cup {NoFile}]
      BY <1>6, <2>1, CopiedType
    <2>3. TypeOK'
      BY <1>0, <2>1, <2>2 DEF TypeOK, Phase, source, planVars
    <2>4. MoveInv'
      BY <1>0, <2>1
      DEF MoveInv, MovesPlanned, MovesInPhase, SameDirectory, DestinationsPlanned,
          StagedKnown, planVars
    <2> QED
      BY <2>3, <2>4 DEF IInv
  <1>7. ASSUME NEW p \in Placements, RenameRemove(p)
        PROVE  IInv'
    <2>1. /\ files' = Removed(p)
          /\ pc = "removing" /\ moving' = {} /\ pc' = "renaming"
          /\ UNCHANGED <<source, saved, planVars, renames, job, digest, dest,
                         canceled, outcome>>
      BY <1>7 DEF RenameRemove
    <2>2. TypeOK'
      BY <1>0, <1>3, <2>1 DEF TypeOK, Phase, source, planVars
    <2>3. MoveInv'
      BY <1>0, <2>1
      DEF MoveInv, MovesPlanned, MovesInPhase, SameDirectory, DestinationsPlanned,
          StagedKnown, planVars
    <2> QED
      BY <2>2, <2>3 DEF IInv
  <1> QED
    BY <1>4, <1>5, <1>6, <1>7

(* So do the steps that only move the run on, or end it.                   *)
LEMMA PhaseStepKeeps ==
    ASSUME IInv, Decline \/ Confirm \/ RenamesDone \/ DownloadsDone \/ Cancel
    PROVE  IInv'
  <1>0. TypeOK /\ MoveInv
    BY DEF IInv
  <1>1. /\ UNCHANGED <<source, disk, planVars, workVars>>
        /\ pc' \in Phase /\ outcome' \in Outcome /\ canceled' \in BOOLEAN
    BY <1>0
    DEF Decline, Confirm, RenamesDone, DownloadsDone, Cancel, EndWith, TypeOK, Phase,
        Outcome
  <1>2. TypeOK'
    BY <1>0, <1>1 DEF TypeOK, source, disk, planVars, workVars
  <1>3. MovesPlanned' /\ DestinationsPlanned' /\ StagedKnown'
    BY <1>0, <1>1
    DEF MoveInv, MovesPlanned, DestinationsPlanned, StagedKnown, disk, planVars, workVars
  <1>4. MovesInPhase' /\ SameDirectory'
    <2>1. CASE Decline
      <3>1. pc' = "ended"
        BY <2>1 DEF Decline, EndWith
      <3> QED
        BY <3>1 DEF MovesInPhase, SameDirectory
    <2>2. CASE Confirm
      <3>1. CASE pc' = "ended"
        BY <3>1 DEF MovesInPhase, SameDirectory
      <3>2. CASE pc' # "ended"
        <4>1. pc = "planned" /\ pc' = "renaming"
          BY <2>2, <3>2 DEF Confirm, EndWith
        <4>2. next # NoManifest /\ saved # NoManifest => next.name = saved.name
          BY <2>2, <3>2 DEF Confirm, EndWith
        <4> QED
          BY <1>0, <1>1, <4>1, <4>2
          DEF MoveInv, MovesInPhase, SameDirectory, disk, planVars, workVars
      <3> QED
        BY <3>1, <3>2
    <2>3. CASE RenamesDone \/ DownloadsDone
      <3>1. \/ pc = "renaming" /\ pc' = "downloading" /\ renames = {}
            \/ pc = "downloading" /\ pc' = "saving"
        BY <2>3 DEF RenamesDone, DownloadsDone
      <3> QED
        BY <1>0, <1>1, <3>1 DEF MoveInv, MovesInPhase, SameDirectory, workVars
    <2>4. CASE Cancel
      <3>1. pc' = pc
        BY <2>4 DEF Cancel
      <3> QED
        BY <1>0, <1>1, <3>1
        DEF MoveInv, MovesInPhase, SameDirectory, disk, planVars, workVars
    <2> QED
      BY <2>1, <2>2, <2>3, <2>4
  <1> QED
    BY <1>2, <1>3, <1>4 DEF IInv, MoveInv

(* The file that a download installs is a file.                            *)
LEMMA InstalledType ==
    ASSUME IInv, NEW p \in Placements, job[p[1]] = "staged"
    PROVE  /\ [content |-> digest[p[1]], meta |-> ObjectStore] \in File
           /\ Installed(p) \in [FileKeys -> File \cup {NoFile}]
  <1>1. digest[p[1]] \in Contents
    BY DEF IInv, MoveInv, StagedKnown, Placements
  <1>2. [content |-> digest[p[1]], meta |-> ObjectStore] \in File
    BY <1>1, DataAssumption DEF File, Digests
  <1> QED
    BY <1>2 DEF IInv, TypeOK, Installed

(* A download step keeps the invariant.                                    *)
LEMMA DownloadKeeps ==
    ASSUME IInv,
           \/ \E r \in References : Fetch(r) \/ FetchFails(r)
           \/ \E p \in Placements : Install(p) \/ InstallFails(p)
    PROVE  IInv'
  <1>0. TypeOK /\ MoveInv
    BY DEF IInv
  <1>1. /\ UNCHANGED <<source, saved, pc, planVars, renames, moving, canceled, outcome>>
        /\ pc = "downloading"
    BY DEF Fetch, FetchFails, Install, InstallFails, DownloadStep
  <1>2. /\ job' \in [References -> JobState] /\ digest' \in [References -> Checksums]
        /\ dest' \in [Placements -> DestState]
        /\ files' \in [FileKeys -> File \cup {NoFile}]
        /\ \A p \in Placements : dest'[p] # "none" => dest[p] # "none"
        /\ StagedKnown'
    <2>1. ASSUME NEW r \in References, Fetch(r) PROVE <1>2!:
      <3>1. src.content[r] \in Checksums /\ src.content[r] \in Contents
        BY <1>0 DEF TypeOK, SourceCollection, Checksums
      <3> QED
        BY <1>0, <2>1, <3>1 DEF Fetch, TypeOK, JobState, MoveInv, StagedKnown
    <2>2. ASSUME NEW r \in References, FetchFails(r) PROVE <1>2!:
      BY <1>0, <2>2 DEF FetchFails, TypeOK, JobState, MoveInv, StagedKnown
    <2>3. ASSUME NEW p \in Placements, Install(p) PROVE <1>2!:
      <3>1. files' \in [FileKeys -> File \cup {NoFile}]
        BY <2>3, InstalledType DEF Install
      <3> QED
        BY <1>0, <2>3, <3>1 DEF Install, TypeOK, DestState, MoveInv, StagedKnown
    <2>4. ASSUME NEW p \in Placements, InstallFails(p) PROVE <1>2!:
      <3>1. files' \in [FileKeys -> File \cup {NoFile}]
        <4>1. files \in [FileKeys -> File \cup {NoFile}]
          BY <1>0 DEF TypeOK
        <4>2. files' = files \/ files' = Installed(p)
          BY <2>4 DEF InstallFails
        <4>3. Installed(p) \in [FileKeys -> File \cup {NoFile}]
          BY <2>4, InstalledType DEF InstallFails
        <4> QED
          BY <4>1, <4>2, <4>3
      <3> QED
        BY <1>0, <2>4, <3>1 DEF InstallFails, TypeOK, DestState, MoveInv, StagedKnown
    <2> QED
      BY <2>1, <2>2, <2>3, <2>4
  <1>3. TypeOK'
    BY <1>0, <1>1, <1>2 DEF TypeOK, source, planVars
  <1>4. MoveInv'
    BY <1>0, <1>1, <1>2
    DEF MoveInv, MovesPlanned, MovesInPhase, SameDirectory, DestinationsPlanned, planVars
  <1> QED
    BY <1>3, <1>4 DEF IInv

(* Writing the manifest keeps the invariant.                               *)
LEMMA SaveKeeps ==
    ASSUME IInv, Save \/ SaveFails
    PROVE  IInv'
  <1>0. TypeOK /\ MoveInv
    BY DEF IInv
  <1>1. /\ pc = "saving" /\ pc' = "ended" /\ outcome' \in Outcome
        /\ saved' = saved \/ saved' = Applied
        /\ UNCHANGED <<source, files, planVars, workVars, canceled>>
    BY DEF Save, SaveFails, EndWith, Outcome
  <1>2. saved' \in ManifestRecord \cup {NoManifest}
    BY <1>0, <1>1, AppliedType DEF TypeOK
  <1>3. TypeOK'
    BY <1>0, <1>1, <1>2 DEF TypeOK, source, planVars, workVars, Phase
  <1>4. MoveInv'
    <2>1. renames' = {} /\ moving' = {}
      BY <1>0, <1>1 DEF MoveInv, MovesInPhase, workVars
    <2>2. MovesPlanned' /\ MovesInPhase' /\ SameDirectory'
      BY <1>1, <2>1 DEF MovesPlanned, MovesInPhase, SameDirectory
    <2>3. DestinationsPlanned' /\ StagedKnown'
      BY <1>0, <1>1 DEF MoveInv, DestinationsPlanned, StagedKnown, planVars, workVars
    <2> QED
      BY <2>2, <2>3 DEF MoveInv
  <1> QED
    BY <1>3, <1>4 DEF IInv

(* An event stays within the bound.                                        *)
LEMMA EventType ==
    ASSUME TypeOK, Event
    PROVE  events' \in 0..MaxEvents
  <1>1. events \in 0..MaxEvents /\ MaxEvents \in Nat
    BY EnvironmentAssumption DEF TypeOK
  <1>2. events < MaxEvents /\ events' = events + 1
    BY DEF Event
  <1> QED
    BY <1>1, <1>2

(* A change of one archived file by the user keeps the invariant.          *)
LEMMA UserKeeps ==
    ASSUME IInv, NEW k \in FileKeys, UserDeletes(k) \/ UserDamages(k)
    PROVE  IInv'
  <1>0. TypeOK /\ MoveInv
    BY DEF IInv
  <1>1. /\ events' \in 0..MaxEvents
        /\ files' \in [FileKeys -> File \cup {NoFile}]
        /\ UNCHANGED <<src, saved, pc, planVars, workVars, canceled, outcome>>
    <2>1. [content |-> Junk, meta |-> FALSE] \in File
      BY DEF File, Digests
    <2>2. PICK file \in File \cup {NoFile} : Tamper(k, file)
      BY <2>1 DEF UserDeletes, UserDamages
    <2>3. files' \in [FileKeys -> File \cup {NoFile}]
      BY <1>0, <2>2 DEF Tamper, TypeOK
    <2>4. events' \in 0..MaxEvents
      BY <1>0, <2>2, EventType DEF Tamper
    <2> QED
      BY <2>2, <2>3, <2>4 DEF Tamper
  <1>2. TypeOK'
    BY <1>0, <1>1 DEF TypeOK, planVars, workVars
  <1>3. MoveInv'
    BY <1>0, <1>1
    DEF MoveInv, MovesPlanned, MovesInPhase, SameDirectory, DestinationsPlanned,
        StagedKnown, planVars, workVars
  <1> QED
    BY <1>2, <1>3 DEF IInv

(* A change at the source keeps the invariant.                             *)
LEMMA SourceKeeps ==
    ASSUME IInv, SourceChanges
    PROVE  IInv'
  <1>0. TypeOK /\ MoveInv
    BY DEF IInv
  <1> DEFINE Becomes(s) == \E kind \in ChangeKinds : Change(kind, s)
  <1>1. \E s \in SourceCollection : Becomes(s)
    <2>0. src \in SourceCollection
      BY <1>0 DEF TypeOK
    <2>1. CASE Change("listing", [src EXCEPT !.listed = ~@])
      BY <2>0, <2>1 DEF SourceCollection, ChangeKinds
    <2>2. CASE \E n \in Names : Change("title", [src EXCEPT !.name = n])
      BY <2>0, <2>2 DEF SourceCollection, ChangeKinds
    <2>3. CASE \E n \in Names, s \in Sets :
                  Change("names", [src EXCEPT !.setName[s] = n])
      BY <2>0, <2>3 DEF SourceCollection, ChangeKinds
    <2>4. CASE \E n \in Names, r \in References :
                  Change("names", [src EXCEPT !.refName[r] = n])
      BY <2>0, <2>4 DEF SourceCollection, ChangeKinds
    <2>5. CASE \E p \in Placements :
                 \/ Change("placements", [src EXCEPT !.at = @ \ {p}])
                 \/ /\ p[2] \in src.sets
                    /\ Change("placements", [src EXCEPT !.at = @ \cup {p}])
      BY <2>0, <2>5 DEF SourceCollection, ChangeKinds
    <2>6. CASE \E s \in Sets :
                 Change("sets", IF s \in src.sets
                                THEN [src EXCEPT !.sets = @ \ {s},
                                                 !.at = {p \in @ : p[2] # s}]
                                ELSE [src EXCEPT !.sets = @ \cup {s}])
      BY <2>0, <2>6 DEF SourceCollection, ChangeKinds
    <2>7. CASE \E r \in References, c \in Contents :
                 Change("content", [src EXCEPT !.content[r] = c])
      BY <2>0, <2>7 DEF SourceCollection, ChangeKinds
    <2>8. CASE \E r \in References, k \in MediaKind \ {"image"} :
                 /\ src.kind[r] # "image"
                 /\ Change("video", [src EXCEPT !.kind[r] = k])
      BY <2>0, <2>8 DEF SourceCollection, ChangeKinds
    <2> QED
      BY <2>1, <2>2, <2>3, <2>4, <2>5, <2>6, <2>7, <2>8 DEF SourceChanges
  <1>2. PICK s \in SourceCollection : Becomes(s)
    BY <1>1
  <1>3. /\ src' \in SourceCollection /\ events' \in 0..MaxEvents
        /\ UNCHANGED <<disk, pc, planVars, workVars, canceled, outcome>>
    BY <1>0, <1>2, EventType DEF Change
  <1>4. TypeOK'
    BY <1>0, <1>3 DEF TypeOK, disk, planVars, workVars
  <1>5. MoveInv'
    BY <1>0, <1>3
    DEF MoveInv, MovesPlanned, MovesInPhase, SameDirectory, DestinationsPlanned,
        StagedKnown, disk, planVars, workVars
  <1> QED
    BY <1>4, <1>5 DEF IInv

(* Every step keeps the invariant.                                         *)
LEMMA StepKeeps == IInv /\ [Next]_vars => IInv'
  <1> SUFFICES ASSUME IInv, [Next]_vars
               PROVE  IInv'
    OBVIOUS
  <1>1. CASE RunStep
    <2>1. CASE \E o \in RunOptions : Start(o)
      BY <2>1, StartKeeps
    <2>2. CASE Confirm \/ RenamesDone \/ DownloadsDone
      BY <2>2, PhaseStepKeeps
    <2>3. CASE \E p \in Placements : RenamePut(p) \/ RenameRemove(p)
      BY <2>3, RenameKeeps
    <2>4. CASE \/ \E r \in References : Fetch(r) \/ (canceled /\ FetchFails(r))
               \/ \E p \in Placements : Install(p) \/ (canceled /\ InstallFails(p))
      BY <2>4, DownloadKeeps
    <2>5. CASE Save
      BY <2>5, SaveKeeps
    <2>6. CASE Exit
      BY <2>6, ForgetKeeps DEF Exit
    <2> QED
      BY <1>1, <2>1, <2>2, <2>3, <2>4, <2>5, <2>6 DEF RunStep
  <1>2. CASE FaultStep
    <2>1. CASE Decline \/ Cancel
      BY <2>1, PhaseStepKeeps
    <2>4. CASE RenameError
      BY <2>4, RenameKeeps
    <2>5. CASE SaveFails
      BY <2>5, SaveKeeps
    <2>2. CASE \/ \E r \in References : FetchFails(r)
               \/ \E p \in Placements : InstallFails(p)
      BY <2>2, DownloadKeeps
    <2>3. CASE Crash
      BY <2>3, ForgetKeeps DEF Crash
    <2> QED
      BY <1>2, <2>1, <2>2, <2>3, <2>4, <2>5 DEF FaultStep
  <1>3. CASE UserStep
    BY <1>3, UserKeeps DEF UserStep
  <1>4. CASE SourceChanges
    BY <1>4, SourceKeeps
  <1>5. CASE UNCHANGED vars
    BY <1>5
    DEF vars, IInv, TypeOK, MoveInv, MovesPlanned, MovesInPhase, SameDirectory,
        DestinationsPlanned, StagedKnown
  <1> QED
    BY <1>1, <1>2, <1>3, <1>4, <1>5 DEF Next

(* The strengthened type invariant holds in every state.                   *)
LEMMA Invariant == Spec => []IInv
  <1> QED
    BY InitIInv, StepKeeps, PTL DEF Spec

(* The source, the files, the manifest and the run always have their       *)
(* types: in particular no step writes a record, a state or a path that    *)
(* the manifest model of internal/manifest does not know.                  *)
THEOREM TypeCorrect == Spec => []TypeOK
  <1>1. IInv => TypeOK
    BY DEF IInv
  <1> QED
    BY <1>1, Invariant, PTL


-----------------------------------------------------------------------------
(* Renames and local data.                                                 *)

(* Different names never lead to one file: the output root is a local      *)
(* filesystem that tells case apart, or no two names of the source differ  *)
(* only by case.  The run case_rename shows what happens otherwise.        *)
CaseInjective == \A n, m \in Names : CaseFold[n] = CaseFold[m] => n = m

NamesApart == CaseInjective \/ (~CaseInsensitive /\ ~ObjectStore)

(* A pending rename goes to a key where nothing is stored.                 *)
TargetsFree ==
    pc # "ended" => \A p \in renames :
        files[Key(saved.name, p, next.placements[p].path)] = NoFile

(* Between the two halves of a rename the content is stored twice.         *)
BothCopies ==
    pc = "removing" => \A p \in moving :
        /\ files[From(p)] # NoFile
        /\ files[To(p)] # NoFile
        /\ files[To(p)].content = files[From(p)].content

CopyInv == TargetsFree /\ BothCopies

(* Different paths of a Placement are stored under different keys.         *)
LEMMA KeyInjective ==
    ASSUME NamesApart, NEW dir, NEW p, NEW path \in Paths, NEW other \in Paths,
           path # other
    PROVE  Key(dir, p, path) # Key(dir, p, other)
  <1>1. path[1] # other[1] \/ path[2] # other[2]
    BY DEF Paths
  <1>2. /\ path[1] \in Names /\ path[2] \in Names
        /\ other[1] \in Names /\ other[2] \in Names
    BY DEF Paths
  <1>3. CASE ~CaseInsensitive
    BY <1>1, <1>3 DEF Key
  <1>4. CASE CaseInsensitive
    <2>1. \/ CaseFold[path[1]] # CaseFold[other[1]]
          \/ CaseFold[path[2]] # CaseFold[other[2]]
      BY <1>1, <1>2, <1>4 DEF NamesApart, CaseInjective
    <2> QED
      BY <1>4, <2>1 DEF Key
  <1> QED
    BY <1>3, <1>4

(* The key a pending rename goes to is a key of the files.                 *)
LEMMA TargetKey ==
    ASSUME IInv, NEW p \in renames
    PROVE  Key(saved.name, p, next.placements[p].path) \in FileKeys
  <1>1. /\ saved \in ManifestRecord /\ p \in Placements
        /\ next.placements[p].path \in Paths
    BY DEF IInv, TypeOK, MoveInv, MovesPlanned
  <1>2. saved.name \in Names /\ CaseFold \in [Names -> Names]
    BY <1>1, DataAssumption DEF ManifestRecord
  <1> QED
    BY <1>1, <1>2 DEF Key, FileKeys, Paths

(* The two keys of a rename are stored keys, and differ.                   *)
LEMMA RenameKeys ==
    ASSUME NamesApart, IInv, pc \in {"renaming", "removing"},
           NEW p \in renames \cup moving
    PROVE  /\ From(p) \in FileKeys /\ To(p) \in FileKeys
           /\ From(p) # To(p)
           /\ To(p) = Key(saved.name, p, next.placements[p].path)
  <1>1. /\ saved \in ManifestRecord /\ next \in ManifestRecord
        /\ p \in Placements /\ next.name = saved.name
        /\ saved.placements[p].path \in Paths /\ next.placements[p].path \in Paths
        /\ saved.placements[p].path # next.placements[p].path
    BY DEF IInv, TypeOK, MoveInv, MovesPlanned, SameDirectory
  <1>2. saved.name \in Names /\ CaseFold \in [Names -> Names]
    BY <1>1, DataAssumption DEF ManifestRecord
  <1>3. \A path \in Paths : Key(saved.name, p, path) \in FileKeys
    BY <1>1, <1>2 DEF Key, FileKeys, Paths
  <1> QED
    BY <1>1, <1>3, KeyInjective DEF From, To

(* A key belongs to the Placement it is made for.                          *)
LEMMA KeyPlacement ==
    ASSUME NEW dir, NEW p, NEW path
    PROVE  Key(dir, p, path)[2] = p
  BY DEF Key

(* Storing a file where none was, or for another Placement, loses nothing  *)
(* of a Placement.                                                         *)
LEMMA StoringKeepsLocal ==
    ASSUME files \in [FileKeys -> File \cup {NoFile}],
           NEW k, NEW file \in File, files' = [files EXCEPT ![k] = file],
           NEW q \in Placements, k[2] # q \/ files[k] = NoFile
    PROVE  Local(q) \subseteq Local(q)'
  <1> SUFFICES ASSUME NEW l \in FileKeys, l[2] = q, files[l] # NoFile
               PROVE  files'[l] = files[l]
    BY DEF Local
  <1>1. l # k
    OBVIOUS
  <1> QED
    BY <1>1

(* The planned renames go to free keys.                                    *)
LEMMA StartTargetsFree ==
    ASSUME NamesApart, IInv, NEW o \in RunOptions, Start(o)
    PROVE  CopyInv'
  <1> DEFINE v == View(o)
  <1>0. TypeOK /\ renames = {} /\ pc = "idle" /\ files' = files /\ saved' = saved
    BY DEF IInv, MoveInv, MovesInPhase, Start, disk
  <1>1. CASE Refusal(v) # "none"
    BY <1>0, <1>1 DEF Start, CopyInv, TargetsFree, BothCopies, EndWith
  <1>2. CASE Refusal(v) = "none"
    <2>1. /\ pc' = "planned" /\ next' = Planned(v)
          /\ renames' = IF Working(v) THEN Renames(v) ELSE {}
      BY <1>2 DEF Start
    <2>2. ASSUME NEW p \in renames'
          PROVE  files[Key(saved.name, p, next'.placements[p].path)] = NoFile
      <3>1. Working(v) /\ p \in Renames(v) /\ next' = Merged(v)
        BY <2>1, <2>2 DEF Planned
      <3>2. /\ saved.placements[p].path \in Paths
            /\ SourcePath(src, p) \in Paths
            /\ saved.placements[p].path # SourcePath(src, p)
            /\ next'.placements[p].path = SourcePath(src, p)
            /\ \/ files[Key(saved.name, p, SourcePath(src, p))] = NoFile
               \/ /\ SameCaseOnly(saved.placements[p].path, SourcePath(src, p))
                  /\ SameFile(files, Key(saved.name, p, saved.placements[p].path),
                              Key(saved.name, p, SourcePath(src, p)))
        BY <1>0, <1>2, <3>1, RenamesRecorded
      <3>3. CASE CaseInjective
        <4>1. ~SameCaseOnly(saved.placements[p].path, SourcePath(src, p))
          BY <3>2, <3>3 DEF SameCaseOnly, CaseInjective, Paths
        <4> QED
          BY <3>2, <4>1
      <3>4. CASE ~ObjectStore
        <4>1. Key(saved.name, p, saved.placements[p].path)
                # Key(saved.name, p, SourcePath(src, p))
          BY <3>2, KeyInjective
        <4> QED
          BY <3>2, <3>4, <4>1 DEF SameFile
      <3> QED
        BY <3>3, <3>4 DEF NamesApart
    <2> QED
      BY <1>0, <2>1, <2>2 DEF CopyInv, TargetsFree, BothCopies
  <1> QED
    BY <1>1, <1>2

(* Both halves of a rename keep one copy at least.                         *)
LEMMA RenameKeepsCopies ==
    ASSUME NamesApart, IInv, CopyInv, NEW p \in Placements,
           RenamePut(p) \/ RenameRemove(p), pc' # "ended"
    PROVE  CopyInv'
  <1>0. files \in [FileKeys -> File \cup {NoFile}]
    BY DEF IInv, TypeOK
  <1>1. CASE RenamePut(p)
    <2> DEFINE copy == [content |-> files[From(p)].content, meta |-> FALSE]
    <2>1. /\ pc = "renaming" /\ p \in renames /\ files[From(p)] # NoFile
          /\ files' = [files EXCEPT ![To(p)] = copy]
          /\ renames' = renames \ {p} /\ moving' = {p} /\ pc' = "removing"
          /\ saved' = saved /\ next' = next
      BY <1>1 DEF RenamePut, RenameFails, EndWith, Copied, planVars
    <2>2. /\ From(p) \in FileKeys /\ To(p) \in FileKeys /\ From(p) # To(p)
      BY <2>1, RenameKeys
    <2>3. copy # NoFile
      BY <2>1, CopiedType, DataAssumption
    <2>4. TargetsFree'
      <3> SUFFICES ASSUME NEW q \in renames'
                   PROVE  files'[Key(saved.name, q, next.placements[q].path)] = NoFile
        BY <2>1 DEF TargetsFree
      <3>1. q \in renames /\ q # p
        BY <2>1
      <3>2. Key(saved.name, q, next.placements[q].path) # To(p)
        BY <3>1, KeyPlacement DEF To
      <3>3. Key(saved.name, q, next.placements[q].path) \in FileKeys
        BY <3>1, TargetKey
      <3> QED
        BY <1>0, <2>1, <3>1, <3>2, <3>3 DEF CopyInv, TargetsFree
    <2>5. BothCopies'
      <3>1. From(p)' = From(p) /\ To(p)' = To(p)
        BY <2>1 DEF From, To
      <3>2. files'[From(p)] = files[From(p)] /\ files'[To(p)] = copy
        BY <1>0, <2>1, <2>2
      <3> QED
        BY <2>1, <2>3, <3>1, <3>2 DEF BothCopies
    <2> QED
      BY <2>4, <2>5 DEF CopyInv
  <1>2. CASE RenameRemove(p)
    <2>1. /\ files' = [files EXCEPT ![From(p)] = NoFile]
          /\ pc = "removing" /\ pc' = "renaming"
          /\ saved' = saved /\ next' = next /\ renames' = renames
      BY <1>2 DEF RenameRemove, Removed, planVars
    <2>2. TargetsFree'
      <3> SUFFICES ASSUME NEW q \in renames
                   PROVE  files'[Key(saved.name, q, next.placements[q].path)] = NoFile
        BY <2>1 DEF TargetsFree
      <3>1. Key(saved.name, q, next.placements[q].path) \in FileKeys
        BY TargetKey
      <3> QED
        BY <1>0, <2>1, <3>1 DEF CopyInv, TargetsFree
    <2> QED
      BY <2>1, <2>2 DEF CopyInv, BothCopies
  <1> QED
    BY <1>1, <1>2

(* Every step keeps the copies.                                            *)
LEMMA CopyKeeps ==
    ASSUME NamesApart, IInv, CopyInv, [Next]_vars
    PROVE  CopyInv'
  <1>0. TypeOK /\ MovesInPhase
    BY DEF IInv, MoveInv
  <1>1. CASE \E o \in RunOptions : Start(o)
    BY <1>1, StartTargetsFree
  <1>2. CASE /\ RenameError \/ \E p \in Placements : RenamePut(p) \/ RenameRemove(p)
             /\ pc' # "ended"
    <2>1. ~RenameError
      BY <1>2 DEF RenameError, RenameFails, EndWith
    <2> QED
      BY <1>2, <2>1, RenameKeepsCopies
  <1>10. CASE pc' = "ended"
    BY <1>10 DEF CopyInv, TargetsFree, BothCopies
  <1>3. CASE Confirm \/ RenamesDone \/ DownloadsDone \/ Decline \/ Cancel
    <2>1. /\ UNCHANGED <<files, saved, next, renames, moving>>
          /\ pc' = "removing" => pc = "removing"
          /\ pc # "ended"
      BY <1>3
      DEF Confirm, RenamesDone, DownloadsDone, Decline, Cancel, EndWith, disk,
          planVars, workVars
    <2> QED
      BY <2>1 DEF CopyInv, TargetsFree, BothCopies, From, To
  <1>4. CASE \/ \E r \in References : Fetch(r) \/ FetchFails(r)
             \/ \E p \in Placements : Install(p) \/ InstallFails(p)
    <2>1. pc = "downloading" /\ pc' = pc /\ renames' = renames
      BY <1>4 DEF Fetch, FetchFails, Install, InstallFails, DownloadStep
    <2> QED
      BY <1>0, <2>1 DEF MovesInPhase, CopyInv, TargetsFree, BothCopies
  <1>5. CASE Save \/ SaveFails
    <2>1. pc' = "ended"
      BY <1>5 DEF Save, SaveFails, EndWith
    <2> QED
      BY <1>10, <2>1
  <1>6. CASE Exit \/ Crash
    <2>1. pc' = "idle" /\ renames' = {}
      BY <1>6 DEF Exit, Crash, Forget
    <2> QED
      BY <2>1 DEF CopyInv, TargetsFree, BothCopies
  <1>7. CASE UserStep
    <2>1. PICK k \in FileKeys, file \in File \cup {NoFile} : Tamper(k, file)
      BY <1>7 DEF UserStep, UserDeletes, UserDamages, File, Digests
    <2>2. /\ files[k] # NoFile /\ files' = [files EXCEPT ![k] = file]
          /\ pc \in {"idle", "planned"} /\ pc' = pc
          /\ UNCHANGED <<saved, next, renames>>
      BY <2>1 DEF Tamper, planVars, workVars
    <2>3. TargetsFree'
      <3> SUFFICES ASSUME NEW p \in renames
                   PROVE  files'[Key(saved.name, p, next.placements[p].path)] = NoFile
        BY <2>2 DEF TargetsFree
      <3> DEFINE key == Key(saved.name, p, next.placements[p].path)
      <3>1. files[key] = NoFile
        BY <2>2 DEF CopyInv, TargetsFree
      <3>2. files'[key] = files[key]
        BY <1>0, <2>2, <3>1, TargetKey DEF TypeOK
      <3> QED
        BY <3>1, <3>2
    <2> QED
      BY <2>2, <2>3 DEF CopyInv, BothCopies
  <1>8. CASE SourceChanges
    <2>1. UNCHANGED <<disk, pc, planVars, workVars>>
      BY <1>8 DEF SourceChanges, Change
    <2> QED
      BY <2>1 DEF CopyInv, TargetsFree, BothCopies, From, To, disk, planVars, workVars
  <1>9. CASE UNCHANGED vars
    BY <1>9 DEF vars, CopyInv, TargetsFree, BothCopies, From, To
  <1> QED
    BY <1>1, <1>2, <1>3, <1>4, <1>5, <1>6, <1>7, <1>8, <1>9, <1>10
    DEF Next, RunStep, FaultStep

(* What NoLocalLoss says of one step.                                      *)
LosesOnlyToDownload ==
    pc \notin {"idle", "planned"} =>
        \A p \in Placements : \A c \in Local(p) \ Local(p)' :
            /\ dest[p] = "queued" /\ dest'[p] \in {"installed", "failed"}
            /\ digest[p[1]] \in Local(p)'

(* A step that leaves the files alone loses nothing.                       *)
LEMMA SameFilesKeepLocal ==
    ASSUME files' = files, NEW q
    PROVE  Local(q)' = Local(q)
  BY DEF Local

(* The copy of a rename goes to a free key.                                *)
LEMMA CopiedKeepsLocal ==
    ASSUME NamesApart, IInv, CopyInv, pc = "renaming", NEW p \in renames,
           files[From(p)] # NoFile, files' = Copied(p), NEW q \in Placements
    PROVE  Local(q) \subseteq Local(q)'
  <1> DEFINE copy == [content |-> files[From(p)].content, meta |-> FALSE]
  <1>1. files' = [files EXCEPT ![To(p)] = copy]
    BY DEF Copied
  <1>2. files[To(p)] = NoFile
    BY RenameKeys DEF CopyInv, TargetsFree
  <1>3. copy \in File
    BY CopiedType
  <1>4. files \in [FileKeys -> File \cup {NoFile}]
    BY DEF IInv, TypeOK
  <1> QED
    BY <1>1, <1>2, <1>3, <1>4, StoringKeepsLocal

(* The removal of a rename leaves the copy.                                *)
LEMMA RemovedKeepsLocal ==
    ASSUME NamesApart, IInv, CopyInv, pc = "removing", NEW p \in moving,
           files' = Removed(p), NEW q \in Placements
    PROVE  Local(q) \subseteq Local(q)'
  <1>1. files' = [files EXCEPT ![From(p)] = NoFile]
    BY DEF Removed
  <1>2. files \in [FileKeys -> File \cup {NoFile}]
    BY DEF IInv, TypeOK
  <1>3. /\ From(p) \in FileKeys /\ To(p) \in FileKeys /\ From(p) # To(p)
        /\ files[To(p)] # NoFile /\ files[To(p)].content = files[From(p)].content
    BY <1>1, RenameKeys DEF CopyInv, BothCopies
  <1>4. From(p)[2] = p /\ To(p)[2] = p
    BY KeyPlacement DEF From, To
  <1>5. ASSUME NEW l \in FileKeys, l[2] = q, files[l] # NoFile
        PROVE  \E k \in FileKeys :
                  k[2] = q /\ files'[k] # NoFile /\ files'[k].content = files[l].content
    <2>1. CASE l = From(p)
      <3>1. files'[To(p)] = files[To(p)]
        BY <1>1, <1>2, <1>3
      <3> QED
        BY <1>3, <1>4, <1>5, <2>1, <3>1
    <2>2. CASE l # From(p)
      <3>1. files'[l] = files[l]
        BY <1>1, <1>2, <2>2
      <3> QED
        BY <1>5, <3>1
    <2> QED
      BY <2>1, <2>2
  <1> QED
    BY <1>5 DEF Local

(* An installed file may replace those of its own Placement only.          *)
LEMMA InstalledLoses ==
    ASSUME IInv, NEW p \in Placements, dest[p] = "queued", job[p[1]] = "staged",
           files' = Installed(p)
    PROVE  /\ \A q \in Placements \ {p} : Local(q) \subseteq Local(q)'
           /\ digest[p[1]] \in Local(p)'
  <1> DEFINE file == [content |-> digest[p[1]], meta |-> ObjectStore]
  <1>1. files' = [files EXCEPT ![To(p)] = file]
    BY DEF Installed
  <1>2. files \in [FileKeys -> File \cup {NoFile}]
    BY DEF IInv, TypeOK
  <1>3. file \in File /\ file # NoFile
    BY InstalledType, DataAssumption
  <1>4. To(p)[2] = p
    BY KeyPlacement DEF To
  <1>5. To(p) \in FileKeys
    <2>1. next \in ManifestRecord /\ next.placements[p].path \in Paths
      BY DEF IInv, TypeOK, MoveInv, DestinationsPlanned
    <2>2. next.name \in Names /\ CaseFold \in [Names -> Names]
      BY <2>1, DataAssumption DEF ManifestRecord
    <2> QED
      BY <2>1, <2>2 DEF To, Key, FileKeys, Paths
  <1>6. \A q \in Placements \ {p} : Local(q) \subseteq Local(q)'
    BY <1>1, <1>2, <1>3, <1>4, StoringKeepsLocal
  <1>7. files'[To(p)] = file /\ file.content = digest[p[1]]
    BY <1>1, <1>2, <1>5
  <1>8. files'[To(p)].content \in Local(p)'
    BY <1>3, <1>4, <1>5, <1>7 DEF Local
  <1> QED
    BY <1>6, <1>7, <1>8

(* How a step of the program may change the files.                         *)
LEMMA FileSteps ==
    ASSUME TypeOK, [Next]_vars
    PROVE  \/ files' = files
           \/ UserStep /\ pc \in {"idle", "planned"}
           \/ /\ pc = "renaming"
              /\ \E p \in renames : files[From(p)] # NoFile /\ files' = Copied(p)
           \/ pc = "removing" /\ \E p \in moving : files' = Removed(p)
           \/ \E p \in Placements :
                 /\ dest[p] = "queued" /\ job[p[1]] = "staged"
                 /\ dest'[p] \in {"installed", "failed"}
                 /\ files' = Installed(p)
  <1>1. CASE \E p \in Placements : Install(p) \/ InstallFails(p)
    <2>1. PICK p \in Placements : Install(p) \/ InstallFails(p)
      BY <1>1
    <2>2. dest'[p] \in {"installed", "failed"}
      BY <2>1 DEF Install, InstallFails, TypeOK
    <2> QED
      BY <2>1, <2>2 DEF Install, InstallFails
  <1>2. CASE RenameError \/ \E p \in Placements : RenamePut(p) \/ RenameRemove(p)
    BY <1>2 DEF RenameError, RenamePut, RenameRemove
  <1>3. CASE UserStep
    BY <1>3 DEF UserStep, UserDeletes, UserDamages, Tamper
  <1>4. CASE SourceChanges
    BY <1>4 DEF SourceChanges, Change, disk
  <1>5. CASE UNCHANGED vars
    BY <1>5 DEF vars
  <1>6. CASE \/ \E o \in RunOptions : Start(o)
             \/ Confirm \/ RenamesDone \/ DownloadsDone \/ Save \/ Exit
             \/ \E r \in References : Fetch(r) \/ FetchFails(r)
             \/ Decline \/ SaveFails \/ Cancel \/ Crash
    BY <1>6
    DEF Start, Confirm, RenamesDone, DownloadsDone, Save, Exit, Fetch, FetchFails,
        Decline, SaveFails, Cancel, Crash, disk
  <1> QED
    BY <1>1, <1>2, <1>3, <1>4, <1>5, <1>6 DEF Next, RunStep, FaultStep

(* A step loses local data only to a download.                             *)
LEMMA StepLosesOnlyToDownload ==
    ASSUME NamesApart, IInv, CopyInv, [Next]_vars
    PROVE  LosesOnlyToDownload
  <1>1. CASE files' = files
    BY <1>1, SameFilesKeepLocal DEF LosesOnlyToDownload
  <1>2. CASE UserStep /\ pc \in {"idle", "planned"}
    BY <1>2 DEF LosesOnlyToDownload
  <1>3. CASE /\ pc = "renaming"
             /\ \E p \in renames : files[From(p)] # NoFile /\ files' = Copied(p)
    BY <1>3, CopiedKeepsLocal DEF LosesOnlyToDownload
  <1>4. CASE pc = "removing" /\ \E p \in moving : files' = Removed(p)
    BY <1>4, RemovedKeepsLocal DEF LosesOnlyToDownload
  <1>5. CASE \E p \in Placements :
               /\ dest[p] = "queued" /\ job[p[1]] = "staged"
               /\ dest'[p] \in {"installed", "failed"}
               /\ files' = Installed(p)
    BY <1>5, InstalledLoses DEF LosesOnlyToDownload
  <1> QED
    BY <1>1, <1>2, <1>3, <1>4, <1>5, FileSteps DEF IInv

(* On a root where different names never lead to one file, no step of a    *)
(* run loses the last copy of a Placement's content, but for an atomic Put *)
(* of the content downloaded for that Placement: whatever the source       *)
(* renames, and wherever renames, downloads and runs fail, are canceled or *)
(* killed.                                                                 *)
THEOREM NoLocalDataIsLost == NamesApart => (Spec => NoLocalLoss)
  <1> SUFFICES ASSUME NamesApart
               PROVE  Spec => NoLocalLoss
    OBVIOUS
  <1>1. Init => CopyInv
    BY DEF Init, CopyInv, TargetsFree, BothCopies
  <1>2. IInv /\ CopyInv /\ [Next]_vars => CopyInv'
    BY CopyKeeps
  <1>3. IInv /\ CopyInv /\ [Next]_vars => [LosesOnlyToDownload]_files
    BY StepLosesOnlyToDownload
  <1>4. Spec => [][LosesOnlyToDownload]_files
    BY <1>1, <1>2, <1>3, Invariant, PTL DEF Spec
  <1> QED
    BY <1>4 DEF NoLocalLoss, LosesOnlyToDownload

-----------------------------------------------------------------------------
(* Recorded Placements have a local copy.                                  *)

CompleteHasCopy(m) ==
    m # NoManifest =>
        \A p \in Placements : m.placements[p].state = "complete" => Local(p) # {}

RecordInv ==
    /\ CompleteHasCopy(saved)
    /\ CompleteHasCopy(next)
    /\ \A p \in Placements : dest[p] = "installed" => Local(p) # {}

(* No step but a deletion by the user takes the last copy of a Placement.  *)
LEMMA CopyStays ==
    ASSUME NamesApart, IInv, CopyInv, [Next]_vars, "delete" \notin Tampering,
           NEW q \in Placements, Local(q) # {}
    PROVE  Local(q)' # {}
  <1>1. CASE files' = files
    BY <1>1, SameFilesKeepLocal
  <1>2. CASE UserStep
    <2> DEFINE junk == [content |-> Junk, meta |-> FALSE]
    <2>1. PICK k \in FileKeys : files' = [files EXCEPT ![k] = junk]
      BY <1>2 DEF UserStep, UserDeletes, UserDamages, Tamper
    <2>2. junk # NoFile
      <3>1. junk \in File
        BY DEF File, Digests
      <3> QED
        BY <3>1, DataAssumption
    <2>3. files \in [FileKeys -> File \cup {NoFile}]
      BY DEF IInv, TypeOK
    <2>4. PICK l \in FileKeys : l[2] = q /\ files[l] # NoFile
      BY DEF Local
    <2>5. files'[l] # NoFile
      BY <2>1, <2>2, <2>3, <2>4
    <2> QED
      BY <2>4, <2>5 DEF Local
  <1>3. CASE /\ pc = "renaming"
             /\ \E p \in renames : files[From(p)] # NoFile /\ files' = Copied(p)
    BY <1>3, CopiedKeepsLocal
  <1>4. CASE pc = "removing" /\ \E p \in moving : files' = Removed(p)
    BY <1>4, RemovedKeepsLocal
  <1>5. CASE \E p \in Placements :
               /\ dest[p] = "queued" /\ job[p[1]] = "staged"
               /\ dest'[p] \in {"installed", "failed"}
               /\ files' = Installed(p)
    BY <1>5, InstalledLoses
  <1> QED
    BY <1>1, <1>2, <1>3, <1>4, <1>5, FileSteps DEF IInv

(* A plan records as complete only what the manifest records so already,   *)
(* with the same checksum.                                                 *)
LEMMA PlannedComplete ==
    ASSUME TypeOK, NEW o, Planned(View(o)) # NoManifest, NEW p \in Placements,
           Planned(View(o)).placements[p].state = "complete"
    PROVE  /\ saved # NoManifest /\ saved.placements[p].state = "complete"
           /\ Planned(View(o)).placements[p].sha = saved.placements[p].sha
  <1> DEFINE v == View(o)
             old == v.prior.placements[p]
  <1>1. v.prior = IF saved = NoManifest THEN NewManifest(src.name) ELSE saved
    BY DEF View
  <1>2. old.state = "complete" => saved # NoManifest /\ old = saved.placements[p]
    <2>1. NewManifest(src.name).placements[p].state = "pending"
      BY DEF NewManifest, NewPlacement
    <2> QED
      BY <1>1, <2>1
  <1>3. CASE Working(v)
    <2>1. Planned(v).placements[p] = MergedPlacement(v, p)
      BY <1>3 DEF Planned, Merged
    <2>2. CASE p \in Active(v.src)
      <3>1. MergedPlacement(v, p).state = IF Kept(v, p) THEN "complete" ELSE "pending"
        BY <2>2 DEF MergedPlacement
      <3>2. Kept(v, p) /\ Trusted(v, p)
        BY <2>1, <3>1 DEF Kept
      <3>3. MergedPlacement(v, p).sha = old.sha
        BY <2>2, <3>2 DEF MergedPlacement
      <3> QED
        BY <1>2, <2>1, <3>2, <3>3 DEF Trusted
    <2>3. CASE p \notin Active(v.src)
      <3>1. MergedPlacement(v, p) = [old EXCEPT !.presence = MissingIfRecorded(@)]
        BY <2>3 DEF MergedPlacement, UnshownPlacement
      <3>2. /\ MergedPlacement(v, p).state = old.state
            /\ saved # NoManifest =>
                  MergedPlacement(v, p).sha = saved.placements[p].sha
        <4>1. MergedPlacement(v, p).state = old.state
          BY <3>1
        <4>2. ASSUME saved # NoManifest
              PROVE  MergedPlacement(v, p).sha = saved.placements[p].sha
          <5>1. saved.placements[p] \in PlacementRecord /\ old = saved.placements[p]
            BY <1>1, <4>2 DEF TypeOK, ManifestRecord
          <5> QED
            BY <3>1, <5>1 DEF PlacementRecord
        <4> QED
          BY <4>1, <4>2
      <3> QED
        BY <1>2, <2>1, <3>2
    <2> QED
      BY <2>2, <2>3
  <1>4. CASE ~Working(v) /\ v.src.listed
    BY <1>4 DEF Planned
  <1>5. CASE ~Working(v) /\ ~v.src.listed
    <2>1. saved # NoManifest /\ Planned(v) = SourceMissing(saved)
      BY <1>5 DEF Planned
    <2>2. /\ SourceMissing(saved).placements[p].state = saved.placements[p].state
          /\ SourceMissing(saved).placements[p].sha = saved.placements[p].sha
      <3>1. saved \in ManifestRecord /\ saved.placements[p] \in PlacementRecord
        BY <2>1 DEF TypeOK, ManifestRecord
      <3>2. SourceMissing(saved).placements[p] =
              [saved.placements[p] EXCEPT !.presence = MissingIfRecorded(@)]
        BY <3>1 DEF SourceMissing, ManifestRecord
      <3> QED
        BY <3>1, <3>2 DEF PlacementRecord
    <2> QED
      BY <2>1, <2>2
  <1> QED
    BY <1>3, <1>4, <1>5

(* The results record as complete what the plan did, or what was installed. *)
LEMMA AppliedComplete ==
    ASSUME TypeOK, Applied # NoManifest, NEW p \in Placements,
           Applied.placements[p].state = "complete"
    PROVE  /\ next # NoManifest
           /\ next.placements[p].state = "complete" \/ dest[p] = "installed"
  <1>1. next # NoManifest
    BY DEF Applied
  <1>2. next \in ManifestRecord /\ next.placements[p] \in PlacementRecord
    BY <1>1 DEF TypeOK, ManifestRecord
  <1>3. Applied.placements[p] = AppliedPlacement(p)
    BY <1>1, <1>2 DEF Applied, ManifestRecord
  <1> QED
    BY <1>1, <1>2, <1>3 DEF AppliedPlacement, PlacementRecord

(* Every step keeps a copy of what is recorded or planned as complete.     *)
LEMMA RecordKeeps ==
    ASSUME NamesApart, IInv, CopyInv, RecordInv, [Next]_vars,
           "delete" \notin Tampering
    PROVE  RecordInv'
  <1>0. TypeOK /\ \A p \in Placements : Local(p) # {} => Local(p)' # {}
    BY CopyStays DEF IInv
  <1>1. CASE \E o \in RunOptions : Start(o)
    <2>1. PICK o \in RunOptions : Start(o)
      BY <1>1
    <2>2. saved' = saved
      BY <2>1 DEF Start, disk
    <2>3. (next' = next /\ dest' = dest)
          \/ (next' = Planned(View(o)) /\ \A p \in Placements : dest'[p] # "installed")
      BY <2>1 DEF Start
    <2>4. CompleteHasCopy(saved)'
      BY <1>0, <2>2 DEF RecordInv, CompleteHasCopy
    <2>5. CASE next' = next /\ dest' = dest
      BY <1>0, <2>4, <2>5 DEF RecordInv, CompleteHasCopy
    <2>6. CASE /\ next' = Planned(View(o))
               /\ \A p \in Placements : dest'[p] # "installed"
      <3>1. CompleteHasCopy(next)'
        BY <1>0, <2>6, PlannedComplete DEF RecordInv, CompleteHasCopy
      <3> QED
        BY <2>4, <2>6, <3>1 DEF RecordInv
    <2> QED
      BY <2>3, <2>5, <2>6
  <1>2. CASE Save \/ SaveFails
    <2>1. /\ saved' = saved \/ saved' = Applied
          /\ next' = next /\ dest' = dest
      BY <1>2 DEF Save, SaveFails, planVars, workVars
    <2>2. CompleteHasCopy(saved)'
      BY <1>0, <2>1, AppliedComplete DEF RecordInv, CompleteHasCopy
    <2> QED
      BY <1>0, <2>1, <2>2 DEF RecordInv, CompleteHasCopy
  <1>3. CASE \E p \in Placements : Install(p)
    <2>1. PICK p \in Placements : Install(p)
      BY <1>3
    <2>2. /\ saved' = saved /\ next' = next
          /\ dest' = [dest EXCEPT ![p] = "installed"]
      BY <2>1 DEF Install, DownloadStep, planVars
    <2>3. Local(p)' # {}
      BY <2>1, InstalledLoses DEF Install
    <2> QED
      BY <1>0, <2>2, <2>3 DEF RecordInv, CompleteHasCopy, TypeOK
  <1>4. CASE Exit \/ Crash
    <2>1. /\ saved' = saved /\ next' = NoManifest
          /\ dest' = NoDests
      BY <1>4 DEF Exit, Crash, Forget, disk
    <2> QED
      BY <1>0, <2>1 DEF RecordInv, CompleteHasCopy, NoDests
  <1>5. CASE \/ \E r \in References : Fetch(r) \/ FetchFails(r)
             \/ \E p \in Placements : InstallFails(p)
    <2>1. /\ saved' = saved /\ next' = next
          /\ \A p \in Placements : dest'[p] = "installed" => dest[p] = "installed"
      BY <1>0, <1>5 DEF Fetch, FetchFails, InstallFails, DownloadStep, planVars, TypeOK
    <2> QED
      BY <1>0, <2>1 DEF RecordInv, CompleteHasCopy
  <1>6. CASE \/ Confirm \/ RenamesDone \/ DownloadsDone \/ Decline \/ RenameError
             \/ Cancel \/ UserStep \/ SourceChanges \/ UNCHANGED vars
             \/ \E p \in Placements : RenamePut(p) \/ RenameRemove(p)
    <2>1. saved' = saved /\ next' = next /\ dest' = dest
      BY <1>6
      DEF Confirm, RenamesDone, DownloadsDone, Decline, RenameError, Cancel, UserStep,
           UserDeletes, UserDamages, Tamper, SourceChanges, Change, RenamePut,
          RenameRemove, RenameFails, EndWith, disk, planVars, workVars, vars
    <2> QED
      BY <1>0, <2>1 DEF RecordInv, CompleteHasCopy
  <1> QED
    BY <1>1, <1>2, <1>3, <1>4, <1>5, <1>6 DEF Next, RunStep, FaultStep

(* On a root where different names never lead to one file, every Placement *)
(* the manifest records as complete has a file under some path, whatever   *)
(* run of renames and downloads was killed or failed: the record never     *)
(* claims more than the output root holds, unless the user deletes files.  *)
THEOREM RecordsHaveCopies == NamesApart => (Spec => []RecordedHasCopy)
  <1> SUFFICES ASSUME NamesApart
               PROVE  Spec => []RecordedHasCopy
    OBVIOUS
  <1>1. CASE "delete" \in Tampering
    <2>1. RecordedHasCopy
      BY <1>1 DEF RecordedHasCopy
    <2> QED
      BY <2>1, PTL
  <1>2. CASE "delete" \notin Tampering
    <2>1. Init => CopyInv /\ RecordInv
      BY DEF Init, CopyInv, TargetsFree, BothCopies, RecordInv, CompleteHasCopy, NoDests
    <2>2. IInv /\ CopyInv /\ RecordInv /\ [Next]_vars => CopyInv' /\ RecordInv'
      BY <1>2, CopyKeeps, RecordKeeps
    <2>3. RecordInv => RecordedHasCopy
      BY DEF RecordInv, CompleteHasCopy, RecordedHasCopy
    <2> QED
      BY <2>1, <2>2, <2>3, Invariant, PTL DEF Spec
  <1> QED
    BY <1>1, <1>2

=============================================================================
