-------------------------- MODULE CollectionSafety --------------------------
(***************************************************************************)
(* What the runs of CollectionRun keep true of the archive, whatever the   *)
(* source, the user and the faults do, and what the documents of the       *)
(* program claim that its code does not do.                                *)
(***************************************************************************)
EXTENDS CollectionRun

(* The contents stored for a Placement, under whatever path.               *)
Local(p) == {files[k].content :
                k \in {l \in FileKeys : l[2] = p /\ files[l] # NoFile}}

StoredAt(m, p) == Key(m.name, p, m.placements[p].path)

-----------------------------------------------------------------------------
(* Safety                                                                  *)

(* No sequence of runs, source changes and faults makes a manifest that    *)
(* Validate refuses: Build never rejects the manifest of an earlier run or *)
(* its own plan, and Write never rejects the results, so an archive is     *)
(* never locked out by its own record.                                     *)
PlanIsValid == outcome # "invalid manifest"

(* A run that reports "completed" leaves every present Placement recorded  *)
(* as complete, with a file at the recorded path.  Files may have been     *)
(* lost, renames interrupted and runs killed before that run.              *)
CompletedMeansStored ==
    outcome = "completed" /\ src.listed /\ saved # NoManifest =>
        \A p \in PresentPlacements(saved) :
            /\ saved.placements[p].state = "complete"
            /\ files[StoredAt(saved, p)] # NoFile

(* A completed run with --verify leaves every present Placement's file     *)
(* with the recorded checksum, even when an earlier run was killed between *)
(* replacing the file and recording it.                                    *)
VerifiedMeansIntact ==
    outcome = "completed" /\ opts.verify /\ src.listed /\ saved # NoManifest =>
        \A p \in PresentPlacements(saved) :
            /\ files[StoredAt(saved, p)] # NoFile
            /\ files[StoredAt(saved, p)].content = saved.placements[p].sha

(* The record and the files agree with the source.                         *)
RecordMatches(m) ==
    /\ m.presence = "present"
    /\ m.name = src.name
    /\ \A s \in Sets : m.sets[s] = "present" <=> s \in src.sets
    /\ PresentReferences(m) = {p[1] : p \in Active(src)}
    /\ PresentPlacements(m) = Active(src)
    /\ \A p \in Active(src) : m.placements[p].path = SourcePath(src, p)

(* A completed --sync-existing run leaves a record that lists as present   *)
(* exactly what the source shows, under the source's names, and each of    *)
(* those Placements holds the content downloaded by this run; a Collection *)
(* that is no longer listed is recorded as missing with all it holds.      *)
SyncMirrorsSource ==
    outcome = "completed" /\ opts.sync /\ saved # NoManifest =>
        IF src.listed
        THEN /\ RecordMatches(saved)
             /\ \A p \in Active(src) :
                 files[StoredAt(saved, p)].content = digest[p[1]]
        ELSE /\ saved.presence = "missing"
             /\ PresentPlacements(saved) = {}
             /\ PresentReferences(saved) = {}

(* After a completed run the next run that does not synchronize finds      *)
(* nothing to do: no download, no rename, no refusal.                      *)
CompletedIsSettled ==
    outcome = "completed" /\ saved # NoManifest /\ src.listed =>
        \A o \in RunOptions :
            LET v == View(o)
            IN  (~o.sync /\ (o.verify => opts.verify)) =>
                    /\ Refusal(v) = "none"
                    /\ Working(v) => Renames(v) = {} /\ Downloads(v) = {}

(* Unless the user removes files, every Placement that the manifest        *)
(* records as complete has a file, under its recorded path or the one a    *)
(* killed run was moving it to.                                            *)
RecordedHasCopy ==
    "delete" \notin Tampering /\ saved # NoManifest =>
        \A p \in Placements :
            saved.placements[p].state = "complete" => Local(p) # {}

-----------------------------------------------------------------------------
(* Action properties                                                       *)

(* While a run works, the content of a Placement's files disappears in one *)
(* way only: replaced by the content just downloaded for that Placement.   *)
NoLocalLoss ==
    [][ pc \notin {"idle", "planned"} =>
          \A p \in Placements : \A c \in Local(p) \ Local(p)' :
             /\ dest[p] = "queued" /\ dest'[p] \in {"installed", "failed"}
             /\ digest[p[1]] \in Local(p)' ]_files

(* No manifest forgets: what one lists, a Placement or a Reference, every  *)
(* later one lists, also when merge finds it gone from the source.         *)
RecordsRetained ==
    [][ saved # NoManifest =>
          /\ saved' # NoManifest
          /\ \A p \in Placements :
                saved.placements[p].presence # "none" =>
                    saved'.placements[p].presence # "none"
          /\ \A r \in References :
                saved.references[r].presence # "none" =>
                    saved'.references[r].presence # "none" ]_saved

(* A run that does not synchronize leaves a file whose content matches its *)
(* complete record where it is, or moves it whole: it never downloads it   *)
(* again.                                                                  *)
NormalRunKeepsTrusted ==
    [][ ~opts.sync =>
          \A p \in Placements :
             (dest[p] = "queued" /\ dest'[p] = "installed") =>
                 \/ saved = NoManifest
                 \/ saved.placements[p].state # "complete"
                 \/ files[StoredAt(saved, p)] = NoFile
                 \/ files[StoredAt(saved, p)].content # saved.placements[p].sha
      ]_dest

-----------------------------------------------------------------------------
(* The abstract specification                                              *)

ArchivePhase ==
    CASE pc \in {"idle", "planned"} -> "open"
      [] pc = "ended" -> "closed"
      [] OTHER -> "working"

(* The content that the manifest says is stored of a Placement.            *)
Claim(p) ==
    IF saved # NoManifest /\ saved.placements[p].state = "complete"
    THEN saved.placements[p].sha
    ELSE NoSum

Listed ==
    {p \in Placements :
        saved # NoManifest /\ saved.placements[p].presence # "none"}

(* The Placements that the run has stored or failed to store.              *)
Touched ==
    {p \in Placements :
        ArchivePhase = "working" /\ dest[p] \in {"installed", "failed"}}

Copies == [p \in Placements |-> Local(p)]
Claims == [p \in Placements |-> Claim(p)]

Archive == INSTANCE ArchiveContract WITH
    Places  <- Placements,
    NoClaim <- NoSum,
    phase   <- ArchivePhase,
    copies  <- Copies,
    claims  <- Claims,
    listed  <- Listed,
    touched <- Touched

(* Whatever the source, the user and the faults do, the runs keep the      *)
(* promise of ArchiveContract: a step of a rename, a kill or an error in   *)
(* the middle of a run changes nothing of what is stored of any Placement  *)
(* and nothing of what is recorded, and executePlan records of a Placement *)
(* it has downloaded only what is stored, and of another one only what was *)
(* recorded already.                                                       *)
ImplementsArchive == Archive!Spec

-----------------------------------------------------------------------------
(* Liveness                                                                *)

(* The user repeats the run and answers yes, and a run that has begun goes *)
(* on: no step of the program waits for anything but the network and the   *)
(* disk, and the user is the one who runs it again.                        *)
FairSpec == Spec /\ WF_vars(RunStep)

(* From some point on there are only runs of one kind, without faults, and *)
(* the source and the files are left alone.                                *)
OnlyRuns(sync) ==
    <>[][RunStep /\ (pc = "idle" => opts'.sync = sync)]_vars

(* The archive holds what the source shows.                                *)
Mirrored ==
    IF src.listed
    THEN /\ saved # NoManifest
         /\ RecordMatches(saved)
         /\ \A p \in Active(src) :
             /\ saved.placements[p].state = "complete"
             /\ files[StoredAt(saved, p)] # NoFile
             /\ files[StoredAt(saved, p)].content = src.content[p[1]]
    ELSE saved # NoManifest => saved.presence = "missing"

(* Once the source and the faults are quiet, repeated --sync-existing runs *)
(* bring the archive to hold what the source shows, and keep it so, from   *)
(* whatever failed and canceled runs left.                                 *)
SyncConverges == OnlyRuns(TRUE) => <>[]Mirrored

(* A failed Reference is resumed by normal runs: they bring every present  *)
(* Placement of a listed Collection to a complete record and a file.       *)
NormalRunsResume ==
    OnlyRuns(FALSE) /\ <>[]src.listed =>
        <>[](saved # NoManifest =>
                /\ ~NeedsWork(saved)
                /\ \A p \in PresentPlacements(saved) :
                    files[StoredAt(saved, p)] # NoFile)

-----------------------------------------------------------------------------
(* Claims of the documents that the code does not meet                     *)

(* A rename at the source is followed by a rename of the local path.       *)
RenameFollowsSource == outcome # "rename failed"

(* A run can always go on from what an earlier one left.                   *)
RunCanResume == outcome # "destination exists"

=============================================================================
