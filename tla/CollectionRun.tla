---------------------------- MODULE CollectionRun ---------------------------
(***************************************************************************)
(* The life of one archived Collection: runs of the program that plan it   *)
(* (archive.Build), apply the plan to the output root (executePlan of      *)
(* internal/app, the workers of internal/download) and write its manifest, *)
(* while the source changes, the user touches files between runs, and a    *)
(* run is canceled, fails in part or is killed.                            *)
(*                                                                         *)
(* One run at a time uses the output root: the lock of the store is held   *)
(* from before discovery until the run ends.  Discovery of the Collection  *)
(* is one step; renames are made one by one, each as the copy and the      *)
(* removal it really is; downloads run concurrently per Reference, each    *)
(* fetched once and then installed at its destinations; a Put of the store *)
(* is atomic.                                                              *)
(***************************************************************************)
EXTENDS Planner, Naturals

CONSTANTS
    InitialSource,  \* the Collection before the first run
    RunOptions,     \* the options the user gives to runs
    Changes,        \* what may change at the source
    Faults,         \* what may go wrong in a run
    Tampering,      \* what the user may do to archived files
    MaxEvents       \* a bound on source changes and user actions together

ChangeKinds    == {"title", "names", "placements", "sets", "content",
                   "video", "listing"}
FaultKinds     == {"crash", "cancel", "fetch", "install", "rename", "save"}
TamperingKinds == {"delete", "damage", "at prompt"}

ASSUME EnvironmentAssumption ==
    /\ InitialSource \in SourceCollection
    /\ RunOptions \subseteq Options
    /\ Changes \subseteq ChangeKinds
    /\ Faults \subseteq FaultKinds
    /\ Tampering \subseteq TamperingKinds
    /\ MaxEvents \in Nat

(* Media are listed per Set: there is none in a Set that is not listed.    *)
ASSUME SourceAssumption == \A p \in InitialSource.at : p[2] \in InitialSource.sets

ASSUME DataAssumption ==
    /\ CaseFold \in [Names -> Names]
    /\ CaseInsensitive \in BOOLEAN
    /\ ObjectStore \in BOOLEAN
    /\ NoSum \notin Digests
    /\ Junk \notin Contents
    /\ NoFile \notin File
    /\ NoPath \notin Paths
    /\ NoManifest \notin ManifestRecord

VARIABLES
    src,        \* the Collection at the source
    files,      \* the media files in the output root
    saved,      \* the manifest in the output root
    pc,         \* where the run is
    opts,       \* the options of the run
    next,       \* the manifest the run planned
    renames,    \* the Placements still to be renamed
    moving,     \* the Placement whose file was copied, not yet removed
    job,        \* the state of each Reference's download
    digest,     \* the content each download staged
    dest,       \* the state of each download destination
    canceled,   \* the run was interrupted
    outcome,    \* how the run ended
    events      \* source changes and user actions so far

source   == <<src, events>>
disk     == <<files, saved>>
planVars == <<opts, next>>
workVars == <<renames, moving, job, digest, dest>>
vars     == <<src, files, saved, pc, opts, next,
              renames, moving, job, digest, dest, canceled, outcome, events>>

Phase     == {"idle", "planned", "renaming", "removing", "downloading",
              "saving", "ended"}
JobState  == {"none", "queued", "staged", "failed"}
DestState == {"none", "queued", "installed", "failed"}

(* How a run can end: the outcome of the run log, with the error that Run  *)
(* returned where the outcome is "failed".                                 *)
Outcome == {"none", "completed", "incomplete", "declined",
            "unsupported video", "destination exists", "invalid manifest",
            "rename failed", "write failed"}

NoJobs  == [r \in References |-> "none"]
NoSums  == [r \in References |-> NoSum]
NoDests == [p \in Placements |-> "none"]

AllOptions == [sync |-> TRUE, verify |-> TRUE, videos |-> TRUE]

TypeOK ==
    /\ src \in SourceCollection
    /\ files \in [FileKeys -> File \cup {NoFile}]
    /\ saved \in ManifestRecord \cup {NoManifest}
    /\ pc \in Phase
    /\ opts \in Options
    /\ next \in ManifestRecord \cup {NoManifest}
    /\ renames \in SUBSET Placements
    /\ moving \in SUBSET Placements
    /\ job \in [References -> JobState]
    /\ digest \in [References -> Checksums]
    /\ dest \in [Placements -> DestState]
    /\ canceled \in BOOLEAN
    /\ outcome \in Outcome
    /\ events \in 0..MaxEvents

Init ==
    /\ src = InitialSource
    /\ files = [k \in FileKeys |-> NoFile]
    /\ saved = NoManifest
    /\ pc = "idle"
    /\ opts = AllOptions
    /\ next = NoManifest
    /\ renames = {}
    /\ moving = {}
    /\ job = NoJobs
    /\ digest = NoSums
    /\ dest = NoDests
    /\ canceled = FALSE
    /\ outcome = "none"
    /\ events = 0

-----------------------------------------------------------------------------
(* Planning                                                                *)

View(o) ==
    [prior |-> IF saved = NoManifest THEN NewManifest(src.name) ELSE saved,
     src   |-> src, files |-> files, opts  |-> o]

(* A healthy Collection is skipped unless the run synchronizes, or asks    *)
(* for videos and the source has some.                                     *)
Skipped(v) ==
    /\ saved # NoManifest
    /\ Healthy(v)
    /\ ~v.opts.sync
    /\ ~(v.opts.videos /\ HasVideos(v.src))

(* What a run does with the discovered Collection before the prompt: it    *)
(* ends early, or has a plan.  A Collection that is no longer listed is    *)
(* looked at only by a run that synchronizes.                              *)
Refusal(v) ==
    IF ~v.src.listed
    THEN IF v.opts.sync /\ saved # NoManifest /\ ~Valid(saved)
         THEN "invalid manifest" ELSE "none"
    ELSE IF UnsupportedVideo(v.src, v.opts) THEN "unsupported video"
    ELSE IF saved # NoManifest /\ ~Valid(saved) THEN "invalid manifest"
    ELSE IF Skipped(v) THEN "none"
    ELSE IF DestinationExists(v) THEN "destination exists"
    ELSE IF ~Valid(Merged(v)) THEN "invalid manifest"
    ELSE "none"

Working(v) == v.src.listed /\ ~Skipped(v)

Planned(v) ==
    IF Working(v) THEN Merged(v)
    ELSE IF v.src.listed THEN saved
    ELSE IF v.opts.sync /\ saved # NoManifest THEN SourceMissing(saved)
    ELSE NoManifest

(* Discovery, ClassifyVideos and archive.Build, under the lock.            *)
Start(o) ==
    LET v == View(o)
    IN  /\ pc = "idle"
        /\ opts' = o
        /\ IF Refusal(v) # "none"
           THEN /\ pc' = "ended"
                /\ outcome' = Refusal(v)
                /\ UNCHANGED <<next, renames, job, dest>>
           ELSE /\ pc' = "planned"
                /\ next' = Planned(v)
                /\ renames' = IF Working(v) THEN Renames(v) ELSE {}
                /\ dest' = [p \in Placements |->
                       IF Working(v) /\ p \in Downloads(v) THEN "queued" ELSE "none"]
                /\ job' = [r \in References |->
                       IF Working(v) /\ \E p \in Downloads(v) : p[1] = r
                       THEN "queued" ELSE "none"]
                /\ UNCHANGED outcome
        /\ UNCHANGED <<source, disk, moving, digest, canceled>>

(* The end of a run: the lock is released and nothing of it is left.       *)
Forget ==
    /\ pc' = "idle"
    /\ opts' = AllOptions
    /\ next' = NoManifest
    /\ renames' = {}
    /\ moving' = {}
    /\ job' = NoJobs
    /\ digest' = NoSums
    /\ dest' = NoDests
    /\ canceled' = FALSE
    /\ outcome' = "none"

EndWith(result) ==
    /\ pc' = "ended"
    /\ outcome' = result

(* The prompt, which --yes answers.                                        *)
Decline ==
    /\ pc = "planned"
    /\ EndWith("declined")
    /\ UNCHANGED <<source, disk, planVars, workVars, canceled>>

(* The first rename of a Collection whose name changed is its directory,   *)
(* which applyRename cannot open as a file: the run fails there.           *)
Confirm ==
    /\ pc = "planned"
    /\ IF next # NoManifest /\ saved # NoManifest /\ next.name # saved.name
       THEN EndWith("rename failed")
       ELSE pc' = "renaming" /\ UNCHANGED outcome
    /\ UNCHANGED <<source, disk, planVars, workVars, canceled>>

-----------------------------------------------------------------------------
(* Renames: applyRename copies the file to its new path, then removes it   *)
(* from the old one.                                                       *)

From(p) == Key(saved.name, p, saved.placements[p].path)
To(p)   == Key(next.name, p, next.placements[p].path)

Copied(p) ==
    [files EXCEPT ![To(p)] = [content |-> files[From(p)].content, meta |-> FALSE]]

Removed(p) == [files EXCEPT ![From(p)] = NoFile]

RenameFails ==
    /\ EndWith("rename failed")
    /\ UNCHANGED <<source, saved, planVars, workVars, canceled>>

FaultyRenameMovesFirst(p) ==
    /\ pc = "renaming"
    /\ p \in renames
    /\ files' = Removed(p)
    /\ renames' = renames \ {p}
    /\ moving' = {p}
    /\ pc' = "removing"
    /\ UNCHANGED <<source, saved, planVars, job, digest, dest, canceled, outcome>>

RenamePut(p) ==
    /\ pc = "renaming"
    /\ p \in renames
    /\ IF files[From(p)] = NoFile
       THEN RenameFails /\ UNCHANGED files
       ELSE /\ files' = Copied(p)
            /\ renames' = renames \ {p}
            /\ moving' = {p}
            /\ pc' = "removing"
            /\ UNCHANGED <<source, saved, planVars, job, digest, dest,
                           canceled, outcome>>

RenameRemove(p) ==
    /\ pc = "removing"
    /\ p \in moving
    /\ files' = Removed(p)
    /\ moving' = {}
    /\ pc' = "renaming"
    /\ UNCHANGED <<source, saved, planVars, renames, job, digest, dest,
                   canceled, outcome>>

(* A Put or a Remove of the store returns an error, with or without having *)
(* taken effect: the answer of a bucket may be lost.                       *)
RenameError ==
    /\ "rename" \in Faults
    /\ \/ /\ pc = "renaming"
          /\ \E p \in renames :
                \/ UNCHANGED files
                \/ files[From(p)] # NoFile /\ files' = Copied(p)
       \/ /\ pc = "removing"
          /\ \E p \in moving : UNCHANGED files \/ files' = Removed(p)
    /\ RenameFails

RenamesDone ==
    /\ pc = "renaming"
    /\ renames = {}
    /\ pc' = "downloading"
    /\ UNCHANGED <<source, disk, planVars, workVars, canceled, outcome>>

-----------------------------------------------------------------------------
(* Downloads                                                               *)

DownloadStep ==
    /\ pc = "downloading"
    /\ UNCHANGED <<source, saved, pc, planVars, renames, moving, canceled,
                   outcome>>

(* The staged file is complete: the content the source serves now.         *)
Fetch(r) ==
    /\ DownloadStep
    /\ job[r] = "queued"
    /\ ~canceled
    /\ job' = [job EXCEPT ![r] = "staged"]
    /\ digest' = [digest EXCEPT ![r] = src.content[r]]
    /\ UNCHANGED <<files, dest>>

FetchFails(r) ==
    /\ DownloadStep
    /\ job[r] = "queued"
    /\ canceled \/ "fetch" \in Faults
    /\ job' = [job EXCEPT ![r] = "failed"]
    /\ UNCHANGED <<files, digest, dest>>

(* installPlacement: one atomic Put of the staged file.  A Put that was    *)
(* begun before an interrupt still takes effect.                           *)
Installed(p) ==
    [files EXCEPT ![To(p)] = [content |-> digest[p[1]], meta |-> ObjectStore]]

Install(p) ==
    /\ DownloadStep
    /\ job[p[1]] = "staged"
    /\ dest[p] = "queued"
    /\ files' = Installed(p)
    /\ dest' = [dest EXCEPT ![p] = "installed"]
    /\ UNCHANGED <<job, digest>>

(* An interrupted download installs nothing more; a Put that returns an    *)
(* error may have stored the file all the same.                            *)
InstallFails(p) ==
    /\ DownloadStep
    /\ job[p[1]] = "staged"
    /\ dest[p] = "queued"
    /\ \/ canceled /\ UNCHANGED files
       \/ "install" \in Faults /\ (UNCHANGED files \/ files' = Installed(p))
    /\ dest' = [dest EXCEPT ![p] = "failed"]
    /\ UNCHANGED <<job, digest>>

DownloadsDone ==
    /\ pc = "downloading"
    /\ \A p \in Placements :
        dest[p] = "queued" => job[p[1]] = "failed"
    /\ pc' = "saving"
    /\ UNCHANGED <<source, disk, planVars, workVars, canceled, outcome>>

-----------------------------------------------------------------------------
(* Results (applyResults, recomputeReferenceState) and the manifest write  *)

FaultyAppliedPlacement(p) ==
    IF dest[p] \in {"installed", "failed"}
    THEN [next.placements[p] EXCEPT !.state = "complete", !.failure = FALSE,
                                    !.sha = digest[p[1]]]
    ELSE next.placements[p]

AppliedPlacement(p) ==
    LET old == next.placements[p]
    IN  CASE dest[p] = "installed" ->
                [old EXCEPT !.state = "complete", !.failure = FALSE,
                            !.sha = digest[p[1]]]
          [] dest[p] = "failed" ->
                [old EXCEPT !.state = "failed", !.failure = TRUE]
          [] OTHER -> old

(* The state of a Reference that was fetched, from its present Placements. *)
RecomputedState(r) ==
    LET states == {AppliedPlacement(p).state : p \in
                      {q \in PresentPlacements(next) : q[1] = r}}
    IN  IF "pending" \in states THEN "pending"
        ELSE IF "failed" \in states THEN "failed"
        ELSE "complete"

FaultyAppliedReference(r) ==
    [next.references[r] EXCEPT
        !.state = IF job[r] = "staged" THEN "installed" ELSE @]

AppliedReference(r) ==
    LET old == next.references[r]
    IN  CASE job[r] = "failed" ->
                [old EXCEPT !.state = "failed", !.failure = TRUE]
          [] job[r] = "staged" ->
                [old EXCEPT !.sha = digest[r], !.state = RecomputedState(r),
                            !.failure = (RecomputedState(r) = "failed")]
          [] OTHER -> old

(* The manifest with the results of the downloads.  RunState stays what    *)
(* the planner made it.                                                    *)
Applied ==
    IF next = NoManifest THEN NoManifest
    ELSE [next EXCEPT
            !.references = [r \in References |-> AppliedReference(r)],
            !.placements = [p \in Placements |-> AppliedPlacement(p)]]

AnyReferenceFailed(m) ==
    \E r \in PresentReferences(m) : m.references[r].state = "failed"

(* manifest.Write, and the last check of Run.                              *)
Save ==
    /\ pc = "saving"
    /\ IF Applied = NoManifest
       THEN UNCHANGED saved /\ EndWith("completed")
       ELSE IF ~Valid(Applied)
       THEN UNCHANGED saved /\ EndWith("invalid manifest")
       ELSE /\ saved' = Applied
            /\ EndWith(IF src.listed /\ AnyReferenceFailed(Applied)
                       THEN "incomplete" ELSE "completed")
    /\ UNCHANGED <<source, files, planVars, workVars, canceled>>

(* The Put of the manifest returns an error, and may have replaced it.     *)
SaveFails ==
    /\ "save" \in Faults
    /\ pc = "saving"
    /\ Applied # NoManifest
    /\ Valid(Applied)
    /\ saved' \in {saved, Applied}
    /\ EndWith("write failed")
    /\ UNCHANGED <<source, files, planVars, workVars, canceled>>

Exit ==
    /\ pc = "ended"
    /\ Forget
    /\ UNCHANGED <<source, disk>>

-----------------------------------------------------------------------------
(* Faults, the user and the source                                         *)

(* Ctrl-C.  Only the downloader looks at it once the plan is shown.        *)
Cancel ==
    /\ "cancel" \in Faults
    /\ pc \in {"planned", "renaming", "removing", "downloading"}
    /\ ~canceled
    /\ canceled' = TRUE
    /\ UNCHANGED <<source, disk, pc, planVars, workVars, outcome>>

(* The process is killed; the lock goes with it.                           *)
Crash ==
    /\ "crash" \in Faults
    /\ pc \notin {"idle", "ended"}
    /\ Forget
    /\ UNCHANGED <<source, disk>>

Event ==
    /\ events < MaxEvents
    /\ events' = events + 1

Tamper(k, file) ==
    /\ Event
    /\ pc = "idle" \/ (pc = "planned" /\ "at prompt" \in Tampering)
    /\ files[k] # NoFile
    /\ files' = [files EXCEPT ![k] = file]
    /\ UNCHANGED <<src, saved, pc, planVars, workVars, canceled, outcome>>

UserDeletes(k) == "delete" \in Tampering /\ Tamper(k, NoFile)

UserDamages(k) ==
    /\ "damage" \in Tampering
    /\ Tamper(k, [content |-> Junk, meta |-> FALSE])

(* Discovery is one step, so what it returned does not change under a run: *)
(* a change made at the source during a run is one made right after it.    *)
(* Only the content of a media file is read later, when it is fetched.     *)
Change(kind, s) ==
    /\ kind \in Changes
    /\ s # src
    /\ Event
    /\ pc = "idle" \/ (kind = "content" /\ pc = "downloading")
    /\ src' = s
    /\ UNCHANGED <<disk, pc, planVars, workVars, canceled, outcome>>

SourceChanges ==
    \/ Change("listing", [src EXCEPT !.listed = ~@])
    \/ \E n \in Names : Change("title", [src EXCEPT !.name = n])
    \/ \E n \in Names, s \in Sets : Change("names", [src EXCEPT !.setName[s] = n])
    \/ \E n \in Names, r \in References :
          Change("names", [src EXCEPT !.refName[r] = n])
    \/ \E p \in Placements :
          \/ Change("placements", [src EXCEPT !.at = @ \ {p}])
          \/ /\ p[2] \in src.sets
             /\ Change("placements", [src EXCEPT !.at = @ \cup {p}])
    \/ \E s \in Sets :
          Change("sets", IF s \in src.sets
                         THEN [src EXCEPT !.sets = @ \ {s},
                                          !.at = {p \in @ : p[2] # s}]
                         ELSE [src EXCEPT !.sets = @ \cup {s}])
    \/ \E r \in References, c \in Contents :
          Change("content", [src EXCEPT !.content[r] = c])
    \/ \E r \in References, k \in MediaKind \ {"image"} :
          /\ src.kind[r] # "image"
          /\ Change("video", [src EXCEPT !.kind[r] = k])

-----------------------------------------------------------------------------

RunStep ==
    \/ \E o \in RunOptions : Start(o)
    \/ Confirm
    \/ \E p \in Placements : RenamePut(p) \/ RenameRemove(p)
    \/ RenamesDone
    \/ \E r \in References : Fetch(r) \/ (canceled /\ FetchFails(r))
    \/ \E p \in Placements : Install(p) \/ (canceled /\ InstallFails(p))
    \/ DownloadsDone
    \/ Save
    \/ Exit

FaultStep ==
    \/ Decline
    \/ RenameError
    \/ \E r \in References : FetchFails(r)
    \/ \E p \in Placements : InstallFails(p)
    \/ SaveFails
    \/ Cancel
    \/ Crash

UserStep == \E k \in FileKeys : UserDeletes(k) \/ UserDamages(k)

Next == RunStep \/ FaultStep \/ UserStep \/ SourceChanges

Spec == Init /\ [][Next]_vars

=============================================================================
