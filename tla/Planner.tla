------------------------------ MODULE Planner -------------------------------
(***************************************************************************)
(* Planning of one Collection (internal/archive/plan.go) as pure           *)
(* operators: how a recorded Collection is classified against the files,   *)
(* and how the discovered source is merged into the record, giving the     *)
(* planned manifest, the local renames and the downloads.                  *)
(*                                                                         *)
(* Every operator takes a view v of what Build reads:                      *)
(*   v.prior  the recorded manifest, or NewManifest when there is none;    *)
(*   v.src    the Collection as discovery returned it;                     *)
(*   v.files  the output root at planning time;                            *)
(*   v.opts   the options of the run.                                      *)
(***************************************************************************)
EXTENDS Manifest

CONSTANTS
    NoFile,           \* nothing is stored at a path
    CaseFold,         \* a name with its letter case folded
    CaseInsensitive,  \* the output root ignores letter case
    ObjectStore       \* the output root is an S3 bucket

MediaKind == {"image", "video", "dead", "unrecognized"}

SourceCollection ==
    [listed  : BOOLEAN,                  \* in dashboard discovery
     name    : Names,
     sets    : SUBSET Sets,
     setName : [Sets -> Names],
     refName : [References -> Names],
     at      : SUBSET Placements,        \* which Set shows which Reference
     kind    : [References -> MediaKind],
     content : [References -> Contents]]

Options == [sync : BOOLEAN, verify : BOOLEAN, videos : BOOLEAN]

(* A stored file: its content, and whether the object carries the sha256   *)
(* metadata of that content (never on a local filesystem).                 *)
File     == [content : Digests, meta : BOOLEAN]
FileKeys == Names \X Placements \X Paths

(* The key under which the output root stores a Placement's path.          *)
Key(dir, p, path) ==
    IF CaseInsensitive
    THEN <<CaseFold[dir], p, <<CaseFold[path[1]], CaseFold[path[2]]>>>>
    ELSE <<dir, p, path>>

(* sameCaseOnlyPath, and SameFile of the store: the same inode, or two     *)
(* objects whose metadata carries the same checksum.                       *)
SameCaseOnly(path, other) ==
    /\ path # other
    /\ CaseFold[path[1]] = CaseFold[other[1]]
    /\ CaseFold[path[2]] = CaseFold[other[2]]

SameFile(files, k, l) ==
    /\ files[k] # NoFile /\ files[l] # NoFile
    /\ IF ObjectStore
       THEN /\ files[k].meta /\ files[l].meta
            /\ files[k].content = files[l].content
       ELSE k = l

-----------------------------------------------------------------------------

Recorded(v, p) == v.prior.placements[p].presence # "none"

(* portablePlacementPath: where the source's names put a Placement.        *)
SourcePath(src, p) == <<src.setName[p[2]], src.refName[p[1]]>>

RecordedKey(v, p) == Key(v.prior.name, p, v.prior.placements[p].path)
SourceKey(v, p)   == Key(v.prior.name, p, SourcePath(v.src, p))

PathChanged(v, p) == v.prior.placements[p].path # SourcePath(v.src, p)

(* inspectFile: the file exists and, when the run verifies, matches the    *)
(* recorded checksum (stored metadata always describes the object it is    *)
(* on, so the metadata fast path answers as a hash would).                 *)
FaultyIntactMissing(files, key, sha, verify) ==
    verify /\ files[key] # NoFile => files[key].content = sha

FaultyIntactUnread(files, key, sha, verify) == files[key] # NoFile

Intact(files, key, sha, verify) ==
    /\ files[key] # NoFile
    /\ verify => files[key].content = sha

(* trustedExisting of merge.                                               *)
Trusted(v, p) ==
    /\ Recorded(v, p)
    /\ v.prior.placements[p].state = "complete"
    /\ Intact(v.files, RecordedKey(v, p), v.prior.placements[p].sha,
              v.opts.verify)

(* classify: a healthy Collection is recorded as complete and misses no    *)
(* file of a present Placement.                                            *)
FaultyHealthyByPresence(v) == v.prior.presence = "present"

Healthy(v) ==
    /\ v.prior.presence = "present"
    /\ v.prior.run = "complete"
    /\ ~NeedsWork(v.prior)
    /\ \A p \in PresentPlacements(v.prior) :
        Intact(v.files, RecordedKey(v, p), v.prior.placements[p].sha,
               v.opts.verify)

(* aggregateReferences: what the source shows, and what can be planned.  A *)
(* video without a usable source is shown but gets no Placement.           *)
Shown(src)  == {r \in References : \E p \in src.at : p[1] = r}
Active(src) == {p \in src.at : src.kind[p[1]] # "dead"}

HasVideos(src) == \E r \in Shown(src) : src.kind[r] # "image"

(* ClassifyVideos: what stops the run before anything is planned.          *)
UnsupportedVideo(src, opts) ==
    IF opts.videos
    THEN \E r \in Shown(src) : src.kind[r] = "unrecognized"
    ELSE HasVideos(src)

-----------------------------------------------------------------------------
(* merge                                                                   *)

(* planCollectionRoot: the directory of a new Collection name is in use    *)
(* (here: holds a file), and is not the recorded one in another case.      *)
DirectoryExists(v) ==
    LET dir(name) == IF CaseInsensitive THEN CaseFold[name] ELSE name
    IN  /\ dir(v.src.name) # dir(v.prior.name)
        /\ \E k \in FileKeys : k[1] = dir(v.src.name) /\ v.files[k] # NoFile

(* A file that already sits where a Placement goes stops the plan, unless  *)
(* the Placement stays there, or it is the Placement's own file under a    *)
(* name that differs only by case.  When the directory is to be renamed, a *)
(* file must be recognized as its own even where it stays.                 *)
PlacementExists(v) ==
    \E p \in Active(v.src) :
        /\ v.files[SourceKey(v, p)] # NoFile
        /\ Recorded(v, p) =>
            /\ PathChanged(v, p) \/ v.src.name # v.prior.name
            /\ ~ (/\ SameFile(v.files, RecordedKey(v, p), SourceKey(v, p))
                  /\ PathChanged(v, p) => SameCaseOnly(v.prior.placements[p].path,
                                                       SourcePath(v.src, p)))

DestinationExists(v) == DirectoryExists(v) \/ PlacementExists(v)

(* The presence of a recorded thing that the source no longer shows.       *)
MissingIfRecorded(presence) == IF presence = "none" THEN "none" ELSE "missing"

(* A Placement keeps its complete state only when its file is trusted and  *)
(* the run does not synchronize.                                           *)
FaultyKeptBySync(v, p) == Trusted(v, p)

FaultyNeverKept(v, p) == FALSE

Kept(v, p) == Trusted(v, p) /\ ~v.opts.sync

(* The record of a Placement that the source does not show.                *)
FaultyUnshownForgotten(old) == NewPlacement

UnshownPlacement(old) == [old EXCEPT !.presence = MissingIfRecorded(@)]

(* A Placement's next record.  A synchronizing run keeps the checksum of a *)
(* trusted file while it downloads it again.                               *)
MergedPlacement(v, p) ==
    LET old == v.prior.placements[p]
    IN  IF p \notin Active(v.src)
        THEN UnshownPlacement(old)
        ELSE [presence |-> "present",
              state    |-> IF Kept(v, p) THEN "complete" ELSE "pending",
              sha      |-> IF Trusted(v, p) THEN old.sha ELSE NoSum,
              failure  |-> FALSE,
              path     |-> SourcePath(v.src, p)]

(* The record of a Reference without an active Placement.  One that is     *)
(* shown, a dead video, is listed from now on.                             *)
FaultyUnplacedAsWas(v, r) == v.prior.references[r]

UnplacedReference(v, r) ==
    [v.prior.references[r] EXCEPT !.presence =
        IF r \in Shown(v.src) THEN "missing" ELSE MissingIfRecorded(@)]

(* A Reference's next record, with setReferenceDownloadState: its state    *)
(* follows its present Placements, and its checksum is cleared when no     *)
(* present Placement still proves that content locally.                    *)
MergedReference(v, r) ==
    LET active == {p \in Active(v.src) : p[1] = r}
    IN  IF active = {}
        THEN UnplacedReference(v, r)
        ELSE [presence |-> "present",
              state    |-> IF \A p \in active : Kept(v, p)
                           THEN "complete" ELSE "pending",
              sha      |-> IF \E p \in active : Trusted(v, p)
                           THEN v.prior.references[r].sha ELSE NoSum,
              failure  |-> FALSE]

MergedSet(v, s) ==
    IF s \in v.src.sets THEN "present" ELSE MissingIfRecorded(v.prior.sets[s])

Merged(v) ==
    LET m == [name       |-> v.src.name,
              presence   |-> "present",
              run        |-> "incomplete",
              sets       |-> [s \in Sets |-> MergedSet(v, s)],
              references |-> [r \in References |-> MergedReference(v, r)],
              placements |-> [p \in Placements |-> MergedPlacement(v, p)]]
    IN  [m EXCEPT !.run = RunStateOf(m)]

(* The local moves the plan asks for, and the downloads.                   *)
Renames(v) ==
    {p \in Active(v.src) : Trusted(v, p) /\ PathChanged(v, p)}

Downloads(v) == {p \in Active(v.src) : ~Kept(v, p)}

(* MarkSourceMissing: the record of a Collection that discovery no longer  *)
(* lists keeps everything but its presence.                                *)
SourceMissing(m) ==
    [m EXCEPT
        !.presence   = "missing",
        !.sets       = [s \in Sets |-> MissingIfRecorded(m.sets[s])],
        !.references = [r \in References |->
            [m.references[r] EXCEPT !.presence = MissingIfRecorded(@)]],
        !.placements = [p \in Placements |->
            [m.placements[p] EXCEPT !.presence = MissingIfRecorded(@)]]]

=============================================================================
