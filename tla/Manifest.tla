------------------------------ MODULE Manifest ------------------------------
(***************************************************************************)
(* The persisted record of one Collection (internal/manifest): the states  *)
(* of the Collection, its Sets, its References and their Placements, and   *)
(* the relations that Validate demands of them.                            *)
(*                                                                         *)
(* A Placement is a Reference in a Set.  The manifest of the program lists *)
(* records by ID; here every known ID has an entry, and an entry that the  *)
(* manifest does not list has presence "none".  Paths are the pair of      *)
(* names (Set name, Reference name) they are built from: the IDs, which    *)
(* the file names also carry, are those of the Placement itself, so the    *)
(* uniqueness of IDs and paths that Validate checks holds by the shape of  *)
(* the data.  Dates, dimensions and descriptions are left out.             *)
(***************************************************************************)

CONSTANTS
    Sets,         \* Pixieset Set IDs
    References,   \* Pixieset media IDs
    Names,        \* names of Collections, Sets and References
    Contents,     \* media contents the source can serve (and their SHA-256)
    Junk,         \* a content that only a damaged local file has
    NoSum,        \* an empty checksum
    NoPath,       \* the path of a Placement that is not recorded
    NoManifest    \* no collection.json

Placements == References \X Sets
Paths      == Names \X Names
Digests    == Contents \cup {Junk}
Checksums  == Contents \cup {NoSum}

PresenceState == {"none", "present", "missing"}
DownloadState == {"pending", "complete", "failed"}
RunState      == {"incomplete", "complete"}

ReferenceRecord ==
    [presence : PresenceState, state : DownloadState,
     sha : Checksums, failure : BOOLEAN]

PlacementRecord ==
    [presence : PresenceState, state : DownloadState,
     sha : Checksums, failure : BOOLEAN, path : Paths \cup {NoPath}]

ManifestRecord ==
    [name       : Names,
     presence   : {"present", "missing"},
     run        : RunState,
     sets       : [Sets -> PresenceState],
     references : [References -> ReferenceRecord],
     placements : [Placements -> PlacementRecord]]

(* What merge starts from when a Collection has no manifest.               *)
NewReference == [presence |-> "none", state |-> "pending",
                 sha |-> NoSum, failure |-> FALSE]

NewPlacement == [presence |-> "none", state |-> "pending",
                 sha |-> NoSum, failure |-> FALSE, path |-> NoPath]

NewManifest(name) ==
    [name       |-> name,
     presence   |-> "present",
     run        |-> "incomplete",
     sets       |-> [s \in Sets |-> "none"],
     references |-> [r \in References |-> NewReference],
     placements |-> [p \in Placements |-> NewPlacement]]

-----------------------------------------------------------------------------

(* The Placements and References that the manifest lists as present.       *)
PresentPlacements(m) ==
    {p \in Placements : m.placements[p].presence = "present"}

PresentReferences(m) ==
    {r \in References : m.references[r].presence = "present"}

(* A failure is recorded exactly with the failed state.                    *)
FailureConsistent(record) == record.failure <=> record.state = "failed"

(* Manifest.Validate.  Build runs it on the manifest it read and on the    *)
(* one it planned, and Write on the one it writes.                         *)
Valid(m) ==
    /\ \A r \in References : FailureConsistent(m.references[r])
    /\ \A p \in Placements :
        /\ FailureConsistent(m.placements[p])
        /\ m.placements[p].presence # "none" =>
            /\ m.sets[p[2]] # "none"
            /\ m.references[p[1]].presence # "none"
            /\ m.placements[p].path # NoPath
    /\ \A p \in PresentPlacements(m) :
        /\ m.presence = "present"
        /\ m.sets[p[2]] = "present"
        /\ m.references[p[1]].presence = "present"
    /\ \A r \in PresentReferences(m) :
        /\ m.presence = "present"
        /\ \E p \in PresentPlacements(m) : p[1] = r
    /\ m.presence = "missing" => \A s \in Sets : m.sets[s] # "present"

(* runState of the planner: complete when every present Placement is.      *)
RunStateOf(m) ==
    IF \A p \in PresentPlacements(m) : m.placements[p].state = "complete"
    THEN "complete" ELSE "incomplete"

(* manifestNeedsWork of the planner.                                       *)
NeedsWork(m) ==
    \/ \E r \in PresentReferences(m) : m.references[r].state # "complete"
    \/ \E p \in PresentPlacements(m) : m.placements[p].state # "complete"

=============================================================================
