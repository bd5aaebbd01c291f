SPECIFICATION Spec
CONSTANTS
    lower = lower
    upper = upper
    References = {r1}
    Sets = {s1, s2}
    Names = {lower, upper}
    Contents = {c1, c2}
    Junk = Junk
    NoSum = NoSum
    NoPath = NoPath
    NoManifest = NoManifest
    NoFile = NoFile
    CaseFold <- DistinctNames
    CaseInsensitive = FALSE
    ObjectStore = FALSE
    InitialSource <- OneVideo
    RunOptions <- VideoRuns
    Changes = {"title", "names", "placements", "sets", "content", "video", "listing"}
    Faults = {"crash", "fetch", "install", "rename", "save"}
    Tampering = {"delete", "damage"}
    MaxEvents = 3
INVARIANTS TypeOK PlanIsValid CompletedMeansStored VerifiedMeansIntact
    SyncMirrorsSource CompletedIsSettled
PROPERTIES NoLocalLoss RecordsRetained NormalRunKeepsTrusted ImplementsArchive
