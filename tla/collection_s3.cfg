SPECIFICATION Spec
CONSTANTS
    lower = lower
    upper = upper
    References = {r1, r2}
    Sets = {s1}
    Names = {lower, upper}
    Contents = {c1, c2}
    Junk = Junk
    NoSum = NoSum
    NoPath = NoPath
    NoManifest = NoManifest
    NoFile = NoFile
    CaseFold <- DistinctNames
    CaseInsensitive = FALSE
    ObjectStore = TRUE
    InitialSource <- AllShown
    RunOptions <- NormalAndSync
    Changes = {"names", "placements", "content"}
    Faults = {"crash", "cancel", "install"}
    Tampering = {"damage", "at prompt"}
    MaxEvents = 2
SYMMETRY ReferenceSymmetry
INVARIANTS SyncMirrorsSource RecordedHasCopy
PROPERTIES NoLocalLoss
