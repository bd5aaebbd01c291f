SPECIFICATION Spec
CONSTANTS
    lower = lower
    upper = upper
    References = {r1}
    Sets = {s1, s2}
    Names = {lower, upper}
    Contents = {c1, c2}
    Junk = Junk
    NoSum = NoSum
    NoPath = NoPath
    NoManifest = NoManifest
    NoFile = NoFile
    CaseFold <- DistinctNames
    CaseInsensitive = FALSE
    ObjectStore = FALSE
    InitialSource <- OneShown
    RunOptions <- NormalOnly
    Changes = {}
    Faults = {"crash"}
    Tampering = {}
    MaxEvents = 0
INVARIANTS RunCanResume
