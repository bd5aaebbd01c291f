SPECIFICATION Spec
CONSTANTS
    lower = lower
    upper = upper
    References = {r1}
    Sets = {s1, s2}
    Names = {lower, upper}
    Contents = {c1, c2}
    Junk = Junk
    NoSum = NoSum
    NoPath = NoPath
    NoManifest = NoManifest
    NoFile = NoFile
    CaseFold <- CaseVariants
    CaseInsensitive = TRUE
    ObjectStore = FALSE
    InitialSource <- OneShown
    RunOptions <- NormalOnly
    Changes = {"names"}
    Faults = {}
    Tampering = {}
    MaxEvents = 1
PROPERTIES NoLocalLoss
