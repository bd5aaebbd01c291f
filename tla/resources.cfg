SPECIFICATION Spec
CONSTANTS
    Process = {p1, p2}
    Inode = {i1, i2}
    NoFile = NoFile
    Nobody = Nobody
    MaxRemovals = 1
    Worker = {w1, w2}
    TempName = {t1, t2}
    MaxCrashes = 1
    Client = {c1, c2, c3}
    NoObject = NoObject
    StaleAfter = 2
    MaxAhead = 1
    MaxFaults = 2
    Paths <- ThreeFiles
    ProfileOf <- TwoProfiles
    RankOf <- Ranks
    IsDefault <- Defaults
    Cookie <- FourCookies
    InitialFiles <- FileContents
    Selectors = {0, 1, AnyContainer}
    AnyContainer = AnyContainer
    NoLog = NoLog
    NoCopy = NoCopy
    NoSession = NoSession
    MaxCommits = 2
    MaxMishaps = 1
SYMMETRY Interchangeable
CHECK_DEADLOCK FALSE
INVARIANTS
    TypeOK
    OneRunWrites
    MutualExclusion
    FileIsWhole
    NoLitter
    HolderIsVisible
    JarIsOneSession
    SessionLeavesNoCopy
    StrongestProfileWins
PROPERTIES
    LocalLockKept
    BucketLockKept
