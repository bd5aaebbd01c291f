SPECIFICATION AppSpec
CONSTANTS
    a = a
    b = b
    c = c
    Collection = {a, b, c}
    Dashboards <- DashboardsOfThree
    PageSize = 1
    MaxPages = 3
    MaxAttempts = 2
    MaxChanges = 1
    MaxLines = 5
    MaxPuts = 1
    Archives <- OneIsNew
    MaxErrors = 1
CHECK_DEADLOCK FALSE
INVARIANTS
    AppTypeOK
    ListingIsTrue
    OutcomeIsTrue
    ReasonSurvives
PROPERTIES
    WritesUnderLock
    RunEnds
