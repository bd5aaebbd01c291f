SPECIFICATION AppSpec
CONSTANTS
    a = a
    b = b
    c = c
    Collection = {a}
    Dashboards <- DashboardOfOne
    PageSize = 1
    MaxPages = 1
    MaxAttempts = 1
    MaxChanges = 0
    MaxLines = 8
    MaxPuts = 0
    Archives <- NothingYet
    MaxErrors = 0
CHECK_DEADLOCK FALSE
INVARIANTS StoppedIsNoFailure
