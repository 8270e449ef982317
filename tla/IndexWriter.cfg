SPECIFICATION FairSpec
CONSTANTS
    None = None
    Procs = {p1, p2}
    AtomicJobs = TRUE
    MaxItems = 1
    MaxCancels = 1
    MaxFaults = 1
INVARIANTS
    MarkerHolds
    RowsFollowJobs
    CalmSkipIsSafe
    WaitersAreHeard
PROPERTIES
    DebtSpec
    EverythingEnds
\* The clients are finite: the system may stop when all have ended.
CHECK_DEADLOCK FALSE
