SPECIFICATION FairSpec
CONSTANTS
    Off = Off
    Unreadable = Unreadable
    None = None
    rootsA = rootsA
    rootsB = rootsB
    job1 = job1
    job2 = job2
    row1 = row1
    row2 = row2
    row3 = row3
    Roots <- MCRoots
    Configs <- EveryConfig
    Mounts <- MCMounts
    Jobs <- TwoJobs
    CancelAsking = FALSE
    Rows <- MCRows
    MaxUpsets = 1
    MaxWork = 1
INVARIANTS
    ScannerIsSound
    GateSwallowsNothing
PROPERTIES
    JobsPauseTheScan
    ScanComesBack
