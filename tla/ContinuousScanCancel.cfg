SPECIFICATION Spec
CONSTANTS
    Off = Off
    Unreadable = Unreadable
    None = None
    rootsA = rootsA
    rootsB = rootsB
    job1 = job1
    job2 = job2
    row1 = row1
    row2 = row2
    row3 = row3
    Roots <- OneConfig
    Configs <- OneConfig
    Mounts <- MCMounts
    Jobs <- OneJob
    CancelAsking = TRUE
    Rows <- MCRows
    MaxUpsets = 1
    MaxWork = 1
INVARIANTS
    PausesAreResumed
