SPECIFICATION LiveSpec
CONSTANTS
    Nothing = Nothing
    r1 = r1
    r2 = r2
    d1 = d1
    d2 = d2
    p1 = p1
    p2 = p2
    good = good
    torn = torn
    dim = dim
    RootOrder <- TwoRoots
    Dirs <- BothDirs
    Paths <- TwoPaths
    RootOf <- RootEach
    DirOf <- DirEach
    LikeDir <- Exact
    HtmlPaths <- OnlyP2
    Contents <- ThreeContents
    Headerless <- OnlyTorn
    Undecodable <- OnlyDim
    Wishes <- TwoWishes
    MayGo <- JustR2
    MayLock <- OnlyD1
    Edits <- SomeEdits
    RemoveUnavailable = TRUE
    MaxExcluded = 2
    MaxMtime = 2
    MaxJobs = 2
    MaxMishaps = 1
PROPERTIES
    RunsSettle
    AttemptsAreFair
    ExistingFilesKept
    EveryJobEnds
CHECK_DEADLOCK FALSE
