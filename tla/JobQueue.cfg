SPECIFICATION FairSpec
CONSTANTS
    None = None
    db1 = db1
    clip = clip
    tagger = tagger
    nightly = nightly
    Dbs = {db1}
    Setters = {clip, tagger}
    CronTags = {nightly}
    Requests <- ClientRequests
    Batches <- CronBatches
    Reports <- JobReports
    MaxRequests = 3
    MaxRecentOutcomes = 2
INVARIANTS
    QueueAndRunnerAgree
    BatchSlotIsSafe
    BoundariesSettle
PROPERTIES
    HandlersKeepFaith
    QueueDrains
