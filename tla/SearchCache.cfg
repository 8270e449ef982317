SPECIFICATION Spec
CONSTANTS
    None = None
    tagged = tagged
    total = total
    main = main
    marks = marks
    r1 = r1
    r2 = r2
    Queries = {tagged, total}
    Counts = {total}
    IndexDbs = {main}
    UserDbs = {marks}
    Deps <- TaggedAndTotal
    RowCount <- Rows
    Requests = {r1, r2}
    Windows <- Pages
    Asks <- ClientAsks
    Budgets = {0, 8}
    SPAN_ROWS = 2
    SPAN_OVERHEAD_BYTES = 1
    GROUP_OVERHEAD_BYTES = 1
    ROW_BYTES = 1
    MaxCommits = 1
    MaxConnections = 1
INVARIANTS
    HitIsFresh
    CacheIsConsistent
PROPERTIES
    InsertKeepsCurrentRows
