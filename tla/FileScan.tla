------------------------------ MODULE FileScan ------------------------------
(***************************************************************************)
(* The file scan job of one index database (panoptikon/src/jobs/files/     *)
(* mod.rs): a folder update or a rescan walks the roots one after another, *)
(* hashes and prepares the files that moved, writes the index, keeps the   *)
(* two ledgers of failures (scan_errors by path, visual_attempts by        *)
(* content), marks what it did not see and cleans up at the end.  The      *)
(* files change under it, roots are unmounted, directories cannot be read, *)
(* and the job may be aborted between any two of its writes.               *)
(*                                                                         *)
(* One job runs at a time and the continuous scan is paused meanwhile      *)
(* (JobQueue, ContinuousScan).  The job is one task that walks, awaits the *)
(* writer and handles the outcomes of its worker tasks: whatever writes a  *)
(* handler still owes are its agenda, one transaction each.  A worker's    *)
(* read of the file and the handling of its outcome are one step.  A file  *)
(* is its content and its modification time; a thumbnail stands for all    *)
(* that is generated from the content.  Registered roots do not nest.      *)
(*                                                                         *)
(* The operators named Mut... are faulty variants of the definition that   *)
(* follows them; no specification uses them.                               *)
(***************************************************************************)
EXTENDS Naturals, Sequences, FiniteSets

CONSTANTS
    RootOrder,     \* the roots in the order of their paths
    Dirs,          \* directories below the roots
    Paths,         \* files the walk does not filter out by name
    RootOf, DirOf, \* of a path
    LikeDir,       \* the paths that LIKE dir || '%' matches
    HtmlPaths,     \* paths whose extension says text/html
    Contents,
    Headerless,    \* contents whose header does not parse
    Undecodable,   \* contents with a header and pixels that do not decode
    Nothing,
    Wishes,        \* folder lists the configuration may hold
    RemoveUnavailable,  \* config.remove_unavailable_files
    MaxExcluded,   \* paths that MarkUnavailableFiles can bind (30,000)
    MayGo, MayLock,   \* roots that may be unmounted, directories that may lock
    Edits,         \* what programs leave at a path: a content, or None
    MaxMtime,      \* bound: modifications of files
    MaxJobs,       \* bound: jobs
    MaxMishaps      \* bound: all that crosses the jobs, together: edits of the
                   \* configuration, roots that go, directories that lock, aborts,
                   \* and reads, workers and writes that fail

RootFolders == {RootOrder[i] : i \in DOMAIN RootOrder}

ASSUME TreeAssumption ==
    /\ RootOf \in [Paths -> RootFolders] /\ DirOf \in [Paths -> Dirs]
    /\ \A p, q \in Paths : DirOf[p] = DirOf[q] => RootOf[p] = RootOf[q]
    /\ LikeDir \in [Dirs -> SUBSET Paths]
    /\ \A p \in Paths : p \in LikeDir[DirOf[p]]

ASSUME ContentsAssumption ==
    /\ HtmlPaths \subseteq Paths
    /\ Headerless \subseteq Contents /\ Undecodable \subseteq Contents
    /\ Headerless \cap Undecodable = {} /\ Nothing \notin Contents \cup RootFolders
    /\ Wishes \subseteq [inc : SUBSET RootFolders, exc : SUBSET Dirs]
    /\ Edits \subseteq Paths \X (Contents \cup {Nothing}) /\ MayGo \subseteq RootFolders /\ MayLock \subseteq Dirs
    /\ {MaxExcluded, MaxMtime, MaxJobs, MaxMishaps} \subseteq Nat

VARIABLES
    disk,       \* what is under a path: a content and its mtime, or NoFile
    clock,      \* the mtime last given
    unmounted,  \* roots that are empty mount points for now
    locked,     \* directories that cannot be read for now
    renderer,   \* a browser for HTML is installed
    want,       \* the folder lists of the configuration
    folders,    \* the table folders
    files,      \* the table files, by path
    items,      \* the table items: contents
    stored,     \* storage.thumbnails: the content each was made from
    ledger,     \* the table scan_errors, by path
    marks,      \* storage.visual_attempts for thumbnails, by content
    scans,      \* the table file_scans, in order of id
    job,        \* the file scan job, or NoJob
    spent,      \* what has been used of the bounds
    seen        \* history: see History

env == <<disk, clock, unmounted, locked, renderer, want>>
db == <<folders, files, items, stored, ledger, marks, scans>>
scanVars == <<env, db, job, spent, seen>>

NoFile == [c |-> Nothing, m |-> 0]
NoRow == [c |-> Nothing, m |-> 0, scan |-> 0, avail |-> FALSE]
NoError == [m |-> 0, n |-> 0, after |-> 0, stage |-> Nothing, blocked |-> FALSE, last |-> 0]
NoMark == [n |-> 0, after |-> 0, last |-> 0]

\* SKIP_AFTER_CONFIRMED and SKIP_AFTER_AMBIGUOUS.
Confirmed == 1
Ambiguous == 2

NoJob == [kind |-> "none", phase |-> "Idle", update |-> FALSE, exc |-> {}, added |-> {}, todo |-> {},
          root |-> Nothing, id |-> 0, token |-> 0, known |-> [p \in Paths |-> NoError],
          reached |-> {}, pinned |-> {}, errs |-> {}, torn |-> FALSE, ahead |-> {},
          tasks |-> {}, agenda |-> <<>>]

Running == job.phase # "Idle"
CanUpset ==
    spent.wishes + spent.mounts + spent.locks + spent.aborts + spent.faults < MaxMishaps

\* What the file system shows: an empty mount point hides the files.
There(p) == disk[p] # NoFile /\ RootOf[p] \notin unmounted
\* An empty root is a mount point with nothing mounted, if rows are indexed.
Valid(r) == \/ \E p \in Paths : RootOf[p] = r /\ There(p)
            \/ \A p \in Paths : RootOf[p] = r => files[p] = NoRow

Html(p) == p \in HtmlPaths
Broken == Headerless \cup Undecodable

ScanInit ==
    /\ disk = [p \in Paths |-> NoFile] /\ clock = 0
    /\ unmounted = {} /\ locked = {}
    /\ renderer = FALSE      \* it may be installed before the first job
    /\ want \in Wishes
    /\ folders = [inc |-> {}, exc |-> {}]
    /\ files = [p \in Paths |-> NoRow] /\ items = {}
    /\ stored = [c \in Contents |-> Nothing]
    /\ ledger = [p \in Paths |-> NoError]
    /\ marks = [c \in Contents |-> NoMark]
    /\ scans = <<>> /\ job = NoJob
    /\ spent = [jobs |-> 0, wishes |-> 0, mounts |-> 0, locks |-> 0, aborts |-> 0, faults |-> 0]
    /\ seen = [runs |-> 0, failed |-> {}, undecoded |-> {}, had |-> {}, stayed |-> {}, open |-> {},
               quiet |-> FALSE, calm |-> TRUE, whole |-> FALSE, back |-> {},
               covered |-> {}, able |-> {}, checked |-> {}]

-----------------------------------------------------------------------------
(* History, read by the properties and never by an action's guard:         *)
(*   runs       passes over the roots; a rescan that embeds a folder update *)
(*              makes two                                                   *)
(*   failed     <<path, mtime, run, job>>: the file or its thumbnail failed *)
(*   undecoded  <<content, run, job>>: its thumbnail was not generated      *)
(*   had        paths that were there at some time since the job started    *)
(*   stayed     paths that have had a file since the job started, on a     *)
(*              root that was never away when the job took it for valid    *)
(*   open       those of them whose directory could be read all the time   *)
(*   quiet      nothing around the job has changed since it started         *)
(*   calm       nothing has ever changed while a job was running           *)
(*   whole      the job has lost no read and no write                       *)
(*   back       paths that an older file has been moved to                  *)
(*   covered    roots a scan has finished since they were registered        *)
(*   able       roots that were valid when this job looked                  *)
(*   checked    those of them it scans                                      *)
Stays(p, tree, gone) == tree[p] # NoFile /\ RootOf[p] \notin gone \cap seen.checked
Moved == seen' = [seen EXCEPT !.quiet = FALSE, !.calm = @ /\ ~Running,
                              !.stayed = {p \in @ : Stays(p, disk', unmounted')},
                              !.open = {p \in @ : Stays(p, disk', unmounted') /\ DirOf[p] \notin locked'},
                              !.had = @ \cup {p \in Paths : disk'[p] # NoFile},
                              !.back = @ \cup {p \in Paths : disk'[p] # disk[p] /\ disk'[p].m \in 1..clock}]

Checked(roots) ==
    [seen EXCEPT !.checked = roots, !.able = {r \in RootFolders : Valid(r)}, !.runs = @ + 1,
                 !.stayed = {p \in @ : RootOf[p] \notin unmounted \cap roots},
                 !.open = {p \in @ : RootOf[p] \notin unmounted \cap roots}]
Failed(p, m) == [seen EXCEPT !.failed = @ \cup {<<p, m, seen.runs, spent.jobs>>}]
Undecoded(c, p, m) ==
    [Failed(p, m) EXCEPT !.undecoded = @ \cup {<<c, seen.runs, spent.jobs>>}]

(***************************************************************************)
(* The world.                                                              *)
(***************************************************************************)
\* A program writes, moves or deletes a file.
WriteFile(p, c) ==
    /\ <<p, c>> \in Edits
    /\ clock < MaxMtime /\ clock' = clock + 1
    /\ disk' = [disk EXCEPT ![p] = [c |-> c, m |-> clock + 1]]
    /\ UNCHANGED <<unmounted, locked, renderer, want, db, job, spent>>
    /\ Moved

MoveFile(p, q) ==
    /\ clock < MaxMtime /\ clock' = clock + 1
    /\ <<p, Nothing>> \in Edits
    /\ p # q /\ disk[p] # NoFile /\ disk[q] = NoFile
    /\ disk' = [disk EXCEPT ![p] = NoFile, ![q] = disk[p]]
    /\ UNCHANGED <<unmounted, locked, renderer, want, db, job, spent>>
    /\ Moved

DeleteFile(p) ==
    /\ clock < MaxMtime /\ clock' = clock + 1
    /\ <<p, Nothing>> \in Edits
    /\ disk[p] # NoFile /\ disk' = [disk EXCEPT ![p] = NoFile]
    /\ UNCHANGED <<unmounted, locked, renderer, want, db, job, spent>>
    /\ Moved

\* A drive goes or comes back, a directory loses or gains its permissions.
Unmount(r) ==
    /\ IF r \in unmounted
       THEN unmounted' = unmounted \ {r} /\ UNCHANGED spent
       ELSE /\ r \in MayGo /\ CanUpset /\ spent' = [spent EXCEPT !.mounts = @ + 1]
            /\ unmounted' = unmounted \cup {r}
    /\ UNCHANGED <<disk, clock, locked, renderer, want, db, job>>
    /\ Moved

Lock(d) ==
    /\ IF d \in locked
       THEN locked' = locked \ {d} /\ UNCHANGED spent
       ELSE /\ d \in MayLock /\ CanUpset /\ spent' = [spent EXCEPT !.locks = @ + 1]
            /\ locked' = locked \cup {d}
    /\ UNCHANGED <<disk, clock, unmounted, renderer, want, db, job>>
    /\ Moved

InstallRenderer ==
    /\ ~renderer /\ renderer' = TRUE
    /\ UNCHANGED <<disk, clock, unmounted, locked, want, db, job, spent>>
    /\ Moved

EditConfig(w) ==
    /\ CanUpset /\ spent' = [spent EXCEPT !.wishes = @ + 1]
    /\ w # want /\ want' = w
    /\ UNCHANGED <<disk, clock, unmounted, locked, renderer, db, job>>
    /\ Moved

World ==
    \/ \E p \in Paths : DeleteFile(p) \/ \E c \in Contents : WriteFile(p, c)
    \/ \E p, q \in Paths : MoveFile(p, q)
    \/ \E r \in RootFolders : Unmount(r)
    \/ \E d \in Dirs : Lock(d)
    \/ InstallRenderer
    \/ \E w \in Wishes : EditConfig(w)

(***************************************************************************)
(* The start of a job, and the folder update.                              *)
(***************************************************************************)
\* rescan_folders loads the configuration and decides whether an update is
\* embedded; the folders to exclude are re-read when the scan starts.
Start(kind) ==
    /\ ~Running
    /\ spent.jobs < MaxJobs /\ spent' = [spent EXCEPT !.jobs = @ + 1]
    /\ job' = [NoJob EXCEPT !.kind = kind,
                            !.phase = IF kind = "update" \/ folders # want
                                      THEN "Unregister" ELSE "Rescan"]
    /\ seen' = [seen EXCEPT !.quiet = TRUE, !.whole = TRUE, !.checked = {},
                            !.had = {p \in Paths : disk[p] # NoFile},
                            !.stayed = {p \in Paths : disk[p] # NoFile},
                            !.open = {p \in Paths : disk[p] # NoFile /\ DirOf[p] \notin locked}]
    /\ UNCHANGED <<env, db>>

\* run_folder_update loads the configuration once; DeleteFoldersNotInList for
\* the included folders.
UpdateFolders ==
    /\ job.phase = "Unregister"
    /\ folders' = [folders EXCEPT !.inc = @ \cap want.inc]
    /\ job' = [job EXCEPT !.phase = "Unexclude", !.update = TRUE, !.exc = want.exc,
                          !.ahead = want.inc]
    /\ seen' = [seen EXCEPT !.covered = @ \cap want.inc]
    /\ UNCHANGED <<env, files, items, stored, ledger, marks, scans, spent>>

\* DeleteFoldersNotInList for the excluded ones, in a transaction of its own.
Unexclude ==
    /\ job.phase = "Unexclude"
    /\ folders' = [folders EXCEPT !.exc = @ \cap job.exc]
    /\ job' = [job EXCEPT !.phase = "Register"]
    /\ UNCHANGED <<env, files, items, stored, ledger, marks, scans, spent, seen>>

\* AddFolderToDatabase: INSERT OR IGNORE, a transaction per folder.
Register ==
    /\ job.phase = "Register"
    /\ \/ \E r \in job.ahead :
            /\ folders' = [folders EXCEPT !.inc = @ \cup {r}]
            /\ job' = [job EXCEPT !.ahead = @ \ {r},
                                  !.added = IF r \in folders.inc THEN @ ELSE @ \cup {r}]
       \/ /\ job.ahead = {}
          /\ \E d \in job.exc \ folders.exc : folders' = [folders EXCEPT !.exc = @ \cup {d}]
          /\ UNCHANGED job
    /\ UNCHANGED <<env, files, items, stored, ledger, marks, scans, spent, seen>>

Completed == {scans[i].root : i \in {i \in DOMAIN scans : ~scans[i].open}}

\* Registered folders that no completed scan covers.
NotCovered == folders.inc \ Completed

\* execute_folder_scan: all roots are checked before the first is walked.
Choose(roots) ==
    LET valid == {r \in roots : Valid(r)}
    IN /\ job' = [job EXCEPT !.phase = "CloseStale", !.ahead = {}, !.added = {}, !.token = 0,
                             !.todo = valid]
       /\ seen' = Checked(valid)

ChooseAdded ==
    /\ job.phase = "Register" /\ job.ahead = {} /\ job.exc \subseteq folders.exc
    /\ Choose(job.added \cup NotCovered)
    /\ UNCHANGED <<env, db, spent>>

\* The scan of rescan_folders covers whatever is registered.
ChooseAll ==
    /\ job.phase = "Rescan"
    /\ LET valid == {r \in folders.inc : Valid(r)}
       IN /\ job' = [NoJob EXCEPT !.kind = job.kind, !.phase = "CloseStale",
                                  !.exc = folders.exc, !.todo = valid]
          /\ seen' = Checked(valid)
    /\ UNCHANGED <<env, db, spent>>

MutStaleRows == {i \in DOMAIN scans : scans[i].root \in job.todo}

\* get_open_file_scan_id
StaleRows == {i \in DOMAIN scans : scans[i].open /\ scans[i].root \in job.todo}

CloseStale ==
    /\ job.phase = "CloseStale"
    /\ IF StaleRows = {}
       THEN /\ job' = [job EXCEPT !.phase = IF job.todo = {} THEN "DelUnavailable" ELSE "Heal"]
            /\ UNCHANGED scans
       ELSE /\ \E i \in StaleRows : scans' = [scans EXCEPT ![i].open = FALSE]
            /\ UNCHANGED job
    /\ UNCHANGED <<env, folders, files, items, stored, ledger, marks, spent, seen>>

\* heal_blocked_scan_errors
Heal ==
    /\ job.phase = "Heal"
    /\ ledger' = [p \in Paths |-> IF ledger[p].blocked /\ renderer THEN NoError ELSE ledger[p]]
    /\ job' = [job EXCEPT !.phase = "Open"]
    /\ UNCHANGED <<env, folders, files, items, stored, marks, scans, spent, seen>>

MutToken(id) == id

\* One attempt token for the whole run: the id of its first root's row.
Token(id) == IF job.token = 0 THEN id ELSE job.token

\* The roots are walked in the order of their paths.
IsNext(r) ==
    \E i \in DOMAIN RootOrder :
        /\ r = RootOrder[i] /\ r \in job.todo
        /\ \A j \in DOMAIN RootOrder : RootOrder[j] \in job.todo => i <= j

\* AddFileScan, and the ledger rows of the root are preloaded.
OpenRoot(r) ==
    /\ job.phase = "Open" /\ IsNext(r)
    /\ LET id == Len(scans) + 1
           under == {p \in Paths : RootOf[p] = r}
       IN /\ scans' = Append(scans, [root |-> r, open |-> TRUE])
          /\ job' = [job EXCEPT !.phase = "Walk", !.todo = @ \ {r}, !.root = r, !.id = id,
                       !.token = Token(id), !.reached = {}, !.pinned = {}, !.errs = {},
                       !.torn = FALSE, !.ahead = {p \in under : DirOf[p] \notin job.exc},
                       !.known = [p \in Paths |-> IF p \in under THEN ledger[p] ELSE NoError]]
    /\ UNCHANGED <<env, folders, files, items, stored, ledger, marks, spent, seen>>

(***************************************************************************)
(* The walk and the worker tasks.  A step of the walker or of a handler    *)
(* needs an empty agenda.                                                  *)
(***************************************************************************)
Free == job.phase = "Walk" /\ job.agenda = <<>>

Blocks(e) == e.stage # "decode"

\* A row that is active and about this version of the file.
Suppresses(e, m) == e # NoError /\ Blocks(e) /\ e.n >= e.after /\ e.m = m
ClearedBySuccess(e, m) == Blocks(e) \/ e.m # m
MarkerSuppresses(c) == marks[c] # NoMark /\ marks[c].n >= marks[c].after

\* The writer transactions a handler still owes.
FailOp(p, m, stage, blocked, after) ==
    [op |-> "error", p |-> p, m |-> m, stage |-> stage, blocked |-> blocked, after |-> after]
FileOp(p, m, c, fresh) == [op |-> "file", p |-> p, m |-> m, c |-> c, fresh |-> fresh]
ClearOp(p) == [op |-> "clear", p |-> p]
RekeyOp(p, m) == [op |-> "rekey", p |-> p, m |-> m]
StoreOp(c, of) == [op |-> "store", c |-> c, of |-> of]
MarkOp(c, after) == [op |-> "mark", c |-> c, after |-> after]
BackfillOp(p, c) == [op |-> "backfill", p |-> p, c |-> c]
AuditOp(p, m, after) == FailOp(p, m, "decode", FALSE, after)

\* visuals_from_image_error: a decode may have met a bad read, a header not.
\* html_visuals_failure: a page that does not render is never confirmed at once.
Verdict(p, c) == IF c \in Headerless /\ ~Html(p) THEN Confirmed ELSE Ambiguous

\* visuals_audit_failure: only an image that does not decode owes a row.
Audit(p, m, c) == IF Html(p) THEN <<>> ELSE <<AuditOp(p, m, Verdict(p, c))>>

\* prepare_new_item: an image needs its header, a page must render.
Unfit(p, c) == IF Html(p) THEN c \in Broken ELSE c \in Headerless
UnfitOp(p, m) == FailOp(p, m, IF Html(p) THEN "metadata" ELSE "header", FALSE, Ambiguous)

\* update_file_data of the walker, and what follows it for a known content.
Known(p, m, c, fresh) == <<FileOp(p, m, c, fresh), ClearOp(p), BackfillOp(p, c)>>

MutRejected(j, p) == j

\* fail_file keeps a path that failed out of MarkUnavailableFiles.
Rejected(j, p) == [j EXCEPT !.errs = @ \cup {p}]

\* A known-bad file is not attempted, and kept out as well.
Suppressed(j, p) == [j EXCEPT !.errs = @ \cup {p}]

\* What the walk does to the ledger's bookkeeping before it looks at the file.
Reached(p, m) ==
    LET e == job.known[p]
    IN [job EXCEPT !.ahead = @ \ {p},
                   !.reached = IF e = NoError THEN @ ELSE @ \cup {p},
                   !.pinned = IF e # NoError /\ ~ClearedBySuccess(e, m) THEN @ \cup {p} ELSE @]

MutSameMtime(p, m) == files[p] # NoRow

\* The file is indexed with this modification time: nothing is hashed.
SameMtime(p, m) == files[p] # NoRow /\ files[p].m = m

\* scan_path
ScanPath(p) ==
    /\ Free /\ p \in job.ahead /\ There(p) /\ DirOf[p] \notin locked
    /\ LET m == disk[p].m
           j == Reached(p, m)
       IN job' = IF Suppresses(job.known[p], m) THEN Suppressed(j, p)
                 ELSE IF Html(p) /\ ~renderer
                 THEN [Rejected(j, p) EXCEPT
                          !.agenda = <<FailOp(p, m, "metadata", TRUE, Confirmed)>>]
                 ELSE IF SameMtime(p, m)
                 THEN [j EXCEPT !.agenda = Known(p, files[p].m, files[p].c, FALSE)]
                 ELSE [j EXCEPT !.tasks = @ \cup
                         {[op |-> "hash", p |-> p, m |-> m, c |-> files[p].c]}]
    /\ UNCHANGED <<env, db, spent, seen>>

\* The walk does not find the file.
NotThere(p) ==
    /\ Free /\ p \in job.ahead /\ ~There(p) /\ DirOf[p] \notin locked
    /\ job' = [job EXCEPT !.ahead = @ \ {p}]
    /\ UNCHANGED <<env, db, spent, seen>>

\* The file was listed, and the stat fails: it has just gone, or the mount
\* hiccups.
StatFails(p) ==
    /\ Free /\ p \in job.ahead /\ p \in seen.had /\ DirOf[p] \notin locked
    /\ \/ ~There(p) /\ UNCHANGED <<spent, seen>>
       \/ /\ There(p)
          /\ CanUpset /\ spent' = [spent EXCEPT !.faults = @ + 1]
          /\ seen' = [seen EXCEPT !.whole = FALSE]
    /\ job' = [Rejected(job, p) EXCEPT !.ahead = @ \ {p},
                 !.reached = IF job.known[p] = NoError THEN @ ELSE @ \cup {p}]
    /\ UNCHANGED <<env, db>>

\* WalkDir cannot read a directory: nothing below it is visited.
WalkError(d) ==
    /\ Free /\ d \in locked /\ \E p \in job.ahead : DirOf[p] = d
    /\ job' = [job EXCEPT !.ahead = {p \in @ : DirOf[p] # d}, !.torn = TRUE]
    /\ UNCHANGED <<env, db, spent, seen>>

\* rekey_audit_scan_error: the bytes are the same under a new mtime, an audit
\* row follows them and is pinned.
Rekeyed(j, p, m) ==
    IF j.known[p] = NoError \/ Blocks(j.known[p]) THEN j
    ELSE [j EXCEPT !.known[p].m = m, !.pinned = @ \cup {p}, !.agenda = <<RekeyOp(p, m)>> \o @]

\* handle_hashed
HashDone(t) ==
    /\ Free /\ t \in job.tasks /\ t.op = "hash" /\ There(t.p)
    /\ LET c == disk[t.p].c
           j == [job EXCEPT !.tasks = @ \ {t}]
       IN job' = IF c = t.c
                 THEN Rekeyed([j EXCEPT !.agenda = Known(t.p, t.m, c, FALSE)], t.p, t.m)
                 ELSE IF c \in items THEN [j EXCEPT !.agenda = Known(t.p, t.m, c, TRUE)]
                 ELSE [j EXCEPT !.tasks = @ \cup {[t EXCEPT !.op = "prepare", !.c = c]}]
    /\ UNCHANGED <<env, db, spent, seen>>

\* prepare_new_item and handle_new_item: the visuals are made from what the
\* file holds now and kept under the content that was hashed.
NewItem(t, made) ==
    LET file == <<FileOp(t.p, t.m, t.c, TRUE), ClearOp(t.p)>>
    IN IF made \in Undecodable THEN <<MarkOp(t.c, Ambiguous)>> \o file \o <<AuditOp(t.p, t.m, Ambiguous)>>
       ELSE IF stored[t.c] = Nothing THEN <<StoreOp(t.c, made)>> \o file
       ELSE file

PrepareDone(t) ==
    /\ Free /\ t \in job.tasks /\ t.op = "prepare" /\ There(t.p)
    /\ LET c == disk[t.p].c
           j == [job EXCEPT !.tasks = @ \ {t}]
       IN IF Unfit(t.p, c)
          THEN /\ job' = [Rejected(j, t.p) EXCEPT !.agenda = <<UnfitOp(t.p, t.m)>>]
               /\ seen' = Failed(t.p, t.m)
          ELSE /\ job' = [j EXCEPT !.agenda = NewItem(t, c)]
               /\ seen' = IF c \in Undecodable THEN Undecoded(t.c, t.p, t.m) ELSE seen
    /\ UNCHANGED <<env, db, spent>>

\* handle_backfill; the audit row carries the stat the worker takes.
BackfillDone(t) ==
    /\ Free /\ t \in job.tasks /\ t.op = "backfill" /\ There(t.p)
    /\ LET c == disk[t.p].c
           m == disk[t.p].m
       IN /\ job' = [job EXCEPT !.tasks = @ \ {t},
                !.agenda = IF c \in Broken
                           THEN <<MarkOp(t.c, Verdict(t.p, c))>> \o Audit(t.p, m, c)
                           ELSE IF stored[t.c] = Nothing THEN <<StoreOp(t.c, c)>> ELSE <<>>]
          /\ seen' = IF c \in Broken THEN Undecoded(t.c, t.p, m) ELSE seen
    /\ UNCHANGED <<env, db, spent>>

\* The file is gone, the read fails or the worker dies: no verdict.  The path
\* of a task that would have indexed the file is kept out of the marking.
TaskFails(t) ==
    /\ Free /\ t \in job.tasks
    /\ \/ ~There(t.p) /\ UNCHANGED <<spent, seen>>
       \/ /\ There(t.p)
          /\ CanUpset /\ spent' = [spent EXCEPT !.faults = @ + 1]
          /\ seen' = [seen EXCEPT !.whole = FALSE]
    /\ LET j == [job EXCEPT !.tasks = @ \ {t}]
       IN job' = IF t.op = "backfill" THEN j ELSE Rejected(j, t.p)
    /\ UNCHANGED <<env, db>>

(***************************************************************************)
(* The writes of a handler.                                                *)
(***************************************************************************)
Rest == [job EXCEPT !.agenda = Tail(@)]
Next1 == Head(job.agenda)
Owes(op) == job.phase = "Walk" /\ job.agenda # <<>> /\ Next1.op = op

\* upsert_scan_error: attempts are the runs that saw the failure.
Attempts(e, m, token) ==
    IF e.m # m THEN 1 ELSE IF e.last # token THEN e.n + 1 ELSE e.n

UpsertScanError ==
    /\ Owes("error")
    /\ LET o == Next1
       IN ledger' = [ledger EXCEPT ![o.p] =
            [m |-> o.m, n |-> Attempts(@, o.m, job.token), after |-> o.after,
             stage |-> o.stage, blocked |-> o.blocked, last |-> job.token]]
    /\ job' = Rest
    /\ UNCHANGED <<env, folders, files, items, stored, marks, scans, spent, seen>>

\* upsert_visual_attempts
UpsertVisualAttempt ==
    /\ Owes("mark")
    /\ marks' = [marks EXCEPT ![Next1.c] =
          [n |-> IF @.last # job.token THEN @.n + 1 ELSE @.n, after |-> Next1.after,
           last |-> job.token]]
    /\ job' = Rest
    /\ UNCHANGED <<env, folders, files, items, stored, ledger, scans, spent, seen>>

\* store_thumbnails drops the marker in its transaction.
StoreThumbnails ==
    /\ Owes("store")
    /\ stored' = [stored EXCEPT ![Next1.c] = Next1.of]
    /\ marks' = [marks EXCEPT ![Next1.c] = NoMark]
    /\ job' = Rest
    /\ UNCHANGED <<env, folders, files, items, ledger, scans, spent, seen>>

\* update_file_data
UpdateFileData ==
    /\ Owes("file")
    /\ LET o == Next1
       IN /\ items' = items \cup {o.c}
          /\ files' = [files EXCEPT ![o.p] =
                IF o.fresh \/ @ # NoRow
                THEN [c |-> IF o.fresh THEN o.c ELSE @.c, m |-> o.m, scan |-> job.id,
                      avail |-> TRUE]
                ELSE NoRow]
    /\ job' = Rest
    /\ UNCHANGED <<env, folders, stored, ledger, marks, scans, spent, seen>>

\* clear_scan_error: a file that got through owes no row, unless it is pinned.
Clear ==
    /\ Owes("clear")
    /\ ledger' = IF job.known[Next1.p] # NoError /\ Next1.p \notin job.pinned
                 THEN [ledger EXCEPT ![Next1.p] = NoError] ELSE ledger
    /\ job' = [Rest EXCEPT !.known[Next1.p] =
                  IF ledger[Next1.p] # ledger'[Next1.p] THEN NoError ELSE @]
    /\ UNCHANGED <<env, folders, files, items, stored, marks, scans, spent, seen>>

Rekey ==
    /\ Owes("rekey")
    /\ ledger' = [ledger EXCEPT ![Next1.p] = IF @ = NoError THEN @ ELSE [@ EXCEPT !.m = Next1.m]]
    /\ job' = Rest
    /\ UNCHANGED <<env, folders, files, items, stored, marks, scans, spent, seen>>

\* in_flight_visuals
InFlight == {t.c : t \in {t \in job.tasks : t.op = "backfill"}}

\* maybe_dispatch_backfill
MaybeBackfill ==
    /\ Owes("backfill")
    /\ LET o == Next1
       IN job' = IF stored[o.c] # Nothing \/ MarkerSuppresses(o.c) \/ o.c \in InFlight
                 THEN Rest
                 ELSE [Rest EXCEPT !.tasks = @ \cup
                         {[op |-> "backfill", p |-> o.p, m |-> 0, c |-> o.c]}]
    /\ UNCHANGED <<env, db, spent, seen>>

(***************************************************************************)
(* The end of a root: the walk and all tasks are done.                     *)
(***************************************************************************)
Walked == Free /\ job.ahead = {} /\ job.tasks = {}

\* The phase that follows; the cleanup of a folder update has two more.
After(phase) ==
    CASE phase = "Heal" -> "Open"
      [] phase = "Sweep" -> "Mark"
      [] phase = "Mark" -> "Close"
      [] phase = "Close" -> IF job.todo = {} THEN "DelUnavailable" ELSE "Open"
      [] phase = "DelUnavailable" -> IF job.update THEN "DelExcluded" ELSE "DelItems"
      [] phase = "DelExcluded" -> "DelStray"
      [] phase = "DelStray" -> "DelItems"
      [] phase = "DelItems" -> "DelThumbs"
      [] phase = "DelThumbs" -> "DelMarks"

Advance == [job EXCEPT !.phase = After(job.phase)]

EndWalk ==
    /\ Walked /\ job' = [job EXCEPT !.phase = "Sweep"]
    /\ UNCHANGED <<env, db, spent, seen>>

\* sweepable_scan_errors: what the walk did not reach is gone, if the walk saw
\* the whole tree.
Vanished == IF job.torn THEN {}
            ELSE {p \in Paths : job.known[p] # NoError /\ p \notin job.reached}

Sweep ==
    /\ job.phase = "Sweep" /\ job' = Advance
    /\ ledger' = [p \in Paths |-> IF p \in Vanished THEN NoError ELSE ledger[p]]
    /\ UNCHANGED <<env, folders, files, items, stored, marks, scans, spent, seen>>

\* mark_unavailable_files
MarkUnavailableFiles ==
    /\ job.phase = "Mark" /\ job' = Advance
    /\ files' = [p \in Paths |->
          IF /\ files[p] # NoRow /\ RootOf[p] = job.root /\ files[p].scan # job.id
             /\ p \notin job.errs /\ Cardinality(job.errs) <= MaxExcluded
          THEN [files[p] EXCEPT !.avail = FALSE] ELSE files[p]]
    /\ UNCHANGED <<env, folders, items, stored, ledger, marks, scans, spent, seen>>

\* UpdateFileScan stamps the end time.
CloseScan ==
    /\ job.phase = "Close" /\ job' = Advance
    /\ scans' = [scans EXCEPT ![job.id].open = FALSE]
    /\ seen' = [seen EXCEPT !.covered = @ \cup {job.root}]
    /\ UNCHANGED <<env, folders, files, items, stored, ledger, marks, spent>>

(***************************************************************************)
(* The cleanup, one transaction each.                                      *)
(***************************************************************************)
DeleteFiles(phase, gone) ==
    /\ job.phase = phase /\ job' = Advance
    /\ files' = [p \in Paths |-> IF p \in gone THEN NoRow ELSE files[p]]
    /\ UNCHANGED <<env, folders, items, stored, ledger, marks, scans, spent, seen>>

Unavailable == {p \in Paths : RemoveUnavailable /\ ~files[p].avail}
Excluded == UNION {LikeDir[d] : d \in folders.exc}
Stray == {p \in Paths : RootOf[p] \notin folders.inc}

DeleteSomeFiles ==
    \/ DeleteFiles("DelUnavailable", Unavailable)
    \/ DeleteFiles("DelExcluded", Excluded)
    \/ DeleteFiles("DelStray", Stray)

DeleteItemsWithoutFiles ==
    /\ job.phase = "DelItems" /\ job' = Advance
    /\ items' = items \cap {files[p].c : p \in Paths}
    /\ UNCHANGED <<env, folders, files, stored, ledger, marks, scans, spent, seen>>

DeleteOrphanedThumbnails ==
    /\ job.phase = "DelThumbs" /\ job' = Advance
    /\ stored' = [c \in Contents |-> IF c \in items THEN stored[c] ELSE Nothing]
    /\ UNCHANGED <<env, folders, files, items, ledger, marks, scans, spent, seen>>

\* The end of run_folder_update or of rescan_folders.
Ended == IF job.update /\ job.kind = "rescan" THEN [NoJob EXCEPT !.kind = "rescan", !.phase = "Rescan"]
         ELSE NoJob

SweepOrphanedVisualAttempts ==
    /\ job.phase = "DelMarks" /\ job' = Ended
    /\ marks' = [c \in Contents |-> IF c \in items THEN marks[c] ELSE NoMark]
    /\ UNCHANGED <<env, folders, files, items, stored, ledger, scans, spent, seen>>

(***************************************************************************)
(* What can go wrong between two writes.                                   *)
(***************************************************************************)
\* A write of the ledgers or of visuals is lost: logged, and the job goes on.
LoseWrite ==
    /\ CanUpset /\ spent' = [spent EXCEPT !.faults = @ + 1]
    /\ \/ /\ job.phase = "Walk" /\ job.agenda # <<>> /\ Next1.op \notin {"file", "backfill"}
          /\ job' = Rest
       \/ job.phase \in {"Heal", "Sweep"} /\ job' = Advance
       \/ job.phase = "DelMarks" /\ job' = Ended
    /\ seen' = [seen EXCEPT !.whole = FALSE]
    /\ UNCHANGED <<env, db>>

\* The job is cancelled, a write it cannot do without fails, or the process
\* dies: what is committed stays.
Abort ==
    /\ Running /\ job' = NoJob
    /\ CanUpset /\ spent' = [spent EXCEPT !.aborts = @ + 1]
    /\ seen' = [seen EXCEPT !.whole = FALSE]
    /\ UNCHANGED <<env, db>>

Folders == UpdateFolders \/ Unexclude \/ Register \/ ChooseAdded \/ ChooseAll \/ CloseStale \/ Heal
           \/ \E r \in RootFolders : OpenRoot(r)
Walk == \/ \E p \in Paths : ScanPath(p) \/ NotThere(p) \/ StatFails(p)
        \/ \E d \in Dirs : WalkError(d)
        \/ \E t \in job.tasks : HashDone(t) \/ PrepareDone(t) \/ BackfillDone(t) \/ TaskFails(t)
        \/ EndWalk
Writes == \/ UpsertScanError \/ UpsertVisualAttempt \/ StoreThumbnails \/ UpdateFileData
          \/ Clear \/ Rekey \/ MaybeBackfill
Cleanup == \/ Sweep \/ MarkUnavailableFiles \/ CloseScan \/ DeleteSomeFiles
           \/ DeleteItemsWithoutFiles \/ DeleteOrphanedThumbnails \/ SweepOrphanedVisualAttempts
Work == Folders \/ Walk \/ Writes \/ Cleanup

ScanNext ==
    \/ World
    \/ \E kind \in {"rescan", "update"} : Start(kind)
    \/ Work
    \/ LoseWrite
    \/ Abort

FileScanSpec == ScanInit /\ [][ScanNext]_scanVars

\* The runtime polls the job, and its workers and the writer answer.
LiveSpec == FileScanSpec /\ WF_scanVars(Work)

-----------------------------------------------------------------------------
(***************************************************************************)
(* Properties.                                                             *)
(***************************************************************************)
Ops == {"error", "file", "clear", "rekey", "store", "mark", "backfill"}
Phases == {"Idle", "Unregister", "Unexclude", "Register", "Rescan", "CloseStale", "Heal", "Open", "Walk",
           "Sweep", "Mark", "Close", "DelUnavailable", "DelExcluded", "DelStray", "DelItems",
           "DelThumbs", "DelMarks"}

\* Types; a file row is of an item's content, a job's root has its open row.
ScanTypeOK ==
    /\ disk \in [Paths -> {NoFile} \cup [c : Contents, m : 1..MaxMtime]]
    /\ clock \in 0..MaxMtime /\ unmounted \subseteq RootFolders /\ locked \subseteq Dirs
    /\ renderer \in BOOLEAN /\ want \in Wishes
    /\ folders \in [inc : SUBSET RootFolders, exc : SUBSET Dirs]
    /\ items \subseteq Contents /\ stored \in [Contents -> Contents \cup {Nothing}]
    /\ \A p \in Paths : files[p] # NoRow =>
          files[p].c \in items /\ files[p].scan \in DOMAIN scans
    /\ \A p \in Paths : ledger[p] # NoError =>
          ledger[p].n > 0 /\ ledger[p].last \in DOMAIN scans
    /\ \A c \in Contents : marks[c] # NoMark => marks[c].n > 0 /\ marks[c].last \in DOMAIN scans
    /\ job.phase \in Phases
    /\ job.phase = "Walk" => scans[job.id] = [root |-> job.root, open |-> TRUE]
    /\ \A i \in DOMAIN job.agenda : job.agenda[i].op \in Ops
    /\ Cardinality({t.c : t \in {t \in job.tasks : t.op = "backfill"}})
          = Cardinality({t \in job.tasks : t.op = "backfill"})

\* A file that could be read since the job started (open), under a registered
\* root and outside the excluded folders, keeps its index entry and stays
\* available, whatever fails: rejections, stat failures, dead workers and
\* known-bad files stay out of MarkUnavailableFiles and of the deletions, and a
\* root that has gone before the job checks it is left alone.
ExistingFilesKept ==
    [][\A p \in seen.open :
          /\ RootOf[p] \in folders.inc /\ DirOf[p] \notin folders.exc \cup job.exc
          /\ files[p].avail
          => files'[p].avail]_scanVars

Rejections(p, m) == {x \in seen.failed : x[1] = p /\ x[2] = m}
NoPictures(c) == {x \in seen.undecoded : x[1] = c}

\* The attempts of both ledgers count runs that saw the failure: one run over
\* several roots, or several files of one content, counts once.  (The verdict on
\* a file that changes while it is read may be counted with that on another
\* version: hence calm.)
AttemptsCountRuns ==
    /\ \A p \in Paths :
          seen.calm /\ ledger[p] # NoError /\ Blocks(ledger[p]) /\ ~ledger[p].blocked =>
             ledger[p].n <= Cardinality({x[3] : x \in Rejections(p, ledger[p].m)})
    /\ \A c \in Contents : marks[c].n <= Cardinality({x[2] : x \in NoPictures(c)})

\* A file that does not parse or decode is tried again until two runs agree and no
\* further, except for the runs whose writes were lost or that were aborted.  What
\* takes the file out of sight makes the ledgers forget it, and two more may
\* follow: its root or its directory goes, its folder is excluded, or it is moved
\* away and back.
RetriesAreBounded ==
    seen.calm =>
        \A x \in seen.failed : x[1] \notin seen.back =>
            Cardinality({y[3] : y \in Rejections(x[1], x[2])})
               <= Ambiguous * (1 + spent.mounts + spent.locks + spent.wishes)
                    + spent.aborts + spent.faults

\* What a run that ended leaves behind for the files of the roots it checked.
RowsMatchTheDisk ==
    \A p \in Paths : RootOf[p] \in seen.checked /\ DirOf[p] \notin folders.exc =>
        /\ disk[p] = NoFile => ~files[p].avail /\ (RemoveUnavailable => files[p] = NoRow)
        /\ disk[p] = NoFile => ledger[p] = NoError
        /\ disk[p] # NoFile =>
             \/ files[p].c = disk[p].c /\ files[p].m = disk[p].m /\ files[p].avail
             \/ ledger[p] # NoError /\ ledger[p].m = disk[p].m /\ Blocks(ledger[p])
        /\ files[p].avail /\ files[p].c \notin Broken /\ (Html(p) => renderer)
              => stored[files[p].c] # Nothing \/ ledger[p] # NoError
        /\ files[p].avail /\ files[p].c \in Undecodable
              => marks[files[p].c] # NoMark \/ stored[files[p].c] # Nothing \/ ledger[p] # NoError

NothingOrphaned ==
    /\ items = {files[p].c : p \in Paths} \ {Nothing}
    /\ \A c \in Contents \ items : stored[c] = Nothing /\ marks[c] = NoMark

\* A run that nothing disturbs settles the index: what is on the disk is
\* indexed as it is or has a row that says why not, what is gone is gone, an
\* image has its thumbnail or the marker that explains its absence, nothing is
\* left of contents no file holds, and no scan of its roots stays open.
AQuietRunSettles ==
    [][Running /\ ~Running' /\ seen'.quiet /\ seen'.whole /\ unmounted = {} /\ locked = {}
       => /\ RowsMatchTheDisk' /\ NothingOrphaned'
          /\ \A i \in DOMAIN scans : scans[i].root \in seen.checked => ~scans[i].open]_scanVars

\* A verdict stays as long as the file it is about: neither a walk that could
\* not read part of the tree, nor a touch of an undecodable file, nor its
\* being indexed all the same drops the row.  (A file that changes while it is
\* read may be filed with the verdict on its new bytes: hence calm.  And where
\* the rekey after a touch was lost, the next run drops the row: hence faults.)
VerdictsAreKept ==
    [][\A p \in seen.stayed :
          /\ ledger[p] # NoError /\ ~ledger[p].blocked /\ DirOf[p] \notin job.exc
          /\ IF Blocks(ledger[p]) THEN ledger[p].m = disk[p].m /\ disk[p].c \notin items
             ELSE seen.calm /\ spent.faults = 0 /\ files[p].c = disk[p].c /\ marks[disk[p].c] # NoMark
          => ledger'[p] # NoError]_scanVars

\* A row that waits for the renderer is healed by the first run that finds it.
BlockedRowsHeal ==
    [][Running /\ ~Running' /\ seen'.quiet /\ seen'.whole /\ renderer
       => \A p \in Paths : RootOf[p] \in seen.checked => ~ledger'[p].blocked]_scanVars

\* After a folder update that ran to its end, every registered folder that was
\* valid when it looked has been scanned to the end since it was registered: also one
\* whose registration was aborted before its scan.  (A second interruption, or a
\* folder that goes and comes back, can leave an older record that passes for
\* the scan: hence the first conjunct.)
FolderUpdateCovers ==
    [][/\ spent.wishes + spent.aborts + spent.faults <= 1
       /\ job.phase = "DelMarks" /\ job'.phase # "DelMarks" /\ job.update /\ ~Running'
       => folders.inc \cap seen.able \subseteq seen.covered]_scanVars

\* What a run leaves behind: the first two of one that nothing disturbs.
RunsSettle == AQuietRunSettles /\ BlockedRowsHeal /\ FolderUpdateCovers

\* Failures are counted by runs, retried as often as their verdict needs, and
\* their verdicts kept.
AttemptsAreFair == [](AttemptsCountRuns /\ RetriesAreBounded) /\ VerdictsAreKept

\* A job comes to its end.
EveryJobEnds == []<>~Running

\* From the comment of rekey_audit_scan_error: no thumbnail of a content is
\* suppressed with nothing on the failures surface for any file of it.
SuppressionIsVisible ==
    [][Running /\ ~Running' /\ seen'.quiet /\ seen'.whole
       => \A p \in Paths :
             files'[p].avail /\ RootOf[p] \in seen.checked
             /\ MarkerSuppresses(files[p].c)'
             => \E q \in Paths : files'[q].c = files'[p].c /\ ledger'[q] # NoError]_scanVars

\* From the comment of handle_backfill's in-flight set: visuals are filed
\* under the content they were made from.
StoredVisualsAreOfTheirContent == \A c \in Contents : stored[c] \in {Nothing, c}

\* From the comment of SKIP_AFTER_AMBIGUOUS: a verdict that needs a second
\* failure needs it in a later run, and nothing is suppressed by one job.
ConfirmedByALaterJob ==
    \A c \in Contents : MarkerSuppresses(c) => Cardinality({x[3] : x \in NoPictures(c)}) > 1

\* From the README: a root that is an empty mount point while rows are indexed
\* beneath it is rejected, whichever root the run walks before it.
EmptyMountsAreRejected ==
    [][job.phase = "Open" /\ job'.phase = "Walk" /\ job.token # 0
       => job'.root \notin unmounted \/ Valid(job'.root)]_scanVars
=============================================================================
