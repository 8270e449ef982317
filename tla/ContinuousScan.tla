--------------------------- MODULE ContinuousScan ---------------------------
(***************************************************************************)
(* Continuous scanning of one index database (panoptikon/src/jobs/         *)
(* continuous_scan.rs): the supervisor, which starts, configures and stops *)
(* the database's scan actor; the actor, which watches the roots, hands    *)
(* changed files to workers and writes their results; the file watcher on  *)
(* the configuration with its gate; and the jobs of the queue that pause   *)
(* the scan while they run.  Databases share nothing but the supervisor's  *)
(* mailbox.                                                                *)
(*                                                                         *)
(* Each actor handles one message at a time, so a handler is a step unless *)
(* another actor can see into it: the supervisor's wait for the reply to a *)
(* Pause, and the reading of a configuration before it is acted upon, are  *)
(* steps of their own.  What a file holds, the settle checks and the       *)
(* statistics are left out; an index database that is not there is the     *)
(* same branch of the code as a disabled one.                              *)
(*                                                                         *)
(* The operators named Mut... are faulty variants of the definition that   *)
(* follows them; no specification uses them.                               *)
(***************************************************************************)
EXTENDS Naturals, Sequences, FiniteSets

CONSTANTS
    Roots,         \* enabled configurations, told apart by the roots their
                   \* continuous_filescan.included_folders name
    Off,           \* continuous_filescan.enabled = false, or no index.db
    Unreadable,    \* config.toml does not parse
    Configs,       \* what the configuration may be edited to
    Mounts,        \* whether the drive of the roots may be away
    None,
    Jobs,          \* jobs of the queue that pause the scan
    CancelAsking,  \* a job may be cancelled before its pause is acknowledged
    Rows,          \* ids of file_scans rows
    MaxUpsets,     \* bound: edits of the configuration, mounts and unmounts,
                   \* steps with a failed writer call or watcher start
    MaxWork        \* bound: files with the workers

ASSUME ConfigsAssumption ==
    /\ Configs \subseteq Roots \cup {Off, Unreadable}
    /\ Off \notin Roots /\ Unreadable \notin Roots /\ None \notin Roots
    /\ Off # Unreadable

ASSUME RowsAssumption == None \notin Rows /\ Rows # {}

(* ContinuousScanState.                                                    *)
Scanner ==
    [config : Roots \cup {Off}, roots : Roots \cup {None}, scan_id : Rows \cup {None},
     epoch : Nat, paused : BOOLEAN, job_pauses : Nat, watching : BOOLEAN, stopping : BOOLEAN]

ASSUME ScannerAssumption == None \notin Scanner

ASSUME MountsAssumption == Mounts \subseteq BOOLEAN /\ CancelAsking \in BOOLEAN

ASSUME BoundsAssumption == MaxUpsets \in Nat /\ MaxWork \in Nat

VARIABLES
    config_file,  \* the configuration on disk
    mounted,      \* the drive of the roots is there
    edits,
    event,        \* a watcher event for the configuration is under way
    pending,      \* resync_pending
    debounce,     \* a task sleeps before it sends ResyncFromDisk
    mailbox,      \* of the supervisor
    doing,        \* what the supervisor's handler is in the middle of
    registered,   \* ContinuousScanSupervisorState::actors has the scanner
    scanner,      \* ContinuousScanState of the actor under the database's name
    inbox,        \* of the scanner
    work,         \* files with the workers
    open,         \* rows of file_scans without an end_time
    job_state,
    faults

watch == <<event, pending, debounce>>
supervisor == <<mailbox, doing, registered>>
actor == <<scanner, inbox, work, open>>
vars == <<config_file, mounted, edits, watch, supervisor, actor, job_state, faults>>

Idle == [type |-> "idle"]

Outcomes == IF edits + faults < MaxUpsets THEN BOOLEAN ELSE {TRUE}

CountFaults(outcomes) == faults' = faults + (IF FALSE \in outcomes THEN 1 ELSE 0)

-----------------------------------------------------------------------------
(* The configuration and its watcher.                                      *)

(* An edit, by hand or through the API, which says so to the supervisor as *)
(* well (notify_config_change).                                            *)
Edit(config, api) ==
    /\ edits + faults < MaxUpsets /\ config # config_file
    /\ config_file' = config /\ edits' = edits + 1
    /\ event' = TRUE
    /\ mailbox' = IF api THEN Append(mailbox, [type |-> "config"]) ELSE mailbox
    /\ UNCHANGED <<mounted, pending, debounce, doing, registered, actor, job_state, faults>>

Remount ==
    /\ edits + faults < MaxUpsets /\ (~mounted) \in Mounts
    /\ mounted' = ~mounted /\ edits' = edits + 1
    /\ UNCHANGED <<config_file, watch, supervisor, actor, job_state, faults>>

(* schedule_supervisor_resync: the gate lets one resync through.           *)
WatcherEvent ==
    /\ event
    /\ event' = FALSE /\ pending' = TRUE
    /\ debounce' = (debounce \/ ~pending)
    /\ UNCHANGED <<config_file, mounted, edits, supervisor, actor, job_state, faults>>

DebounceEnds ==
    /\ debounce
    /\ debounce' = FALSE
    /\ mailbox' = Append(mailbox, [type |-> "resync"])
    /\ UNCHANGED <<config_file, mounted, edits, event, pending, doing, registered, actor, job_state, faults>>

(* SUPERVISOR_RESYNC_INTERVAL.  Bound: the last one has been worked off.   *)
ResyncInterval ==
    /\ doing = Idle /\ Len(mailbox) <= 1
    /\ ~\E i \in DOMAIN mailbox : mailbox[i].type = "resync"
    /\ ~\E i \in DOMAIN inbox : inbox[i].type = "UpdateConfig"
    /\ mailbox' = Append(mailbox, [type |-> "resync"])
    /\ UNCHANGED <<config_file, mounted, edits, watch, doing, registered, actor, job_state, faults>>

-----------------------------------------------------------------------------
(* The supervisor.                                                         *)

Takes(type) == doing = Idle /\ mailbox # <<>> /\ Head(mailbox).type = type

(* Fault: the pass does not open the gate.                                 *)
MutResyncFromDisk ==
    /\ Takes("resync")
    /\ mailbox' = Tail(mailbox)
    /\ doing' = [type |-> "resync", config |-> config_file]
    /\ UNCHANGED <<config_file, mounted, edits, watch, registered, actor, job_state, faults>>

(* The gate opens first, then the configuration is read.                   *)
ResyncFromDisk ==
    /\ Takes("resync")
    /\ mailbox' = Tail(mailbox)
    /\ pending' = FALSE
    /\ doing' = [type |-> "resync", config |-> config_file]
    /\ UNCHANGED <<config_file, mounted, edits, event, debounce, registered, actor, job_state, faults>>

(* sync_single_db gives up on a configuration that does not load.          *)
ConfigChanged ==
    /\ Takes("config")
    /\ mailbox' = Tail(mailbox)
    /\ doing' = IF config_file = Unreadable THEN Idle ELSE [type |-> "single", config |-> config_file]
    /\ UNCHANGED <<config_file, mounted, edits, watch, registered, actor, job_state, faults>>

(* start_scan gets a row, or fails and leaves the state as it is.  Bound:  *)
(* there is an id that is not in use.                                      *)
Unused(s) == Rows \ (open \cup {s.scan_id})

Started(s, ok) == IF ok THEN [s EXCEPT !.scan_id = CHOOSE row \in Unused(s) : TRUE] ELSE s

(* close_scan forgets the row even if it cannot close it.                  *)
Closed(s) == [s EXCEPT !.scan_id = None]

RowsAfterClose(s, ok) == IF ok THEN open \ {s.scan_id} ELSE open

(* refresh_roots: no root is left when the drive is away.                  *)
Refreshed(s, config) ==
    [s EXCEPT !.config = config, !.roots = IF mounted /\ config # Off THEN config ELSE None]

(* pre_start reads the configuration again, closes one stale row, and      *)
(* starts the scan.                                                        *)
Fresh(config, watching) ==
    [config |-> config, roots |-> IF mounted /\ config # Off THEN config ELSE None,
     scan_id |-> None, epoch |-> 0, paused |-> config = Off \/ ~mounted, job_pauses |-> 0,
     watching |-> config # Off /\ mounted /\ watching, stopping |-> FALSE]

Spawn(config) ==
    \E writes, watches \in Outcomes, stale \in IF open = {} THEN {None} ELSE open :
        LET s == Fresh(config_file, watches)
            left == IF writes THEN open \ {stale} ELSE open
        IN  /\ Unused(s) # {}
            /\ scanner' = Started(s, writes /\ ~s.paused)
            /\ open' = left \cup ({scanner'.scan_id} \ {None})
            /\ inbox' = <<[type |-> "UpdateConfig", config |-> config]>>
            /\ registered' = TRUE
            /\ CountFaults({writes, watches})
            /\ UNCHANGED work

StopScanner ==
    /\ registered' = FALSE
    /\ scanner' = IF registered THEN [scanner EXCEPT !.stopping = TRUE] ELSE scanner

(* The rest of resync_from_disk and of sync_single_db: stop the scanner,   *)
(* configure it, or spawn it.  A name that is still taken, or a            *)
(* configuration that no longer loads, fails the spawn.                    *)
Sync ==
    /\ doing.type \in {"resync", "single"}
    /\ doing' = Idle
    /\ IF doing.config \notin Roots
       THEN StopScanner /\ UNCHANGED <<inbox, work, open, faults>>
       ELSE IF registered
       THEN /\ inbox' = Append(inbox, [type |-> "UpdateConfig", config |-> doing.config])
            /\ UNCHANGED <<registered, scanner, work, open, faults>>
       ELSE IF scanner # None \/ config_file = Unreadable
       THEN UNCHANGED <<registered, actor, faults>>
       ELSE Spawn(doing.config)
    /\ UNCHANGED <<config_file, mounted, edits, watch, mailbox, job_state>>

(* The supervisor casts Pause and waits for the reply; without a scanner   *)
(* it answers at once.                                                     *)
PauseForJob ==
    /\ Takes("PauseForJob")
    /\ LET j == Head(mailbox).job
       IN  /\ doing' = [type |-> IF registered THEN "pausing" ELSE "paused", job |-> j]
           /\ inbox' = IF registered THEN Append(inbox, [type |-> "Pause"]) ELSE inbox
    /\ mailbox' = Tail(mailbox)
    /\ UNCHANGED <<config_file, mounted, edits, watch, registered, scanner, work, open, job_state, faults>>

PauseReply ==
    /\ doing.type = "paused"
    /\ doing' = Idle
    /\ job_state' = [job_state EXCEPT ![doing.job] = IF @ = "asking" THEN "running" ELSE @]
    /\ UNCHANGED <<config_file, mounted, edits, watch, mailbox, registered, actor, faults>>

ResumeAfterJob ==
    /\ Takes("ResumeAfterJob")
    /\ mailbox' = Tail(mailbox)
    /\ IF registered
       THEN inbox' = Append(inbox, [type |-> "Resume"]) /\ UNCHANGED doing
       ELSE /\ doing' = IF config_file = Unreadable THEN Idle ELSE [type |-> "single", config |-> config_file]
            /\ UNCHANGED inbox
    /\ UNCHANGED <<config_file, mounted, edits, watch, registered, scanner, work, open, job_state, faults>>

-----------------------------------------------------------------------------
(* The scanner.                                                            *)

Handles(type) ==
    /\ scanner # None /\ ~scanner.stopping
    /\ inbox # <<>> /\ Head(inbox).type = type
    /\ inbox' = Tail(inbox)

Replied == IF doing.type = "pausing" THEN [doing EXCEPT !.type = "paused"] ELSE doing

(* Fault: a flag in place of the count.                                    *)
MutHandlePause ==
    /\ Handles("Pause")
    /\ \E writes \in Outcomes :
        /\ scanner' = Closed([scanner EXCEPT !.paused = TRUE, !.job_pauses = 1,
                                             !.epoch = @ + 1, !.watching = FALSE])
        /\ open' = RowsAfterClose(scanner, writes)
        /\ CountFaults({writes})
    /\ doing' = Replied
    /\ UNCHANGED <<config_file, mounted, edits, watch, mailbox, registered, work, job_state>>

HandlePause ==
    /\ Handles("Pause")
    /\ \E writes \in Outcomes :
        /\ scanner' = Closed([scanner EXCEPT !.paused = TRUE, !.job_pauses = @ + 1,
                                             !.epoch = @ + 1, !.watching = FALSE])
        /\ open' = RowsAfterClose(scanner, writes)
        /\ CountFaults({writes})
    /\ doing' = Replied
    /\ UNCHANGED <<config_file, mounted, edits, watch, mailbox, registered, work, job_state>>

(* The last of the pauses is gone.                                         *)
MayRun(s) == s.job_pauses = 0

(* Resume: the count first, then the configuration on disk decides.  The   *)
(* record is closed only if the roots are gone, and never before a new one *)
(* is started.                                                             *)
HandleResume ==
    /\ Handles("Resume")
    /\ LET s == [scanner EXCEPT !.job_pauses = IF @ = 0 THEN 0 ELSE @ - 1]
           loaded == Refreshed(s, config_file)
       IN  \/ /\ ~MayRun(s) \/ config_file = Unreadable
              /\ scanner' = s
              /\ UNCHANGED <<open, faults>>
           \/ /\ MayRun(s) /\ config_file = Off /\ mounted
              /\ scanner' = [loaded EXCEPT !.paused = TRUE, !.watching = FALSE]
              /\ UNCHANGED <<open, faults>>
           \/ /\ MayRun(s) /\ config_file # Unreadable /\ ~mounted
              /\ \E writes \in Outcomes :
                    /\ scanner' = Closed([loaded EXCEPT !.paused = TRUE, !.watching = FALSE,
                                                        !.epoch = @ + 1])
                    /\ open' = RowsAfterClose(s, writes)
                    /\ CountFaults({writes})
           \/ /\ MayRun(s) /\ config_file \in Roots /\ mounted /\ Unused(s) # {}
              /\ \E writes, watches \in Outcomes :
                    /\ scanner' = Started([loaded EXCEPT !.paused = FALSE, !.epoch = @ + 1,
                                                         !.watching = watches], writes)
                    /\ open' = open \cup ({scanner'.scan_id} \ {None})
                    /\ CountFaults({writes, watches})
    /\ UNCHANGED <<config_file, mounted, edits, watch, mailbox, doing, registered, work, job_state>>

(* Fault: the results of the old roots stay current.                       *)
MutRestarted(s) == [s EXCEPT !.paused = FALSE]

(* A restart that outdates whatever is with the workers.                   *)
Restarted(s) == [s EXCEPT !.paused = FALSE, !.epoch = @ + 1]

(* Fault: a scanner that is paused by a stopped configuration stays paused. *)
MutNeedsRestart(s, config) ==
    s.config = Off \/ s.roots # config

(* UpdateConfig restarts only if something the scan depends on changed, or *)
(* nothing runs.                                                           *)
NeedsRestart(s, config) ==
    s.config = Off \/ s.roots # config \/ s.paused \/ ~s.watching

(* UpdateConfig.  The supervisor casts enabled configurations only.        *)
HandleUpdateConfig ==
    /\ Handles("UpdateConfig")
    /\ LET config == Head(inbox).config
           s == Refreshed(scanner, config)
           active == scanner.watching \/ scanner.scan_id # None
       IN  \/ /\ ~mounted /\ active
              /\ \E writes \in Outcomes :
                    /\ scanner' = Closed([s EXCEPT !.paused = TRUE, !.epoch = @ + 1,
                                                   !.watching = FALSE])
                    /\ open' = RowsAfterClose(scanner, writes)
                    /\ CountFaults({writes})
           \/ /\ ~mounted /\ ~active
              /\ scanner' = [s EXCEPT !.paused = TRUE]
              /\ UNCHANGED <<open, faults>>
           \/ /\ mounted /\ MayRun(scanner) /\ NeedsRestart(scanner, config) /\ Unused(s) # {}
              /\ \E writes, watches \in Outcomes :
                    LET r == [Restarted(s) EXCEPT !.watching = watches]
                    IN  /\ scanner' = IF scanner.config = Off THEN Started(r, writes) ELSE r
                        /\ open' = open \cup ({scanner'.scan_id} \ {None})
                        /\ CountFaults({writes, watches})
           \/ /\ mounted /\ (~MayRun(scanner) \/ ~NeedsRestart(scanner, config))
              /\ scanner' = s
              /\ UNCHANGED <<open, faults>>
    /\ UNCHANGED <<config_file, mounted, edits, watch, mailbox, doing, registered, work, job_state>>

(* dispatch_path: a changed file under the roots goes to a worker.         *)
Dispatch ==
    /\ scanner # None /\ ~scanner.stopping /\ ~scanner.paused /\ scanner.roots # None
    /\ Cardinality(work) < MaxWork
    /\ work' = work \cup {[epoch |-> scanner.epoch, roots |-> scanner.roots]}
    /\ UNCHANGED <<config_file, mounted, edits, watch, supervisor, scanner, inbox, open, job_state, faults>>

Accepts(w) == ~scanner.paused /\ w.epoch = scanner.epoch

(* WorkerResult: written under the scan's row, or dropped as outdated.     *)
HandleResult(w) ==
    /\ w \in work /\ scanner # None /\ ~scanner.stopping
    /\ work' = work \ {w}
    /\ UNCHANGED <<config_file, mounted, edits, watch, supervisor, scanner, inbox, open, job_state, faults>>

(* stop: the current message was the last.  post_stop closes the record;   *)
(* what waits in the mailbox, a Pause among it, and what the workers still *)
(* answer is dropped, and the name is free.                                *)
PostStop ==
    /\ scanner # None /\ scanner.stopping
    /\ \E writes \in Outcomes :
        open' = RowsAfterClose(scanner, writes) /\ CountFaults({writes})
    /\ scanner' = None /\ inbox' = <<>> /\ work' = {}
    /\ doing' = Replied
    /\ UNCHANGED <<config_file, mounted, edits, watch, mailbox, registered, job_state>>

-----------------------------------------------------------------------------
(* The jobs.  The queue runs one at a time.                                *)

(* pause_for_job_guarded asks first and has its guard after the reply.     *)
StartJob(j) ==
    /\ job_state[j] = "queued" /\ \A k \in Jobs : job_state[k] \notin {"asking", "running"}
    /\ job_state' = [job_state EXCEPT ![j] = "asking"]
    /\ mailbox' = Append(mailbox, [type |-> "PauseForJob", job |-> j])
    /\ UNCHANGED <<config_file, mounted, edits, watch, doing, registered, actor, faults>>

(* guard.resume, or the resume that a Drop of the guard spawned.           *)
SendResume(j) ==
    /\ job_state[j] \in {"running", "dropped"}
    /\ job_state' = [job_state EXCEPT ![j] = "ended"]
    /\ mailbox' = Append(mailbox, [type |-> "ResumeAfterJob"])
    /\ UNCHANGED <<config_file, mounted, edits, watch, doing, registered, actor, faults>>

(* A cancelled job is dropped where it awaits: while it runs, its guard    *)
(* spawns the resume; before the reply there is no guard.                  *)
CancelJob(j) ==
    /\ \/ job_state[j] = "running" /\ job_state' = [job_state EXCEPT ![j] = "dropped"]
       \/ CancelAsking /\ job_state[j] = "asking" /\ job_state' = [job_state EXCEPT ![j] = "ended"]
    /\ UNCHANGED <<config_file, mounted, edits, watch, supervisor, actor, faults>>

-----------------------------------------------------------------------------
(* The program starts: the supervisor's first pass is under way.           *)
Init ==
    /\ config_file \in Configs /\ mounted \in Mounts /\ edits = 0
    /\ event = FALSE /\ pending = FALSE /\ debounce = FALSE
    /\ mailbox = <<>> /\ doing = [type |-> "resync", config |-> config_file] /\ registered = FALSE
    /\ scanner = None /\ inbox = <<>> /\ work = {}
    /\ open \in {{}, {CHOOSE row \in Rows : TRUE}}
    /\ job_state = [j \in Jobs |-> "queued"]
    /\ faults = 0

Supervise ==
    ResyncFromDisk \/ ConfigChanged \/ Sync \/ PauseForJob \/ PauseReply \/ ResumeAfterJob

Scan == HandlePause \/ HandleResume \/ HandleUpdateConfig \/ PostStop

Next ==
    \/ \E config \in Configs, api \in BOOLEAN : Edit(config, api)
    \/ Remount \/ WatcherEvent \/ DebounceEnds \/ ResyncInterval
    \/ Supervise \/ Scan
    \/ Dispatch \/ \E w \in work : HandleResult(w)
    \/ \E j \in Jobs : StartJob(j) \/ SendResume(j) \/ CancelJob(j)

Spec == Init /\ [][Next]_vars

(* The runtime schedules ready tasks, timers fire, jobs end.               *)
Fairness ==
    /\ WF_vars(WatcherEvent) /\ WF_vars(DebounceEnds) /\ WF_vars(ResyncInterval)
    /\ WF_vars(Supervise) /\ WF_vars(Scan)
    /\ \A j \in Jobs : WF_vars(SendResume(j))

FairSpec == Spec /\ Fairness

-----------------------------------------------------------------------------
(* Properties.                                                             *)

(* Every variable has its type, and a registered scanner exists.           *)
TypeOK ==
    /\ config_file \in Configs /\ mounted \in BOOLEAN
    /\ event \in BOOLEAN /\ pending \in BOOLEAN /\ debounce \in BOOLEAN
    /\ registered \in BOOLEAN
    /\ scanner \in Scanner \cup {None}
    /\ registered => scanner # None /\ ~scanner.stopping
    /\ work \subseteq [epoch : Nat, roots : Roots]
    /\ open \subseteq Rows
    /\ job_state \in [Jobs -> {"queued", "asking", "running", "dropped", "ended"}]

(* A scan that a job has paused neither watches nor has a record, whatever *)
(* configurations, mounts and other jobs' resumes reach it meanwhile.      *)
PausedForJobIsStill ==
    scanner # None =>
        /\ scanner.job_pauses > 0 => scanner.paused /\ scanner.scan_id = None
        /\ scanner.paused => ~scanner.watching

(* `Continuous scanning pauses automatically when a full rescan or folder  *)
(* update job starts on the same DB and resumes afterward' (README.md:343): *)
(* while a job runs, its database's scan is paused, also if the resume of  *)
(* a cancelled job arrives late.                                           *)
JobRunsPaused ==
    (\E j \in Jobs : job_state[j] = "running") /\ scanner # None => scanner.paused

(* `Drop spawns the resume, so the scan cannot be left paused by a         *)
(* cancelled job' (continuous_scan.rs:2244): once every job has ended and  *)
(* every message is handled, no pause is left.                             *)
PausesAreResumed ==
    (\A j \in Jobs : job_state[j] = "ended") /\ mailbox = <<>> /\ doing = Idle /\ inbox = <<>>
        => scanner = None \/ scanner.job_pauses = 0

(* The rows that are open are the scanner's, so a row of an ended scan is  *)
(* closed whatever pauses and restarts there were.                         *)
OpenRowIsTheScanners ==
    scanner # None /\ faults = 0 => open = {scanner.scan_id} \ {None}

(* The three are kept while the scan stays enabled and no write fails.  A  *)
(* job that starts while it is disabled has nothing to pause, nothing      *)
(* remembers that it asked, and its resume reaches a scan that runs.       *)
JobsPauseTheScan ==
    [](config_file \in Roots /\ faults = 0)
        => [](JobRunsPaused /\ PausesAreResumed /\ OpenRowIsTheScanners)

(* `Each actor creates a file_scans row with path <continuous> while       *)
(* active' (README.md:341): results are written under it.                  *)
ActiveScanHasRecord ==
    scanner # None /\ faults = 0 /\ scanner.watching => scanner.scan_id # None

(* Whatever is written was found under the roots the scan has now: results *)
(* that were with the workers over a pause, a resume or a change of the    *)
(* configuration are dropped.                                              *)
WritesAreOfTheseRoots ==
    \A w \in work : scanner # None /\ ~scanner.stopping /\ Accepts(w) => w.roots = scanner.roots

(* An edit the supervisor has not read is never swallowed by the gate: a   *)
(* watcher event, a sleeping task or a queued resync is still to come.     *)
GateSwallowsNothing ==
    pending => debounce \/ \E i \in DOMAIN mailbox : mailbox[i].type = "resync"

(* In every state a scanner is still while a job has it paused, and what   *)
(* it writes is of its own roots.                                          *)
ScannerIsSound == PausedForJobIsStill /\ WritesAreOfTheseRoots

Wanted == config_file \in Roots /\ mounted /\ \A j \in Jobs : job_state[j] = "ended"

Scanning ==
    scanner # None /\ registered /\ ~scanner.paused /\ scanner.watching /\ scanner.roots = config_file

(* Once the jobs are over and the configuration stays enabled with its     *)
(* roots in place, the scan runs on these roots again, for good.           *)
ScanComesBack == <>[]Wanted => <>[]Scanning

=============================================================================
