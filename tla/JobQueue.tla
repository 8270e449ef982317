------------------------------ MODULE JobQueue ------------------------------
(***************************************************************************)
(* The job queue of panoptikon/src/jobs/queue.rs: the queue actor, the     *)
(* runner actor it drives, the task that executes a job, and the detached  *)
(* tasks a job boundary spawns (the batch-model unload of                  *)
(* extraction.rs's batch slot, and the durable tags-dirty marks).          *)
(*                                                                         *)
(* The queue actor handles one message at a time, and its calls to the     *)
(* runner are request/reply, so one handler is one action.  Messages of    *)
(* clients (HTTP handlers, cron) are sent and handled in one step: they    *)
(* may be sent at any moment, so handling one before the messages that the *)
(* runner and the jobs have already put in `inbox' is the case where the   *)
(* client's message was ahead of them in the mailbox.                      *)
(*                                                                         *)
(* The VecDeque `queue' is a set of jobs: every insertion is a push_back   *)
(* that carries the next job_counter, so its order is the order of the     *)
(* ids and its front is the job with the least id.                         *)
(*                                                                         *)
(* The operators named Mut... are faulty variants of the definition that   *)
(* follows them; no specification uses them.                               *)
(***************************************************************************)
EXTENDS Integers, Sequences, FiniteSets, SequencesExt

CONSTANTS
    Dbs,               \* index databases
    Setters,           \* models an extraction job can load
    CronTags,          \* tags that cron puts on the jobs of a tick
    None,              \* Option::None
    Requests,          \* the JobRequests clients send
    Batches,           \* the EnqueueBatch messages clients send
    Reports,           \* the change summaries jobs report
    MaxRequests,       \* bound: messages clients send (Shutdown not counted)
    MaxRecentOutcomes  \* MAX_RECENT_OUTCOMES (256 in the code)

(* JobType *)
DeletingTypes == {"FolderRescan", "FolderUpdate", "DataDeletion", "JobDataDeletion"}
JobType == DeletingTypes \cup {"DataExtraction", "VectorQuantReconcile", "DbMaintenance"}

(* ChangeSummary: the flags that are set.                                  *)
Flags == {"wrote", "deleted", "tags"}
FlagName == [wrote |-> "wrote_data", deleted |-> "deleted_data", tags |-> "tags_changed"]
FlagNames == {FlagName[f] : f \in Flags}

(* The metadata of a maintenance job lists the names of its flags; a name  *)
(* that is no flag is ignored when the list is read back.                  *)
to_metadata(summary) == {FlagName[f] : f \in summary}
from_metadata(metadata) == {f \in Flags : FlagName[f] \in metadata}

JobRequest ==
    [type : JobType, db : Dbs,
     metadata : Setters \cup {None} \cup SUBSET FlagNames,
     tag : CronTags \cup {None}]
Job ==
    [id : Nat \ {0}, type : JobType, db : Dbs,
     metadata : Setters \cup {None} \cup SUBSET FlagNames,
     tag : CronTags \cup {None}]

(* What a client may ask for: any job but a maintenance job, with the model *)
(* of an extraction in its metadata.                                       *)
ClientRequest ==
    {r \in JobRequest :
        /\ r.type # "DbMaintenance"
        /\ IF r.type = "DataExtraction" THEN r.metadata \in Setters ELSE r.metadata = None}

(* What enqueue_job is called with carries no tag.                         *)
ASSUME RequestsAssumption == Requests \subseteq {r \in ClientRequest : r.tag = None}

(* The callers of enqueue_jobs_with_dedup (a cron tick, a reconcile) tag    *)
(* every request and dedup on the tag for each database of the batch.      *)
ASSUME BatchesAssumption ==
    \A b \in Batches :
        /\ b.requests \in Seq(ClientRequest)
        /\ b.dedups \subseteq CronTags \X Dbs
        /\ \A i \in DOMAIN b.requests : <<b.requests[i].tag, b.requests[i].db>> \in b.dedups

ASSUME DbsAssumption == IsFiniteSet(Dbs)

ASSUME ReportsAssumption == Reports \subseteq SUBSET Flags

ASSUME BoundsAssumption ==
    /\ MaxRequests \in Nat
    /\ MaxRecentOutcomes \in Nat \ {0}

ASSUME NoneAssumption ==
    /\ None \notin Setters /\ None \notin CronTags /\ None \notin Job
    /\ \A summary \in SUBSET Flags : None # summary

VARIABLES
    state,       \* JobQueueState; its fields pending_marks and unloads are
                 \* what the message being handled has decided to spawn, and
                 \* are empty between messages
    inbox,       \* messages of the runner and of the jobs to the queue actor
    runner,      \* id of JobRunnerState.running, or 0
    tasks,       \* job tasks whose watcher has not reported yet
    unloads,     \* spawned unload_batch_model tasks
    marks,       \* databases whose tags-dirty mark the last message spawned
    slot,        \* BATCH_SLOT: who holds it
    generation,  \* BATCH_LOAD_GENERATION
    requests     \* messages clients have sent so far

vars == <<state, inbox, runner, tasks, unloads, marks, slot, generation, requests>>

JobResult ==
    [success : BOOLEAN, summary : {None} \cup SUBSET Flags, loaded_model : Setters \cup {None}]
NoResult == [success |-> FALSE, summary |-> None, loaded_model |-> None]

Outcome == [id : Nat \ {0}, status : {"Completed", "Failed", "Cancelled"}]

(* A job task.  An extraction job resyncs its folders first, then loads    *)
(* its model under the batch slot; every other job type is one phase.      *)
(* `abort' is what AbortHandle::abort did: an idle task is dropped, a task *)
(* that another thread is polling completes that poll first.               *)
Task ==
    [job : Job, phase : {"start", "resynced", "loading", "loaded", "done"},
     abort : {"none", "midpoll", "idle"}, result : JobResult]

Unload == [setter : Setters, generation : Nat, phase : {"waiting", "calling"}]

Message ==
    [kind : {"RunnerFinished"}, id : Nat \ {0}, result : JobResult]
        \cup [kind : {"RecordOwed"}, db : Dbs, summary : SUBSET Flags]

QueueState ==
    [queue : SUBSET Job, queued_jobs : SUBSET Job, running_job : Job \cup {None},
     outcomes : Seq(Outcome), job_counter : Nat, shutting_down : BOOLEAN,
     owed : [Dbs -> SUBSET Flags], batch_loaded : Setters \cup {None},
     pending_marks : SUBSET Dbs, unloads : SUBSET Setters]

-----------------------------------------------------------------------------
(* Functions on the actor's state, named as in the source.                 *)

(* push_job for every request of rs in turn; push_maintenance_job too.     *)
push_jobs(s, rs) ==
    LET Pushed(k) == [id |-> s.job_counter + k, type |-> rs[k].type, db |-> rs[k].db,
                      metadata |-> rs[k].metadata, tag |-> rs[k].tag]
        new == {Pushed(k) : k \in DOMAIN rs}
    IN  [s EXCEPT !.job_counter = @ + Len(rs),
                  !.queue = @ \cup new,
                  !.queued_jobs = @ \cup new]

push_job(s, request) == push_jobs(s, <<request>>)

MaintenanceRequest(d, flags) ==
    [type |-> "DbMaintenance", db |-> d, metadata |-> to_metadata(flags), tag |-> None]

(* The log keeps the last MaxRecentOutcomes entries.                       *)
record_outcomes(s, log) ==
    LET all == s.outcomes \o log
        excess == Len(all) - MaxRecentOutcomes
    IN  [s EXCEPT !.outcomes = IF excess > 0 THEN SubSeq(all, excess + 1, Len(all)) ELSE all]

record_outcome(s, id, status) == record_outcomes(s, <<[id |-> id, status |-> status]>>)

IsFront(queue, j) == j \in queue /\ \A k \in queue : j.id <= k.id

(* busy: the runner already has a job, and rejects this one.               *)
start_next_job(s, busy) ==
    IF s.shutting_down \/ s.running_job # None \/ s.queue = {}
    THEN s
    ELSE LET job == CHOOSE j \in s.queue : IsFront(s.queue, j)
             popped == [s EXCEPT !.queue = @ \ {job},
                                 !.queued_jobs = {k \in @ : k.id # job.id}]
         IN  IF busy THEN record_outcome(popped, job.id, "Failed")
                     ELSE [popped EXCEPT !.running_job = job]

pessimistic_summary(job) ==
    CASE job.type = "VectorQuantReconcile" -> {"wrote", "deleted"}
      [] job.type \in DeletingTypes -> {"wrote", "deleted", "tags"}
      [] OTHER -> {"wrote"}

MutMarkReportedOnly(s, d, summary) ==
    LET merged == s.owed[d] \cup summary \cup (IF "deleted" \in summary THEN {"tags"} ELSE {})
    IN  [s EXCEPT !.owed[d] = merged,
                  !.pending_marks = IF "tags" \in summary THEN @ \cup {d} ELSE @]
merge_owed(s, d, summary) ==
    LET merged == s.owed[d] \cup summary \cup (IF "deleted" \in summary THEN {"tags"} ELSE {})
        newly_dirty == "tags" \in merged /\ "tags" \notin s.owed[d]
    IN  [s EXCEPT !.owed[d] = merged,
                  !.pending_marks = IF newly_dirty THEN @ \cup {d} ELSE @]

record_owed(s, job, summary) ==
    IF job.type = "DbMaintenance"
    THEN s
    ELSE merge_owed(s, job.db, IF summary = None THEN pessimistic_summary(job) ELSE summary)

ActiveJobs(s) == s.queue \cup (IF s.running_job = None THEN {} ELSE {s.running_job})

MaintenanceDue(s, d) ==
    /\ ~s.shutting_down
    /\ s.owed[d] # {}
    /\ \A job \in ActiveJobs(s) : job.db # d

(* maybe_schedule_maintenance for the databases ds, each of which is due.  *)
schedule_maintenance(s, ds) ==
    LET due == {ds[k] : k \in DOMAIN ds}
        pushed == push_jobs(s, [k \in DOMAIN ds |-> MaintenanceRequest(ds[k], s.owed[ds[k]])])
    IN  [pushed EXCEPT !.owed = [d \in Dbs |-> IF d \in due THEN {} ELSE s.owed[d]],
                       !.pending_marks = {d \in @ : d \notin due \/ "tags" \notin s.owed[d]}]

maybe_schedule_maintenance(s, d) ==
    IF MaintenanceDue(s, d) THEN schedule_maintenance(s, <<d>>) ELSE s

(* The first job that is no maintenance decides.                           *)
next_batch_setter(queue) ==
    LET work == {j \in queue : j.type # "DbMaintenance"}
        first == CHOOSE j \in work : IsFront(work, j)
    IN  IF work # {} /\ first.type = "DataExtraction" THEN first.metadata ELSE None

record_unreported_batch_load(s, job) ==
    IF job.type = "DataExtraction" THEN [s EXCEPT !.batch_loaded = job.metadata] ELSE s

record_batch_load(s, job, result) ==
    IF result.loaded_model # None THEN [s EXCEPT !.batch_loaded = result.loaded_model]
    ELSE IF ~result.success THEN record_unreported_batch_load(s, job)
    ELSE s

batch_unload_due(s) ==
    /\ s.running_job = None
    /\ s.batch_loaded # None
    /\ next_batch_setter(s.queue) # s.batch_loaded

maybe_unload_batch_model(s) ==
    IF batch_unload_due(s)
    THEN [s EXCEPT !.unloads = @ \cup {s.batch_loaded}, !.batch_loaded = None]
    ELSE s

(* The runner's answer to the queue's CancelRunning: its job, if any.      *)
CancelAnswered(s) == s.running_job # None /\ runner = s.running_job.id

MutCancelStartsNothing(s, suppress) ==
    IF ~CancelAnswered(s)
    THEN s
    ELSE LET job == s.running_job
             recorded == record_outcome([s EXCEPT !.running_job = None], job.id, "Cancelled")
             owing == record_unreported_batch_load(record_owed(recorded, job, None), job)
             scheduled == IF suppress THEN owing ELSE maybe_schedule_maintenance(owing, job.db)
         IN  IF s.shutting_down THEN scheduled ELSE maybe_unload_batch_model(scheduled)
cancel_running_job_inner(s, suppress) ==
    IF ~CancelAnswered(s)
    THEN s
    ELSE LET job == s.running_job
             recorded == record_outcome([s EXCEPT !.running_job = None], job.id, "Cancelled")
             owing == record_unreported_batch_load(record_owed(recorded, job, None), job)
             scheduled == IF suppress THEN owing ELSE maybe_schedule_maintenance(owing, job.db)
             unloaded == IF s.shutting_down THEN scheduled ELSE maybe_unload_batch_model(scheduled)
         IN  start_next_job(unloaded, FALSE)

-----------------------------------------------------------------------------
NewTask(job) == [job |-> job, phase |-> "start", abort |-> "none", result |-> NoResult]

(* The end of every handler.  s is the actor's state after the arm of the  *)
(* message, run the runner's job before any RunJob the arm sent, ts the    *)
(* tasks after any abort: a job that the arm started is handed to the      *)
(* runner and spawned, and the pending unloads and marks are spawned, the  *)
(* unloads with the load generation of this moment.                        *)
Commit(s, run, ts) ==
    LET started == s.running_job # None /\ s.running_job # state.running_job
    IN  /\ state' = [s EXCEPT !.pending_marks = {}, !.unloads = {}]
        /\ runner' = IF started THEN s.running_job.id ELSE run
        /\ tasks' = IF started THEN ts \cup {NewTask(s.running_job)} ELSE ts
        /\ unloads' = unloads \cup
              {[setter |-> u, generation |-> generation, phase |-> "waiting"] : u \in s.unloads}
        /\ marks' = s.pending_marks

Init ==
    /\ state = [queue |-> {}, queued_jobs |-> {}, running_job |-> None, outcomes |-> <<>>,
                job_counter |-> 0, shutting_down |-> FALSE, owed |-> [d \in Dbs |-> {}],
                batch_loaded |-> None, pending_marks |-> {}, unloads |-> {}]
    /\ inbox = <<>>
    /\ runner = 0
    /\ tasks = {}
    /\ unloads = {}
    /\ marks = {}
    /\ slot = "free"
    /\ generation = 0
    /\ requests = 0

-----------------------------------------------------------------------------
(* Client messages. *)

ClientSends ==
    /\ requests < MaxRequests
    /\ requests' = requests + 1

Enqueue(request) ==
    /\ ClientSends
    /\ ~state.shutting_down
    /\ Commit(start_next_job(push_job(state, request), runner # 0), runner, tasks)
    /\ UNCHANGED <<inbox, slot, generation>>

(* A dedup whose tag and database some active job carries drops the        *)
(* requests of the batch for that database.                                *)
SkippedDbs(s, dedups) ==
    {d \in Dbs : \E tag \in CronTags :
        <<tag, d>> \in dedups /\ \E job \in ActiveJobs(s) : job.tag = tag /\ job.db = d}

(* The requests kept stay in the order of the batch.                       *)
EnqueueBatch(batch) ==
    /\ ClientSends
    /\ ~state.shutting_down
    /\ LET skipped == SkippedDbs(state, batch.dedups)
           kept == {i \in DOMAIN batch.requests : batch.requests[i].db \notin skipped}
       IN  \E order \in SetToSeqs(kept) :
              /\ \A k, l \in DOMAIN order : k < l => order[k] < order[l]
              /\ LET accepted == [k \in DOMAIN order |-> batch.requests[order[k]]]
                 IN  Commit(IF kept = {} THEN state
                            ELSE start_next_job(push_jobs(state, accepted), runner # 0),
                            runner, tasks)
    /\ UNCHANGED <<inbox, slot, generation>>

IsMaintenance(job, d) == job.type = "DbMaintenance" /\ job.db = d

(* The code upgrades the first one it finds; OneMaintenancePerDb says that *)
(* there is no second.                                                     *)
Upgraded(jobs, d) ==
    {IF IsMaintenance(j, d) THEN [j EXCEPT !.metadata = to_metadata(Flags)] ELSE j : j \in jobs}

(* Both the queue and the map of queued jobs are upgraded.                 *)
UpgradeQueued(s, d) ==
    [s EXCEPT !.queue = Upgraded(@, d), !.queued_jobs = Upgraded(@, d)]

(* A maintenance job of d that is running absorbs the request, one that is *)
(* queued is upgraded to all flags, else one is queued.                    *)
EnqueueMaintenance(d) ==
    /\ ClientSends
    /\ ~state.shutting_down
    /\ ~(state.running_job # None /\ IsMaintenance(state.running_job, d))
    /\ LET cleared == [state EXCEPT !.owed[d] = {}]
       IN  Commit(IF \E j \in state.queue : IsMaintenance(j, d)
                  THEN UpgradeQueued(cleared, d)
                  ELSE start_next_job(push_job(cleared, MaintenanceRequest(d, Flags)), runner # 0),
                  runner, tasks)
    /\ UNCHANGED <<inbox, slot, generation>>

(* The runner aborts the task of its job and forgets it.                   *)
AbortTask(ts, m) ==
    {IF t.job.id = runner /\ t.phase # "done" THEN [t EXCEPT !.abort = m] ELSE t : t \in ts}

CancelRunning(suppress) ==
    /\ ClientSends
    /\ state.running_job # None
    /\ \E m \in {"midpoll", "idle"} :
          Commit(cancel_running_job_inner(state, suppress), 0, AbortTask(tasks, m))
    /\ UNCHANGED <<inbox, slot, generation>>

(* The client lists the queued jobs `listed', in the order `order', and    *)
(* possibly the running job, which is cancelled after them.                *)
CancelQueued(listed, with_running, suppress) ==
    /\ ClientSends
    /\ with_running => state.running_job # None
    /\ \E order \in SetToSeqs(listed), m \in {"midpoll", "idle"} :
          LET ids == {j.id : j \in listed}
              removed == record_outcomes(
                            [state EXCEPT !.queued_jobs = @ \ listed,
                                          !.queue = {j \in @ : j.id \notin ids}],
                            [k \in DOMAIN order |-> [id |-> order[k].id, status |-> "Cancelled"]])
              cancelled == IF with_running THEN cancel_running_job_inner(removed, suppress)
                                           ELSE removed
              due == {d \in {j.db : j \in listed} : ~suppress /\ MaintenanceDue(cancelled, d)}
          IN  \E ds \in SetToSeqs(due) :
                /\ \A k, l \in DOMAIN ds : k < l =>      \* in the order of the jobs removed
                      \E i \in DOMAIN order :
                          order[i].db = ds[k] /\ \A n \in 1 .. i : order[n].db # ds[l]
                /\ LET boundary == maybe_unload_batch_model(schedule_maintenance(cancelled, ds))
                       run == IF with_running THEN 0 ELSE runner
                   IN  Commit(start_next_job(boundary, ~with_running /\ runner # 0), run,
                              IF with_running THEN AbortTask(tasks, m) ELSE tasks)
    /\ UNCHANGED <<inbox, slot, generation>>

(* Dropped jobs get no outcome.  The unload and the marks are awaited for  *)
(* two seconds each instead of detached; UnloadLost is what a timeout, or  *)
(* the end of the process, does to the unload.                             *)
Shutdown ==
    /\ \E m \in {"midpoll", "idle"} :
          LET dropped == [state EXCEPT !.shutting_down = TRUE, !.queue = {}, !.queued_jobs = {}]
          IN  Commit(maybe_unload_batch_model(cancel_running_job_inner(dropped, TRUE)),
                     IF state.running_job = None THEN runner ELSE 0,
                     IF state.running_job = None THEN tasks ELSE AbortTask(tasks, m))
    /\ UNCHANGED <<inbox, slot, generation, requests>>

-----------------------------------------------------------------------------
(* Messages of the runner and of the jobs. *)

(* Completions of jobs that were cancelled meanwhile are stale.             *)
MutAnyCompletion(job, message) == job # None
Tracked(job, message) == job # None /\ job.id = message.id

RunnerFinished ==
    /\ inbox # <<>> /\ Head(inbox).kind = "RunnerFinished"
    /\ LET message == Head(inbox)
           result == message.result
           finished == state.running_job
           recorded == record_outcome([state EXCEPT !.running_job = None], message.id,
                                      IF result.success THEN "Completed" ELSE "Failed")
           owing == record_batch_load(record_owed(recorded, finished, result.summary),
                                      finished, result)
           boundary == maybe_unload_batch_model(maybe_schedule_maintenance(owing, finished.db))
       IN  Commit(IF Tracked(finished, message)
                  THEN start_next_job(boundary, runner # 0)
                  ELSE state,
                  runner, tasks)
    /\ inbox' = Tail(inbox)
    /\ UNCHANGED <<slot, generation, requests>>

RecordOwed ==
    /\ inbox # <<>> /\ Head(inbox).kind = "RecordOwed"
    /\ LET message == Head(inbox)
           running == state.running_job
       IN  Commit(IF running # None /\ running.type = "DbMaintenance"
                  THEN state
                  ELSE merge_owed(state, message.db, message.summary),
                  runner, tasks)
    /\ inbox' = Tail(inbox)
    /\ UNCHANGED <<slot, generation, requests>>

-----------------------------------------------------------------------------
(* The job task. *)

CanStep(t) == t.abort # "idle"
Stepped(t) == [t EXCEPT !.abort = IF @ = "midpoll" THEN "idle" ELSE @]
Replace(t, u) == tasks' = (tasks \ {t}) \cup {u}

(* run_extraction_job_inner's resync, reported with record_owed_now, which *)
(* sends nothing when the resync changed nothing.                          *)
ReportResync(t) ==
    /\ CanStep(t) /\ t.job.type = "DataExtraction" /\ t.phase = "start"
    /\ \E summary \in Reports :
          inbox' = IF summary = {} THEN inbox
                   ELSE Append(inbox, [kind |-> "RecordOwed", db |-> t.job.db, summary |-> summary])
    /\ Replace(t, [Stepped(t) EXCEPT !.phase = "resynced"])
    /\ UNCHANGED <<state, runner, unloads, marks, slot, generation, requests>>

(* lock_batch_slot, then begin_batch_load, then the load request is sent.  *)
BeginBatchLoad(t) ==
    /\ CanStep(t) /\ t.job.type = "DataExtraction" /\ t.phase \in {"start", "resynced"}
    /\ slot = "free"
    /\ slot' = "load"
    /\ generation' = generation + 1
    /\ Replace(t, [Stepped(t) EXCEPT !.phase = "loading"])
    /\ UNCHANGED <<state, inbox, runner, unloads, marks, requests>>

BatchLoaded(t) ==
    /\ CanStep(t) /\ t.phase = "loading"
    /\ slot' = "free"
    /\ Replace(t, [Stepped(t) EXCEPT !.phase = "loaded"])
    /\ UNCHANGED <<state, inbox, runner, unloads, marks, generation, requests>>

(* What execute_job can end with.  An extraction job that completes names  *)
(* the model it loaded, or none when there was nothing to process; a       *)
(* maintenance job changes nothing; a failed or panicked job reports       *)
(* nothing.                                                                *)
Results(t) ==
    {NoResult} \cup
    CASE t.job.type = "DbMaintenance" ->
            {[success |-> TRUE, summary |-> {}, loaded_model |-> None]}
      [] t.job.type = "DataExtraction" ->
            IF t.phase = "loading" THEN {}
            ELSE {[success |-> TRUE, summary |-> s,
                   loaded_model |-> IF t.phase = "loaded" THEN t.job.metadata ELSE None] : s \in Reports}
      [] OTHER ->
            {[success |-> TRUE, summary |-> s, loaded_model |-> None] : s \in Reports}

JobEnds(t) ==
    /\ CanStep(t) /\ t.phase # "done"
    /\ \E result \in Results(t) :
          Replace(t, [t EXCEPT !.phase = "done", !.result = result])
    /\ slot' = IF t.phase = "loading" THEN "free" ELSE slot
    /\ UNCHANGED <<state, inbox, runner, unloads, marks, generation, requests>>

(* The watcher reports to the runner, which clears its own job and         *)
(* forwards the completion to the queue whether the id is stale or not.    *)
MutRunnerStaysBusy(t) ==
    /\ t.phase = "done"
    /\ tasks' = tasks \ {t}
    /\ runner' = runner
    /\ inbox' = Append(inbox, [kind |-> "RunnerFinished", id |-> t.job.id, result |-> t.result])
    /\ UNCHANGED <<state, unloads, marks, slot, generation, requests>>
JobCompleted(t) ==
    /\ t.phase = "done"
    /\ tasks' = tasks \ {t}
    /\ runner' = IF runner = t.job.id THEN 0 ELSE runner
    /\ inbox' = Append(inbox, [kind |-> "RunnerFinished", id |-> t.job.id, result |-> t.result])
    /\ UNCHANGED <<state, unloads, marks, slot, generation, requests>>

(* The runtime drops the aborted task, and with it the slot guard; the     *)
(* watcher reports it in the same step, since the runner has forgotten it. *)
AbortLands(t) ==
    /\ t.abort # "none" /\ t.phase # "done"
    /\ tasks' = tasks \ {t}
    /\ runner' = IF runner = t.job.id THEN 0 ELSE runner
    /\ inbox' = Append(inbox, [kind |-> "RunnerFinished", id |-> t.job.id, result |-> NoResult])
    /\ slot' = IF t.phase = "loading" THEN "free" ELSE slot
    /\ UNCHANGED <<state, unloads, marks, generation, requests>>

-----------------------------------------------------------------------------
(* The detached tasks of a boundary. *)

MutAlwaysCurrent(u) == TRUE
batch_unload_is_current(u) == u.generation = generation

(* With the slot held: a stale unload returns, a current one calls         *)
(* unload_model_all.                                                       *)
UnloadLocks(u) ==
    /\ u.phase = "waiting" /\ slot = "free"
    /\ IF batch_unload_is_current(u)
       THEN /\ unloads' = (unloads \ {u}) \cup {[u EXCEPT !.phase = "calling"]}
            /\ slot' = "unload"
       ELSE /\ unloads' = unloads \ {u}
            /\ slot' = slot
    /\ UNCHANGED <<state, inbox, runner, tasks, marks, generation, requests>>

UnloadEnds(u) ==
    /\ u.phase = "calling"
    /\ unloads' = unloads \ {u}
    /\ slot' = "free"
    /\ UNCHANGED <<state, inbox, runner, tasks, marks, generation, requests>>

UnloadLost(u) ==
    /\ state.shutting_down
    /\ unloads' = unloads \ {u}
    /\ slot' = IF u.phase = "calling" THEN "free" ELSE slot
    /\ UNCHANGED <<state, inbox, runner, tasks, marks, generation, requests>>

-----------------------------------------------------------------------------
ClientStep ==
    \/ \E r \in Requests : Enqueue(r)
    \/ \E b \in Batches : EnqueueBatch(b)
    \/ \E d \in Dbs : EnqueueMaintenance(d)
    \/ \E suppress \in BOOLEAN : CancelRunning(suppress)
    \/ \E listed \in SUBSET state.queued_jobs, with_running, suppress \in BOOLEAN :
          CancelQueued(listed, with_running, suppress)
    \/ Shutdown

TaskStep(t) ==
    \/ ReportResync(t)
    \/ BeginBatchLoad(t)
    \/ BatchLoaded(t)
    \/ JobEnds(t)
    \/ AbortLands(t)
    \/ JobCompleted(t)

UnloadStep(u) == UnloadLocks(u) \/ UnloadEnds(u) \/ UnloadLost(u)

Next ==
    \/ ClientStep
    \/ RunnerFinished
    \/ RecordOwed
    \/ \E t \in tasks : TaskStep(t)
    \/ \E u \in unloads : UnloadStep(u)

Spec == Init /\ [][Next]_vars

-----------------------------------------------------------------------------
(* Fairness.  The queue actor handles the messages of its mailbox (every    *)
(* step that shortens inbox is RunnerFinished or RecordOwed), an aborted    *)
(* or finished task is reported, and a job does not run forever: the last   *)
(* is an assumption on the jobs, not something the queue enforces.          *)
Fairness ==
    /\ WF_inbox(inbox # <<>> /\ inbox' = Tail(inbox))
    /\ WF_vars(\E t \in tasks : JobEnds(t) \/ AbortLands(t) \/ JobCompleted(t))

FairSpec == Spec /\ Fairness

-----------------------------------------------------------------------------
(* Every variable holds a value of its type.                               *)
TypeOK ==
    /\ state \in QueueState
    /\ inbox \in Seq(Message)
    /\ runner \in Nat
    /\ tasks \subseteq Task
    /\ unloads \subseteq Unload
    /\ marks \subseteq Dbs
    /\ slot \in {"free", "load", "unload"}
    /\ generation \in Nat
    /\ requests \in 0 .. MaxRequests

(* The map of queued jobs (looked up by CancelQueued) and the queue itself *)
(* (popped by start_next_job) always hold the same jobs, metadata          *)
(* included, whatever mix of cancels, upgrades and pops has happened.      *)
QueueMirror == state.queue = state.queued_jobs

(* The queue and the runner agree: a job the queue believes to be running  *)
(* is the runner's, or its completion is already on the way; and the       *)
(* runner never has a job the queue does not know of, so RunJob is never   *)
(* rejected and no job runs beside another one.                            *)
RunnerAgreement ==
    /\ state.running_job # None =>
          \/ runner = state.running_job.id
          \/ \E k \in DOMAIN inbox : inbox[k].kind = "RunnerFinished"
                                       /\ inbox[k].id = state.running_job.id
    /\ runner # 0 => state.running_job # None /\ runner = state.running_job.id

(* Queue, map of queued jobs and runner are of one mind about what is       *)
(* queued and what runs.                                                    *)
QueueAndRunnerAgree == QueueMirror /\ RunnerAgreement

(* The queue never holds work while nothing runs: every handler that ends  *)
(* or removes a job starts the next one.                                   *)
IdleMeansDrained == state.running_job = None => state.queue = {}

(* A job that left the queue is in the outcome log once, one that has not  *)
(* left is not in it; and until the log overflows or the process shuts     *)
(* down, every accepted job is in one of the two places.                   *)
JobConservation ==
    LET live == {j.id : j \in ActiveJobs(state)}
        ended == {state.outcomes[k].id : k \in DOMAIN state.outcomes}
    IN  /\ Cardinality(ended) = Len(state.outcomes)
        /\ live \cap ended = {}
        /\ Len(state.outcomes) < MaxRecentOutcomes /\ ~state.shutting_down =>
              live \cup ended = 1 .. state.job_counter

(* However boundaries, manual requests and cancels interleave, a database  *)
(* has at most one maintenance job, queued or running.                     *)
OneMaintenancePerDb ==
    \A j, k \in ActiveJobs(state) :
        j.type = "DbMaintenance" /\ k.type = "DbMaintenance" /\ j.db = k.db => j = k

(* CancelQueued's comment: batch_loaded is only Some while a job runs,     *)
(* because every boundary either unloads the model or starts a job.        *)
BatchLoadedOnlyWhileRunning ==
    state.batch_loaded # None => state.running_job # None

(* The slot is held by exactly the task that loads or the unload that      *)
(* calls: an aborted loader cannot leave it locked.                        *)
SlotOwned ==
    /\ slot = "load" <=> \E t \in tasks : t.phase = "loading"
    /\ slot = "unload" <=> \E u \in unloads : u.phase = "calling"
    /\ \A t1, t2 \in tasks : t1.phase = "loading" /\ t2.phase = "loading" => t1 = t2
    /\ \A u1, u2 \in unloads : u1.phase = "calling" /\ u2.phase = "calling" => u1 = u2

(* A boundary's unload never lands on the model the running job has        *)
(* loaded: "it can never land on the model this job is about to use".      *)
UnloadSafe ==
    \A u \in unloads, t \in tasks :
        u.phase = "calling" => ~(t.abort = "none" /\ t.phase \in {"loading", "loaded"})

(* The batch slot: one owner, who is alive, and no unload under a job.      *)
BatchSlotIsSafe == SlotOwned /\ UnloadSafe

(* What every handler owes at a job boundary: the job that ended is in the  *)
(* log, the next one is started, a model nobody needs is unloaded, and a    *)
(* database has one maintenance at a time.                                  *)
BoundariesSettle ==
    /\ JobConservation
    /\ IdleMeansDrained
    /\ BatchLoadedOnlyWhileRunning
    /\ OneMaintenancePerDb

MaintenanceFlags(jobs, d) ==
    UNION {from_metadata(j.metadata) : j \in {k \in jobs : IsMaintenance(k, d)}}

(* A flag only leaves owed[d] into a maintenance job for d that carries it *)
(* in its metadata: no handler forgets a debt.                             *)
OwedNotLost ==
    [][\A d \in Dbs :
          state.owed[d] \subseteq state'.owed[d] \cup MaintenanceFlags(ActiveJobs(state)', d)]_vars

(* While a maintenance job runs, and when it ends, no flag is owed or      *)
(* queued for any database that was not before, unless a client asks: a    *)
(* maintenance pass never causes another one.                              *)
NoMaintenanceLoop ==
    [][state.running_job # None /\ state.running_job.type = "DbMaintenance"
       /\ ~(\E d \in Dbs : EnqueueMaintenance(d))
       => \A d \in Dbs :
            state'.owed[d] \cup MaintenanceFlags(state.queue, d)'
                \subseteq state.owed[d] \cup MaintenanceFlags(state.queue, d)]_vars

(* A tags_changed flag that becomes owed and stays owed has its durable    *)
(* mark sent by the same message, so it survives the process.              *)
NewTagDebtIsMarked ==
    [][\A d \in Dbs : "tags" \in state'.owed[d] \ state.owed[d] => d \in marks']_vars

(* A debt is kept until a maintenance job has it, is not made by one, and   *)
(* is durable if it is about tags.                                          *)
DebtsAreKept == OwedNotLost /\ NoMaintenanceLoop /\ NewTagDebtIsMarked

(* The dedup of a batch is evaluated inside the actor: no job of a tick     *)
(* (several, with one tag) is queued for a database while a job of an       *)
(* earlier tick waits or runs there, however enqueues, cancels and          *)
(* completions interleave.                                                  *)
TicksNeverOverlap ==
    [][\A old \in ActiveJobs(state), new \in ActiveJobs(state)' :
          state.job_counter < new.id /\ new.tag # None
          => ~(old.tag = new.tag /\ old.db = new.db)]_vars

(* No step of the queue forgets a debt or starts a tick over another.       *)
HandlersKeepFaith == DebtsAreKept /\ TicksNeverOverlap

(* Once clients stop sending, the queue drains: whatever was cancelled,     *)
(* failed or synthesized on the way, every job ends and nothing is left     *)
(* waiting behind an idle runner.                                           *)
QueueDrains == []<>(state.running_job = None /\ state.queue = {})

(* RecordOwed's comment: a report is made "so the owed flags survive that  *)
(* job later failing or being cancelled".  Handling one leaves its flags   *)
(* owed.                                                                   *)
OwedReportSurvives ==
    [][inbox # <<>> /\ Head(inbox).kind = "RecordOwed" /\ inbox' = Tail(inbox)
       => Head(inbox).summary \subseteq state'.owed[Head(inbox).db]]_vars

=============================================================================
