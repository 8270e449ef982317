---------------------------- MODULE VectorQuant ----------------------------
(***************************************************************************)
(* Quantised vectors of one index database (panoptikon/src/db/             *)
(* vector_quants.rs and jobs/vector_quants.rs).  config.toml says whether  *)
(* the profile is wanted; the profile row, a coverage pair per setter and  *)
(* a quant per vector say what there is.  A reconcile, a job of its own or *)
(* the last phase of a batch job, brings the second in line with the       *)
(* first, one transaction of the index writer at a time; commits and       *)
(* rebuild requests come from the API meanwhile, jobs are cancelled and    *)
(* the program is restarted.                                               *)
(*                                                                         *)
(* One profile with the one recipe this version knows; the setters are a   *)
(* clip model and its text sibling.  A vector is its id, which also stands *)
(* for its largest component: a scale is the largest id it was computed    *)
(* from, and 0 is NULL.  Reading the configuration and analysing the       *)
(* database for it is one step, what is done about it another.             *)
(*                                                                         *)
(* The operators named Mut... are faulty variants of the definition that   *)
(* follows them; no specification uses them.                               *)
(***************************************************************************)
EXTENDS Naturals, FiniteSets

CONSTANTS
    Vectors,        \* ids of embeddings
    Setters,
    SetterOf,       \* the setter of each vector
    DimOf,          \* the dimension of each vector
    MinVectors,     \* ARTIFACT_MIN_VECTORS
    MaxPasses,      \* MAX_CONVERGENCE_PASSES
    Requests,       \* API requests under way at once
    None,
    MaxUpsets       \* bound: commits, edits, rebuild requests, removals of
                    \* vectors, searches, cancellations, restarts and failed
                    \* transactions, all together

ASSUME VectorsAssumption ==
    /\ Vectors \subseteq Nat \ {0} /\ IsFiniteSet(Vectors) /\ IsFiniteSet(Setters)
    /\ SetterOf \in [Vectors -> Setters] /\ DimOf \in [Vectors -> Nat \ {0}]

ASSUME BoundsAssumption ==
    /\ MinVectors \in Nat \ {0} /\ MaxPasses \in Nat \ {0} /\ MaxUpsets \in Nat

VARIABLES
    desired,   \* [vector_quants] of config.toml
    db,        \* the profile, its pairs, the quants and the vectors
    late,      \* a message of a cancelled job that the writer still has
    queue,     \* kinds of the jobs that wait; both kinds in either order
    job,       \* the job that runs, and where it is
    request,   \* what each API request is about to do
    search,    \* what a search has resolved and not yet run
    spent      \* upsets so far: what was asked of the program, and faults

vars == <<desired, db, late, queue, job, request, search, spent>>

-----------------------------------------------------------------------------
(* What a snapshot says.                                                   *)

Of(d, s) == {v \in d.vectors : SetterOf[v] = s}

(* load_embedding_setters: the first stored vector has the dimension.      *)
Embedded(d) == {s \in Setters : Of(d, s) # {}}

Dim(d, s) == DimOf[CHOOSE v \in Of(d, s) : \A w \in Of(d, s) : v <= w]

(* group_spaces: siblings of one dimension are one space.                  *)
Spaces(d) ==
    IF \A s, t \in Embedded(d) : Dim(d, s) = Dim(d, t)
    THEN {Embedded(d)} \ {{}}
    ELSE {{s} : s \in Embedded(d)}

Absent == [state |-> "absent", scale |-> 0, rev |-> 0, dim |-> 0]
Pending == [Absent EXCEPT !.state = "pending"]
NoQuant == [rev |-> 0, scale |-> 0]

HasQuants(d) == \E v \in d.vectors : d.quants[v].rev # 0

(* plan_data: the spaces to build, and which of them only to finish.       *)
Established(d, s) == d.profile = "active" /\ d.pairs[s].state # "absent"

Resumable(d, space) ==
    \A s \in space :
        /\ Established(d, s) /\ d.pairs[s].state = "building"
        /\ d.pairs[s].scale # 0 /\ d.pairs[s].dim = Dim(d, s)
        /\ \A t \in space : d.pairs[s].scale = d.pairs[t].scale /\ d.pairs[s].rev = d.pairs[t].rev

Complete(d, space) ==
    \A s \in space :
        /\ Established(d, s) /\ d.pairs[s].state = "ready" /\ d.pairs[s].scale # 0
        /\ \A t \in space : d.pairs[s].scale = d.pairs[t].scale

Builds(d, want) ==
    IF want = "wanted"
    THEN {[space |-> space, dim |-> Dim(d, CHOOSE s \in space : TRUE), resume |-> Resumable(d, space)] :
             space \in {sp \in Spaces(d) :
                           /\ ~Complete(d, sp)
                           /\ Cardinality(UNION {Of(d, s) : s \in sp}) >= MinVectors}}
    ELSE {}

Removal(d, want) ==
    d.profile # "absent" /\ HasQuants(d) /\ (want = "unwanted" \/ d.profile = "removing")

(* plan_metadata and its application.  A profile that comes back while it  *)
(* is being removed starts from pending pairs; revisions go on counting.   *)
Reset(p) == [p EXCEPT !.state = "pending", !.scale = 0, !.dim = 0]

Covered(d) ==
    [s \in Setters |->
        IF d.pairs[s].state = "absent" THEN IF s \in Embedded(d) THEN Pending ELSE Absent
        ELSE IF d.profile = "removing" THEN Reset(d.pairs[s])
        ELSE d.pairs[s]]

NoPairs == [s \in Setters |-> Absent]

Synced(d, want) ==
    IF want = "wanted"
    THEN [d EXCEPT !.profile = "active", !.pairs = Covered(d)]
    ELSE IF d.profile = "absent" \/ ~HasQuants(d)
    THEN [d EXCEPT !.profile = "absent", !.pairs = NoPairs]
    ELSE [d EXCEPT !.profile = "removing"]

Analysis(d, want) ==
    IF Removal(d, want) \/ Builds(d, want) # {} THEN "data"
    ELSE IF Synced(d, want) # d THEN "metadata" ELSE "none"

-----------------------------------------------------------------------------
(* The writer's transactions, each as the database after it, whether it    *)
(* committed, and what it counted.                                         *)

Committed(d, n) == [db |-> d, ok |-> TRUE, n |-> n]
RolledBack(d) == [db |-> d, ok |-> FALSE, n |-> 0]

SyncMetadata(d, want) == Committed(Synced(d, want), IF Synced(d, want) = d THEN 0 ELSE 1)

(* Fault: the revision does not count on.                                  *)
MutNextRev(d, space) == 1

(* start_space_build: one new revision for the whole space.                *)
NextRev(d, space) ==
    1 + (CHOOSE r \in {d.pairs[s].rev : s \in space} : \A s \in space : d.pairs[s].rev <= r)

Frozen(d, space, scale, dim) ==
    [s \in Setters |->
        IF s \in space
        THEN [state |-> "building", scale |-> scale, rev |-> NextRev(d, space), dim |-> dim]
        ELSE d.pairs[s]]

StartSpaceBuild(d, space, scale, dim) ==
    IF \E s \in space : d.pairs[s].state = "absent"
    THEN RolledBack(d)
    ELSE Committed([d EXCEPT !.pairs = Frozen(d, space, scale, dim)], 1)

QuantOf(p) == [rev |-> p.rev, scale |-> p.scale]

(* BACKFILL_CHUNK_SQL: what the pair lacks after the cursor.  A chunk is   *)
(* one row here.                                                           *)
Outstanding(d, s, after) ==
    {v \in Of(d, s) : /\ d.pairs[s].state = "building" /\ d.pairs[s].scale # 0
                      /\ v > after /\ DimOf[v] = d.pairs[s].dim
                      /\ d.quants[v].rev # d.pairs[s].rev}

First(set) == CHOOSE v \in set : \A w \in set : v <= w

BackfillChunk(d, s, after) ==
    LET rows == Outstanding(d, s, after)
    IN  IF rows = {} THEN Committed(d, 0)
        ELSE Committed([d EXCEPT !.quants = [d.quants EXCEPT ![First(rows)] = QuantOf(d.pairs[s])]],
                       First(rows))

(* finish_space_build: still building, and nothing remains.                *)
Finished(d, s) ==
    /\ d.pairs[s].state = "building"
    /\ \A v \in Of(d, s) : d.quants[v].rev = d.pairs[s].rev

MadeReady(d, space) ==
    [s \in Setters |-> IF s \in space THEN [d.pairs[s] EXCEPT !.state = "ready"] ELSE d.pairs[s]]

FinishSpaceBuild(d, space) ==
    IF \A s \in space : Finished(d, s)
    THEN Committed([d EXCEPT !.pairs = MadeReady(d, space)], 1)
    ELSE RolledBack(d)

DeleteChunk(d) ==
    LET rows == {v \in d.vectors : d.quants[v].rev # 0}
    IN  IF rows = {} THEN Committed(d, 0)
        ELSE Committed([d EXCEPT !.quants = [d.quants EXCEPT ![First(rows)] = NoQuant]], 1)

(* drop_profile refuses while there are quants; its pairs go with it.      *)
DropProfile(d) ==
    IF HasQuants(d) THEN RolledBack(d)
    ELSE Committed([d EXCEPT !.profile = "absent", !.pairs = NoPairs], 1)

(* mark_space_rebuild keeps the dimension.                                 *)
Marked(d, space) ==
    [s \in Setters |-> IF s \in space THEN [d.pairs[s] EXCEPT !.state = "pending", !.scale = 0]
                       ELSE d.pairs[s]]

MarkRebuild(d, space) ==
    IF \E s \in space : d.pairs[s].state = "absent"
    THEN RolledBack(d)
    ELSE Committed([d EXCEPT !.pairs = Marked(d, space)], 1)

(* write_inline_quants: a vector gets its quant in the transaction that    *)
(* inserts it, or its pair is downgraded.                                  *)
Inline(d, v) ==
    LET p == d.pairs[SetterOf[v]]
    IN  d.profile = "active" /\ p.state \in {"building", "ready"} /\ p.scale # 0 /\ p.dim = DimOf[v]

Downgraded(d, v) ==
    LET p == d.pairs[SetterOf[v]]
    IN  IF p.state \in {"building", "ready"} /\ p.dim # DimOf[v]
        THEN [d.pairs EXCEPT ![SetterOf[v]] = [p EXCEPT !.state = "pending", !.scale = 0]]
        ELSE d.pairs

AddEmbedding(d, v) ==
    [d EXCEPT !.vectors = d.vectors \cup {v},
              !.quants = [d.quants EXCEPT ![v] = IF Inline(d, v) THEN QuantOf(d.pairs[SetterOf[v]])
                                                 ELSE NoQuant],
              !.pairs = Downgraded(d, v)]

(* Deleting an item cascades to the vector and its quant.                  *)
DeleteVector(d, v) ==
    [d EXCEPT !.vectors = d.vectors \ {v}, !.quants = [d.quants EXCEPT ![v] = NoQuant]]

-----------------------------------------------------------------------------
(* The job that runs.                                                      *)

NoBuild == [space |-> {}, dim |-> 0, resume |-> FALSE]
NoJob == [kind |-> "none", at |-> "none", want |-> "unwanted", pass |-> 0, changed |-> FALSE,
          todo |-> {}, build |-> NoBuild, left |-> {}, cursor |-> 0, failed |-> FALSE]

Spend(what) ==
    /\ spent.asked + spent.faults < MaxUpsets
    /\ spent' = [spent EXCEPT ![what] = @ + 1]

SetterNow(j) == CHOOSE s \in j.left : TRUE

(* What the writer does with the message the job has just sent.  The       *)
(* cursor is the scale before a start, and the vector of an embed.         *)
Executed(d, j) ==
    CASE j.at = "sync"   -> SyncMetadata(d, j.want)
      [] j.at = "delete" -> DeleteChunk(d)
      [] j.at = "drop"   -> DropProfile(d)
      [] j.at = "start"  -> StartSpaceBuild(d, j.build.space, j.cursor, j.build.dim)
      [] j.at = "chunk"  -> BackfillChunk(d, SetterNow(j), j.cursor)
      [] j.at = "finish" -> FinishSpaceBuild(d, j.build.space)
      [] j.at = "embed"  -> Committed(AddEmbedding(d, j.cursor), 1)

Writes(j) == j.at \in {"sync", "delete", "drop", "start", "chunk", "finish", "embed"}

NextBuild(j, ok) ==
    [j EXCEPT !.at = "builds", !.failed = @ \/ ~ok, !.todo = @ \ {j.build},
              !.build = NoBuild, !.left = {}, !.cursor = 0]

Filling(j) == [j EXCEPT !.at = "chunk", !.left = j.build.space, !.cursor = 0]

(* What the job does with the reply.  A failed sync ends it, any other     *)
(* failure is its space's or its removal's alone.                          *)
Replied(j, r) ==
    CASE j.at = "sync"   -> IF r.ok THEN [j EXCEPT !.at = "plan", !.changed = r.n = 1]
                            ELSE [j EXCEPT !.at = "done"]
      [] j.at = "delete" -> IF ~r.ok THEN NextBuild(j, FALSE)
                            ELSE IF r.n = 0 THEN [j EXCEPT !.at = "drop"] ELSE j
      [] j.at = "drop"   -> NextBuild(j, r.ok)
      [] j.at = "start"  -> IF r.ok THEN Filling(j) ELSE NextBuild(j, FALSE)
      [] j.at = "chunk"  -> IF ~r.ok THEN NextBuild(j, FALSE)
                            ELSE IF r.n # 0 THEN [j EXCEPT !.cursor = r.n]
                            ELSE IF j.left = {SetterNow(j)} THEN [j EXCEPT !.at = "finish", !.left = {}]
                            ELSE [j EXCEPT !.left = @ \ {SetterNow(j)}, !.cursor = 0]
      [] j.at = "finish" -> NextBuild(j, r.ok)
      [] j.at = "embed"  -> [j EXCEPT !.at = "working", !.cursor = 0]

(* A transaction of the job, which the writer may also fail.               *)
JobWrites ==
    /\ Writes(job) /\ late = None
    /\ \/ LET r == Executed(db, job) IN db' = r.db /\ job' = Replied(job, r) /\ UNCHANGED spent
       \/ Spend("faults") /\ job' = Replied(job, RolledBack(db)) /\ UNCHANGED db
    /\ UNCHANGED <<desired, late, queue, request, search>>

(* The message of a cancelled job is still before every later one.         *)
LateWrite ==
    /\ late # None
    /\ late' = None /\ db' = Executed(db, late).db
    /\ UNCHANGED <<desired, queue, job, request, search, spent>>

JobGoesOn(j) == job' = j /\ UNCHANGED <<desired, db, late, queue, request, search, spent>>

(* A batch job stores what it extracts.                                    *)
Extract(v) ==
    /\ job.at = "working" /\ v \notin db.vectors
    /\ JobGoesOn([job EXCEPT !.at = "embed", !.cursor = v])

(* Fault: only a job that wrote quants of its own reconciles.              *)
MutFinishingPhase ==
    /\ job.at = "working"
    /\ JobGoesOn([job EXCEPT !.at = "done"])

(* finishing_phase.                                                        *)
FinishingPhase ==
    /\ job.at = "working"
    /\ JobGoesOn([job EXCEPT !.at = IF desired = "invalid" \/ Analysis(db, desired) = "none"
                                    THEN "done" ELSE "load"])

LoadDesiredState ==
    /\ job.at = "load"
    /\ JobGoesOn(IF desired = "invalid" THEN [job EXCEPT !.at = "done"]
                 ELSE [job EXCEPT !.at = "sync", !.want = desired])

(* run_reconcile: again, until a pass finds nothing or the passes are used *)
(* up.                                                                     *)
PassEnds(worked) ==
    [NoJob EXCEPT !.kind = job.kind, !.pass = job.pass + 1,
                  !.at = IF worked /\ job.pass + 1 < MaxPasses THEN "load" ELSE "done"]

Plan ==
    /\ job.at = "plan"
    /\ IF ~Removal(db, job.want) /\ Builds(db, job.want) = {}
       THEN JobGoesOn(PassEnds(job.changed))
       ELSE JobGoesOn([job EXCEPT
                !.at = IF Removal(db, job.want) THEN "delete" ELSE "builds",
                !.todo = IF db.profile = "absent" THEN {} ELSE Builds(db, job.want)])

TakeBuild ==
    /\ job.at = "builds"
    /\ IF job.todo = {} THEN JobGoesOn(PassEnds(~job.failed))
       ELSE \E b \in job.todo :
            JobGoesOn(IF b.resume THEN Filling([job EXCEPT !.build = b])
                      ELSE [job EXCEPT !.build = b, !.at = "scale"])

(* compute_int8_scale_artifact, from a snapshot before the transaction     *)
(* that freezes it.                                                        *)
ComputeScale ==
    /\ job.at = "scale"
    /\ LET members == UNION {Of(db, s) : s \in job.build.space}
       IN  JobGoesOn(IF members = {} THEN NextBuild(job, TRUE)
                     ELSE IF \E v \in members : DimOf[v] # job.build.dim THEN NextBuild(job, FALSE)
                     ELSE [job EXCEPT !.at = "start",
                                      !.cursor = CHOOSE v \in members : \A w \in members : w <= v])

-----------------------------------------------------------------------------
(* The queue: one job at a time, at most one reconcile.                    *)

StartJob(kind) ==
    /\ job = NoJob /\ kind \in queue
    /\ job' = [NoJob EXCEPT !.kind = kind, !.at = IF kind = "batch" THEN "working" ELSE "load"]
    /\ queue' = queue \ {kind}
    /\ UNCHANGED <<desired, db, late, request, search, spent>>

JobFinished ==
    /\ job.at = "done"
    /\ job' = NoJob
    /\ UNCHANGED <<desired, db, late, queue, request, search, spent>>

(* A scan, an extraction or the cron.                                      *)
EnqueueBatch ==
    /\ queue' = queue \cup {"batch"} /\ "batch" \notin queue \cup {job.kind}
    /\ UNCHANGED <<desired, db, late, job, request, search, spent>>

(* The task is aborted where it awaits; what it sent may still be executed. *)
Cancel ==
    /\ job # NoJob /\ Spend("faults")
    /\ job' = NoJob
    /\ late' \in IF Writes(job) /\ late = None THEN {None, job} ELSE {late}
    /\ UNCHANGED <<desired, db, queue, request, search>>

(* The queue and the writer's mailbox are lost; check_all_at_startup.      *)
Restart ==
    /\ Spend("faults")
    /\ job' = NoJob /\ queue' = {} /\ late' = None /\ search' = None
    /\ request' = [r \in Requests |-> [at |-> IF r = CHOOSE q \in Requests : TRUE THEN "check" ELSE "idle"]]
    /\ UNCHANGED <<desired, db>>

-----------------------------------------------------------------------------
(* The API.                                                                *)

RequestAt(r, next) == request' = [request EXCEPT ![r] = next]
Idle == [at |-> "idle"]

(* update_config refuses an invalid section.                               *)
Commit(r, want) ==
    /\ request[r] = Idle /\ Spend("asked")
    /\ desired' = want /\ RequestAt(r, [at |-> "check"])
    /\ UNCHANGED <<db, late, queue, job, search>>

HandEdit(want) ==
    /\ Spend("asked") /\ want # desired
    /\ desired' = want
    /\ UNCHANGED <<db, late, queue, job, request, search>>

Check(r) ==
    /\ request[r].at = "check"
    /\ RequestAt(r, IF desired = "invalid" \/ Analysis(db, desired) = "none" THEN Idle
                    ELSE IF Analysis(db, desired) = "metadata" THEN [at |-> "sync", want |-> desired]
                    ELSE [at |-> "enqueue"])
    /\ UNCHANGED <<desired, db, late, queue, job, search, spent>>

SyncNow(r) ==
    /\ request[r].at = "sync" /\ late = None
    /\ db' = Synced(db, request[r].want) /\ RequestAt(r, Idle)
    /\ UNCHANGED <<desired, late, queue, job, search, spent>>

(* BatchDedup on the tag: skipped if one is queued or runs.                *)
EnqueueReconcile(r) ==
    /\ request[r].at = "enqueue" /\ RequestAt(r, Idle)
    /\ queue' = IF job.kind = "reconcile" THEN queue ELSE queue \cup {"reconcile"}
    /\ UNCHANGED <<desired, db, late, job, search, spent>>

(* rebuild_vector_quant_pair reads the space before it marks it.           *)
AskRebuild(r, s) ==
    /\ request[r] = Idle /\ Spend("asked")
    /\ db.profile = "active" /\ s \in Embedded(db)
    /\ \E space \in Spaces(db) : s \in space /\ RequestAt(r, [at |-> "mark", space |-> space])
    /\ UNCHANGED <<desired, db, late, queue, job, search>>

Mark(r) ==
    /\ request[r].at = "mark" /\ late = None
    /\ LET m == MarkRebuild(db, request[r].space)
       IN  db' = m.db /\ RequestAt(r, IF m.ok THEN [at |-> "enqueue"] ELSE Idle)
    /\ UNCHANGED <<desired, late, queue, job, search, spent>>

(* A file goes with its item, its vectors and their quants.                *)
Delete(v) ==
    /\ v \in db.vectors /\ late = None /\ Spend("asked")
    /\ db' = DeleteVector(db, v)
    /\ UNCHANGED <<desired, late, queue, job, request, search>>

(* resolve_ready_pair: every setter of the query is ready, at one scale.   *)
Ready(d, setters) ==
    /\ d.profile = "active" /\ setters # {}
    /\ \A s \in setters : d.pairs[s].state = "ready" /\ d.pairs[s].scale # 0
    /\ \A s, t \in setters : d.pairs[s].scale = d.pairs[t].scale /\ d.pairs[s].dim = d.pairs[t].dim

ResolveSearch(setters) ==
    /\ search = None /\ Ready(db, setters) /\ Spend("asked")
    /\ search' = [setters |-> setters,
                  scale |-> db.pairs[CHOOSE s \in setters : TRUE].scale]
    /\ UNCHANGED <<desired, db, late, queue, job, request>>

RunSearch ==
    /\ search # None /\ search' = None
    /\ UNCHANGED <<desired, db, late, queue, job, request, spent>>

-----------------------------------------------------------------------------
Nothing == [profile |-> "absent", pairs |-> NoPairs, vectors |-> {},
            quants |-> [v \in Vectors |-> NoQuant]]

(* An index database from before the quants, at the first start with them. *)
Init ==
    /\ desired \in {"wanted", "unwanted"}
    /\ db \in {[Nothing EXCEPT !.vectors = set] : set \in SUBSET Vectors}
    /\ late = None /\ queue = {} /\ job = NoJob /\ search = None
    /\ request = [r \in Requests |-> [at |-> IF r = CHOOSE q \in Requests : TRUE THEN "check" ELSE "idle"]]
    /\ spent = [asked |-> 0, faults |-> 0]

Reconcile == JobWrites \/ LoadDesiredState \/ Plan \/ TakeBuild \/ ComputeScale

Serve(r) == Check(r) \/ SyncNow(r) \/ EnqueueReconcile(r) \/ Mark(r)

Next ==
    \/ Reconcile \/ LateWrite \/ FinishingPhase \/ JobFinished \/ EnqueueBatch
    \/ Cancel \/ Restart
    \/ \E v \in Vectors : Extract(v) \/ Delete(v)
    \/ \E kind \in queue : StartJob(kind)
    \/ \E want \in {"wanted", "unwanted", "invalid"} : HandEdit(want)
    \/ \E r \in Requests :
        \/ Serve(r)
        \/ \E want \in {"wanted", "unwanted"} : Commit(r, want)
        \/ \E s \in Setters : AskRebuild(r, s)
    \/ \E setters \in SUBSET Setters : ResolveSearch(setters)
    \/ RunSearch

Spec == Init /\ [][Next]_vars

(* Tasks that are ready run, jobs end, and batch jobs come again and again *)
(* (the cron).                                                             *)
Fairness ==
    /\ WF_vars(Reconcile) /\ WF_vars(LateWrite) /\ WF_vars(FinishingPhase) /\ WF_vars(JobFinished)
    /\ WF_vars(EnqueueBatch) /\ WF_vars(StartJob("reconcile")) /\ SF_vars(StartJob("batch"))
    /\ \A r \in Requests : WF_vars(Serve(r))

FairSpec == Spec /\ Fairness

-----------------------------------------------------------------------------
(* Properties.                                                             *)

Pair == [state : {"absent", "pending", "building", "ready"}, scale : Vectors \cup {0},
         rev : Nat, dim : Nat]
Quant == [rev : Nat, scale : Vectors \cup {0}]
Database == [profile : {"absent", "active", "removing"}, pairs : [Setters -> Pair],
             vectors : SUBSET Vectors, quants : [Vectors -> Quant]]

(* The database has its type, a row that is not there is empty, and only   *)
(* the pairs of a profile exist.                                           *)
TypeOK ==
    /\ desired \in {"wanted", "unwanted", "invalid"} /\ queue \subseteq {"batch", "reconcile"}
    /\ db \in Database
    /\ \A v \in Vectors : db.quants[v].rev = 0 <=> db.quants[v].scale = 0
    /\ db.profile = "absent" => ~HasQuants(db) /\ db.pairs = NoPairs

(* `Coverage invariant: ready(profile, setter) <=> every embedding of that *)
(* setter has a quant row at the pair's current rev' (docs/                *)
(* vector-index-design.md:373): a pair of the active profile that is ready *)
(* misses no vector, and every quant was made with the pair's scale.       *)
CoverageHolds ==
    db.profile = "active" =>
        \A v \in db.vectors : db.pairs[SetterOf[v]].state = "ready" =>
            db.quants[v] = QuantOf(db.pairs[SetterOf[v]])

(* A revision names one scale (`its quants would otherwise mix transforms  *)
(* under one revision', docs/vector-index-design.md:355): whatever was     *)
(* interrupted, marked, dropped or resumed, a quant with the pair's        *)
(* revision has the pair's scale.                                          *)
RevisionIsOneScale ==
    \A v \in db.vectors :
        LET p == db.pairs[SetterOf[v]]
        IN  p.scale # 0 /\ db.quants[v].rev = p.rev => db.quants[v].scale = p.scale

(* A quant is never ahead of its pair: the next build always has a         *)
(* revision of its own.                                                    *)
QuantsAreNotAhead ==
    \A v \in db.vectors : db.quants[v].rev <= db.pairs[SetterOf[v]].rev

(* The three together are what makes a ready pair usable in every state.   *)
QuantsAreSound == CoverageHolds /\ RevisionIsOneScale /\ QuantsAreNotAhead

Quiet ==
    /\ queue = {} /\ job = NoJob /\ late = None
    /\ \A r \in Requests : request[r] = Idle

(* `Deduped by tag - safe because a running reconcile re-reads the desired *)
(* state until it converges, so suppressed enqueues are never lost'        *)
(* (jobs/vector_quants.rs:317): without a fault, what was committed has    *)
(* been done when everything is quiet.                                     *)
CommitsAreDone ==
    Quiet /\ spent.faults = 0 => Analysis(db, desired) # "data"

(* `Search uses a pair only when ready' (docs/vector-index-design.md:374): *)
(* what a search has resolved still holds every vector when it runs.       *)
SearchSeesEveryVector ==
    search # None =>
        \A v \in db.vectors : SetterOf[v] \in search.setters => db.quants[v].scale = search.scale

(* compute_space_scale fails as long as vectors of two dimensions are      *)
(* stored, which no configuration is meant to bring about.                 *)
OneDimension == \A v, w \in db.vectors : DimOf[v] = DimOf[w]

(* Batch jobs bring the database in line with the last valid configuration, *)
(* again and again, whatever was cancelled, failed, lost or suppressed     *)
(* before.                                                                 *)
BatchesConverge ==
    []<>(desired = "invalid" \/ ~OneDimension \/ Analysis(db, desired) = "none")

=============================================================================
