--------------------------- MODULE JobQueueProofs ---------------------------
(* Proofs about JobQueue, for every value of its constants.                *)
EXTENDS JobQueue, FiniteSetTheorems, SequenceTheorems, TLAPS

-----------------------------------------------------------------------------
(* A non-empty set of jobs has a front: the ids are natural numbers.       *)
LEMMA FrontExists ==
    ASSUME NEW S \in SUBSET Job, S # {}
    PROVE  \E j \in S : IsFront(S, j)
<1> DEFINE T == {j.id : j \in S}
<1>1. T \subseteq Nat /\ T # {}
  BY DEF Job
<1>2. \E x \in T : \A y \in T : ~(<<y, x>> \in OpToRel(<, Nat))
  BY <1>1, NatLessThanWellFounded, WFMin
<1>3. PICK x \in T : \A y \in T : ~(<<y, x>> \in OpToRel(<, Nat))
  BY <1>2
<1>4. ASSUME NEW y \in T, ~(x <= y) PROVE FALSE
  <2>1. x \in Nat /\ y \in Nat
    BY <1>1
  <2>2. y < x
    BY <2>1, <1>4
  <2>3. <<y, x>> \in OpToRel(<, Nat)
    BY <2>1, <2>2, Zenon DEF OpToRel
  <2> QED
    BY <2>3, <1>3
<1> QED
  BY <1>4 DEF IsFront

-----------------------------------------------------------------------------
(* The part of the invariant that is about the actor's state alone.        *)
Shaped(j) == j.type = "DataExtraction" => j.metadata \in Setters

Good(s) ==
    /\ s \in QueueState
    /\ s.queued_jobs = s.queue
    /\ s.shutting_down => s.queue = {}
    /\ \A j \in s.queue : Shaped(j) /\ j.id <= s.job_counter
    /\ \A j, k \in s.queue : j.id = k.id => j = k
    /\ s.running_job # None =>
          /\ Shaped(s.running_job)
          /\ s.running_job.id <= s.job_counter
          /\ \A j \in s.queue : s.running_job.id < j.id

(* What most of the functions on the state do to the jobs: nothing, or add *)
(* new ones behind the others.                                             *)
SameJobs(s, t) ==
    /\ t.queue = s.queue /\ t.queued_jobs = s.queued_jobs
    /\ t.running_job = s.running_job
    /\ t.job_counter = s.job_counter
    /\ t.shutting_down = s.shutting_down

Grows(s, t) ==
    /\ t.running_job = s.running_job
    /\ t.shutting_down = s.shutting_down
    /\ s.job_counter <= t.job_counter
    /\ \A j \in t.queue : (\E k \in s.queue : k.id = j.id) \/ s.job_counter < j.id

LEMMA SameJobsGood ==
    ASSUME NEW s, NEW t, Good(s), t \in QueueState, SameJobs(s, t)
    PROVE  Good(t) /\ Grows(s, t)
BY DEF Good, SameJobs, Grows, QueueState, Job

LEMMA GrowsTransitive ==
    ASSUME NEW s \in QueueState, NEW t \in QueueState, NEW u \in QueueState,
           Grows(s, t), Grows(t, u)
    PROVE  Grows(s, u)
<1>1. s.job_counter \in Nat /\ t.job_counter \in Nat /\ u.job_counter \in Nat
  BY DEF QueueState
<1>2. \A j \in u.queue \cup t.queue : j.id \in Nat
  BY DEF QueueState, Job
<1> QED
  BY <1>1, <1>2 DEF Grows

LEMMA FiniteQueue ==
    ASSUME NEW s, Good(s), NEW S \in SUBSET s.queue
    PROVE  IsFiniteSet(S)
<1> DEFINE f == [j \in S |-> j.id]
<1>1. s.job_counter \in Nat /\ s.queue \subseteq Job
  BY DEF Good, QueueState
<1>2. IsFiniteSet(0 .. s.job_counter)
  BY <1>1, FS_Interval
<1>3. f \in Injection(S, 0 .. s.job_counter)
  <2>1. f \in [S -> 0 .. s.job_counter]
    BY <1>1 DEF Good, Job
  <2>2. \A a, b \in S : f[a] = f[b] => a = b
    BY DEF Good
  <2> QED
    BY <2>1, <2>2 DEF Injection, IsInjective
<1> HIDE DEF f
<1> QED
  BY <1>2, <1>3, FS_Injection

(* The orders in which a client can list a finite set are sequences of it. *)
LEMMA SetToSeqsType ==
    ASSUME NEW S, IsFiniteSet(S), NEW o \in SetToSeqs(S)
    PROVE  o \in Seq(S)
<1>1. Cardinality(S) \in Nat
  BY FS_CardinalityType
<1>2. o \in [1 .. Cardinality(S) -> S]
  BY DEF SetToSeqs
<1> QED
  BY <1>1, <1>2, SeqDef

-----------------------------------------------------------------------------
(* What each function on the state does to it.                             *)

LEMMA PushJobs ==
    ASSUME NEW s, Good(s), NEW rs \in Seq(JobRequest),
           \A k \in DOMAIN rs : Shaped(rs[k]),
           s.shutting_down => rs = <<>>
    PROVE  LET t == push_jobs(s, rs)
           IN  /\ Good(t) /\ Grows(s, t)
               /\ t = [s EXCEPT !.job_counter = t.job_counter, !.queue = t.queue,
                               !.queued_jobs = t.queued_jobs]
<1> DEFINE Pushed(k) == [id |-> s.job_counter + k, type |-> rs[k].type, db |-> rs[k].db,
                         metadata |-> rs[k].metadata, tag |-> rs[k].tag]
           new == {Pushed(k) : k \in DOMAIN rs}
           t == push_jobs(s, rs)
<1>1. /\ s \in QueueState /\ s.job_counter \in Nat /\ Len(rs) \in Nat
      /\ DOMAIN rs = 1 .. Len(rs) /\ \A k \in DOMAIN rs : rs[k] \in JobRequest
      /\ s.queue \in SUBSET Job
  BY DEF Good, QueueState
<1>2. /\ t = [s EXCEPT !.job_counter = s.job_counter + Len(rs),
                      !.queue = s.queue \cup new, !.queued_jobs = s.queue \cup new]
      /\ t.queue = s.queue \cup new /\ t.queued_jobs = s.queue \cup new
      /\ t.job_counter = s.job_counter + Len(rs)
      /\ t.running_job = s.running_job /\ t.shutting_down = s.shutting_down
  BY <1>1 DEF push_jobs, Good, QueueState
<1>3. \A j \in new : /\ j \in Job /\ Shaped(j)
                     /\ s.job_counter < j.id /\ j.id <= s.job_counter + Len(rs)
  BY <1>1 DEF JobRequest, Job, Shaped
<1>4. \A j, k \in new : j.id = k.id => j = k
  BY <1>1
<1>5. \A j \in s.queue : j.id \in Nat /\ j.id <= s.job_counter /\ Shaped(j)
  BY <1>1 DEF Good, Job
<1> HIDE DEF new, t
<1>6. t \in QueueState
  <2>1. s.queue \cup new \in SUBSET Job /\ s.job_counter + Len(rs) \in Nat
    BY <1>1, <1>3
  <2> HIDE DEF push_jobs
  <2> QED
    BY <2>1, <1>1, <1>2 DEF QueueState
<1>7. t.shutting_down => t.queue = {}
  <2> SUFFICES ASSUME s.shutting_down PROVE t.queue = {}
    BY <1>2
  <2>1. rs = <<>> /\ DOMAIN rs = {}
    BY <1>1
  <2> QED
    BY <2>1, <1>2 DEF new, Good
<1>8. t.running_job # None =>
          /\ Shaped(t.running_job) /\ t.running_job.id <= t.job_counter
          /\ \A j \in t.queue : t.running_job.id < j.id
  <2> SUFFICES ASSUME s.running_job # None PROVE
          /\ Shaped(s.running_job) /\ s.running_job.id <= s.job_counter + Len(rs)
          /\ \A j \in s.queue \cup new : s.running_job.id < j.id
    BY <1>2
  <2>1. s.running_job \in Job /\ s.running_job.id \in Nat
    BY <1>1 DEF QueueState, Job
  <2>2. Shaped(s.running_job) /\ s.running_job.id <= s.job_counter
        /\ \A j \in s.queue : s.running_job.id < j.id
    BY DEF Good
  <2>3. \A j \in new : j.id \in Nat
    BY <1>3 DEF Job
  <2> QED
    BY <1>1, <1>3, <2>1, <2>2, <2>3
<1>9. \A j \in t.queue : Shaped(j) /\ j.id <= t.job_counter
  BY <1>1, <1>2, <1>3, <1>5
<1>10. \A j, k \in t.queue : j.id = k.id => j = k
  <2>1. \A j \in new : j.id \in Nat
    BY <1>3 DEF Job
  <2>2. \A j, k \in s.queue : j.id = k.id => j = k
    BY DEF Good
  <2> QED
    BY <1>1, <1>2, <1>3, <1>4, <1>5, <2>1, <2>2
<1>11. Good(t)
  BY <1>2, <1>6, <1>7, <1>8, <1>9, <1>10 DEF Good
<1>12. Grows(s, t)
  BY <1>1, <1>2, <1>3 DEF Grows
<1> QED
  BY <1>2, <1>11, <1>12 DEF t

LEMMA RecordOutcomes ==
    ASSUME NEW s, Good(s), NEW log \in Seq(Outcome)
    PROVE  LET t == record_outcomes(s, log)
           IN  Good(t) /\ Grows(s, t) /\ t = [s EXCEPT !.outcomes = t.outcomes]
<1> DEFINE t == record_outcomes(s, log)
           all == s.outcomes \o log
           kept == IF Len(all) - MaxRecentOutcomes > 0
                   THEN SubSeq(all, Len(all) - MaxRecentOutcomes + 1, Len(all)) ELSE all
<1>1. s \in QueueState /\ s.outcomes \in Seq(Outcome)
  BY DEF Good, QueueState
<1>2. all \in Seq(Outcome) /\ Len(all) \in Nat
  BY <1>1
<1>3. kept \in Seq(Outcome)
  BY <1>2, BoundsAssumption
<1>4. t = [s EXCEPT !.outcomes = kept]
  BY DEF record_outcomes
<1> HIDE DEF kept, t
<1>5. t \in QueueState /\ SameJobs(s, t) /\ t.outcomes = kept
  BY <1>1, <1>3, <1>4 DEF QueueState, SameJobs
<1> QED
  BY <1>4, <1>5, SameJobsGood DEF t

LEMMA RecordOutcome ==
    ASSUME NEW s, Good(s), NEW id \in Nat \ {0}, NEW status \in {"Completed", "Failed", "Cancelled"}
    PROVE  LET t == record_outcome(s, id, status)
           IN  Good(t) /\ Grows(s, t) /\ t = [s EXCEPT !.outcomes = t.outcomes]
<1>1. <<[id |-> id, status |-> status]>> \in Seq(Outcome)
  BY DEF Outcome
<1> QED
  BY <1>1, RecordOutcomes DEF record_outcome

LEMMA EndRunning ==
    ASSUME NEW s, Good(s)
    PROVE  LET t == [s EXCEPT !.running_job = None]
           IN  /\ Good(t) /\ t.running_job = None
               /\ t.queue = s.queue /\ t.job_counter = s.job_counter
               /\ t.shutting_down = s.shutting_down /\ t.unloads = s.unloads
BY DEF Good, QueueState

(* A runner that has no job accepts the front of the queue.                *)
LEMMA StartNextJob ==
    ASSUME NEW s, Good(s), s.running_job = None
    PROVE  LET t == start_next_job(s, FALSE)
           IN  /\ Good(t)
               /\ t.running_job = None => t.queue = {}
               /\ t.running_job # None => t.running_job \in s.queue
               /\ t.queue \subseteq s.queue
               /\ t.job_counter = s.job_counter
               /\ t.shutting_down = s.shutting_down
               /\ t.unloads = s.unloads
<1> DEFINE t == start_next_job(s, FALSE)
           job == CHOOSE j \in s.queue : IsFront(s.queue, j)
<1>1. CASE s.shutting_down \/ s.queue = {}
  BY <1>1 DEF start_next_job, Good
<1>2. CASE ~s.shutting_down /\ s.queue # {}
  <2>1. s \in QueueState /\ s.queue \in SUBSET Job /\ s.job_counter \in Nat
    BY DEF Good, QueueState
  <2>2. job \in s.queue /\ IsFront(s.queue, job)
    BY <1>2, <2>1, FrontExists
  <2>3. job \in Job /\ job # None /\ job.id \in Nat
    BY <2>1, <2>2, NoneAssumption DEF Job
  <2> HIDE DEF job
  <2>4. t = [s EXCEPT !.queue = s.queue \ {job},
                      !.queued_jobs = {k \in s.queued_jobs : k.id # job.id},
                      !.running_job = job]
    BY <1>2, <2>1 DEF start_next_job, job, QueueState
  <2>5. {k \in s.queued_jobs : k.id # job.id} = s.queue \ {job}
    BY <2>2 DEF Good
  <2>6. \A k \in s.queue \ {job} : job.id < k.id
    <3> TAKE k \in s.queue \ {job}
    <3>1. job.id <= k.id /\ k.id # job.id /\ k.id \in Nat
      BY <2>1, <2>2 DEF IsFront, Good, Job
    <3> QED
      BY <2>3, <3>1
  <2>7. /\ t.queue = s.queue \ {job} /\ t.queued_jobs = s.queue \ {job}
        /\ t.running_job = job /\ t.job_counter = s.job_counter
        /\ t.shutting_down = s.shutting_down /\ t.unloads = s.unloads
    BY <2>1, <2>4, <2>5 DEF QueueState
  <2>8. t \in QueueState
    BY <2>1, <2>3, <2>4 DEF QueueState
  <2> HIDE DEF t
  <2>9. Good(t)
    BY <1>2, <2>1, <2>2, <2>6, <2>7, <2>8 DEF Good
  <2> QED
    BY <2>2, <2>3, <2>7, <2>9 DEF t
<1> QED
  BY <1>1, <1>2

LEMMA StartNothing ==
    ASSUME NEW s, NEW busy, s.shutting_down \/ s.running_job # None \/ s.queue = {}
    PROVE  start_next_job(s, busy) = s
BY DEF start_next_job

LEMMA MergeOwed ==
    ASSUME NEW s, Good(s), NEW d \in Dbs, NEW summary \in SUBSET Flags
    PROVE  LET t == merge_owed(s, d, summary)
           IN  Good(t) /\ Grows(s, t) /\ t.unloads = s.unloads
<1> DEFINE t == merge_owed(s, d, summary)
           merged == s.owed[d] \cup summary \cup (IF "deleted" \in summary THEN {"tags"} ELSE {})
           dirty == "tags" \in merged /\ "tags" \notin s.owed[d]
           pending == IF dirty THEN s.pending_marks \cup {d} ELSE s.pending_marks
<1>1. s \in QueueState /\ s.owed \in [Dbs -> SUBSET Flags] /\ s.pending_marks \in SUBSET Dbs
  BY DEF Good, QueueState
<1>2. merged \in SUBSET Flags /\ pending \in SUBSET Dbs
  BY <1>1 DEF Flags
<1>3. t = [s EXCEPT !.owed = [s.owed EXCEPT ![d] = merged], !.pending_marks = pending]
  BY <1>1 DEF merge_owed, QueueState
<1> HIDE DEF merged, pending, t
<1>4. [s.owed EXCEPT ![d] = merged] \in [Dbs -> SUBSET Flags]
  BY <1>1, <1>2
<1>5. t \in QueueState /\ SameJobs(s, t) /\ t.unloads = s.unloads
  BY <1>1, <1>2, <1>3, <1>4 DEF QueueState, SameJobs
<1> QED
  BY <1>5, SameJobsGood DEF t

LEMMA RecordOwedOf ==
    ASSUME NEW s, Good(s), NEW job \in Job, NEW summary \in {None} \cup SUBSET Flags
    PROVE  LET t == record_owed(s, job, summary)
           IN  Good(t) /\ Grows(s, t) /\ t.unloads = s.unloads
<1>1. pessimistic_summary(job) \in SUBSET Flags
  BY DEF pessimistic_summary, Flags
<1>2. job.db \in Dbs
  BY DEF Job
<1>3. SameJobs(s, s) /\ s \in QueueState
  BY DEF SameJobs, Good
<1>4. CASE job.type = "DbMaintenance"
  BY <1>3, <1>4, SameJobsGood DEF record_owed
<1>5. CASE job.type # "DbMaintenance"
  BY <1>1, <1>2, <1>5, MergeOwed DEF record_owed
<1> QED
  BY <1>4, <1>5

LEMMA ScheduleMaintenance ==
    ASSUME NEW s, Good(s), NEW ds \in Seq(Dbs), s.shutting_down => ds = <<>>
    PROVE  LET t == schedule_maintenance(s, ds)
           IN  Good(t) /\ Grows(s, t) /\ t.unloads = s.unloads
<1> DEFINE due == {ds[k] : k \in DOMAIN ds}
           rs == [k \in DOMAIN ds |-> MaintenanceRequest(ds[k], s.owed[ds[k]])]
           pushed == push_jobs(s, rs)
           owed == [d \in Dbs |-> IF d \in due THEN {} ELSE s.owed[d]]
           pending == {d \in pushed.pending_marks : d \notin due \/ "tags" \notin s.owed[d]}
           t == schedule_maintenance(s, ds)
<1>1. s \in QueueState /\ s.owed \in [Dbs -> SUBSET Flags]
  BY DEF Good, QueueState
<1>2. /\ DOMAIN ds = 1 .. Len(ds) /\ Len(ds) \in Nat
      /\ \A k \in DOMAIN ds : ds[k] \in Dbs
  OBVIOUS
<1>3. \A k \in DOMAIN ds : MaintenanceRequest(ds[k], s.owed[ds[k]]) \in JobRequest
  BY <1>1, <1>2 DEF MaintenanceRequest, JobRequest, JobType, to_metadata, FlagNames
<1>4. rs \in [1 .. Len(ds) -> JobRequest]
  BY <1>2, <1>3
<1>5. rs \in Seq(JobRequest)
  BY <1>2, <1>4, SeqDef
<1>6. \A k \in DOMAIN rs : Shaped(rs[k])
  BY <1>2 DEF MaintenanceRequest, Shaped
<1>7. s.shutting_down => rs = <<>>
  BY <1>2
<1> HIDE DEF rs
<1>8. /\ Good(pushed) /\ Grows(s, pushed)
      /\ pushed = [s EXCEPT !.job_counter = pushed.job_counter, !.queue = pushed.queue,
                            !.queued_jobs = pushed.queued_jobs]
  BY <1>5, <1>6, <1>7, PushJobs
<1> HIDE DEF pushed
<1>9. pushed \in QueueState /\ pushed.unloads = s.unloads /\ pushed.pending_marks \in SUBSET Dbs
  BY <1>1, <1>8 DEF Good, QueueState
<1>10. owed \in [Dbs -> SUBSET Flags] /\ pending \in SUBSET Dbs
  BY <1>1, <1>9
<1>11. t = [pushed EXCEPT !.owed = owed, !.pending_marks = pending]
  BY <1>9 DEF schedule_maintenance, pushed, rs, QueueState
<1> HIDE DEF owed, pending, t
<1>12. t \in QueueState /\ SameJobs(pushed, t) /\ t.unloads = s.unloads
  BY <1>9, <1>10, <1>11 DEF QueueState, SameJobs
<1>13. Good(t) /\ Grows(pushed, t)
  BY <1>8, <1>12, SameJobsGood
<1>14. Grows(s, t)
  BY <1>1, <1>8, <1>9, <1>12, <1>13, GrowsTransitive
<1> QED
  BY <1>12, <1>13, <1>14 DEF t

LEMMA MaybeScheduleMaintenance ==
    ASSUME NEW s, Good(s), NEW d \in Dbs
    PROVE  LET t == maybe_schedule_maintenance(s, d)
           IN  Good(t) /\ Grows(s, t) /\ t.unloads = s.unloads
<1>1. SameJobs(s, s) /\ s \in QueueState
  BY DEF SameJobs, Good
<1>2. CASE MaintenanceDue(s, d)
  <2>1. ~s.shutting_down /\ <<d>> \in Seq(Dbs)
    BY <1>2 DEF MaintenanceDue
  <2> QED
    BY <1>2, <2>1, ScheduleMaintenance DEF maybe_schedule_maintenance
<1>3. CASE ~MaintenanceDue(s, d)
  BY <1>1, <1>3, SameJobsGood DEF maybe_schedule_maintenance
<1> QED
  BY <1>2, <1>3

LEMMA UnreportedLoad ==
    ASSUME NEW s, Good(s), NEW job \in Job, Shaped(job)
    PROVE  LET t == record_unreported_batch_load(s, job)
           IN  Good(t) /\ Grows(s, t) /\ t.unloads = s.unloads
<1> DEFINE t == record_unreported_batch_load(s, job)
<1>1. s \in QueueState
  BY DEF Good
<1>2. t \in QueueState /\ SameJobs(s, t) /\ t.unloads = s.unloads
  BY <1>1 DEF record_unreported_batch_load, Shaped, QueueState, SameJobs
<1> QED
  BY <1>2, SameJobsGood

LEMMA RecordLoad ==
    ASSUME NEW s, Good(s), NEW job \in Job, Shaped(job), NEW result \in JobResult
    PROVE  LET t == record_batch_load(s, job, result)
           IN  Good(t) /\ Grows(s, t) /\ t.unloads = s.unloads
<1> DEFINE t == record_batch_load(s, job, result)
<1>1. s \in QueueState /\ result.loaded_model \in Setters \cup {None} /\ result.success \in BOOLEAN
  BY DEF Good, JobResult
<1>2. CASE result.loaded_model # None
  <2>1. t = [s EXCEPT !.batch_loaded = result.loaded_model]
    BY <1>2 DEF record_batch_load
  <2>2. t \in QueueState /\ SameJobs(s, t) /\ t.unloads = s.unloads
    BY <1>1, <1>2, <2>1 DEF QueueState, SameJobs
  <2> QED
    BY <2>2, SameJobsGood
<1>3. CASE result.loaded_model = None /\ ~result.success
  BY <1>3, UnreportedLoad DEF record_batch_load
<1>4. CASE result.loaded_model = None /\ result.success
  <2>1. t = s /\ SameJobs(s, s)
    BY <1>4 DEF record_batch_load, SameJobs
  <2> QED
    BY <1>1, <2>1, SameJobsGood
<1> QED
  BY <1>1, <1>2, <1>3, <1>4

(* An unload is only decided when no job runs.                             *)
LEMMA MaybeUnload ==
    ASSUME NEW s, Good(s)
    PROVE  LET t == maybe_unload_batch_model(s)
           IN  /\ Good(t) /\ Grows(s, t)
               /\ t.queue = s.queue
               /\ s.running_job # None => t = s
<1> DEFINE t == maybe_unload_batch_model(s)
<1>1. s \in QueueState /\ s.batch_loaded \in Setters \cup {None} /\ s.unloads \in SUBSET Setters
  BY DEF Good, QueueState
<1>2. CASE batch_unload_due(s)
  <2>1. s.batch_loaded \in Setters /\ s.running_job = None
    BY <1>1, <1>2 DEF batch_unload_due
  <2>2. t = [s EXCEPT !.unloads = s.unloads \cup {s.batch_loaded}, !.batch_loaded = None]
    BY <1>1, <1>2 DEF maybe_unload_batch_model, QueueState
  <2>3. s.unloads \cup {s.batch_loaded} \in SUBSET Setters
    BY <1>1, <2>1
  <2> HIDE DEF t
  <2>4. t \in QueueState
    BY <1>1, <2>2, <2>3 DEF QueueState
  <2>5. SameJobs(s, t)
    BY <1>1, <2>2 DEF QueueState, SameJobs
  <2> QED
    BY <2>1, <2>4, <2>5, SameJobsGood DEF SameJobs, t
<1>3. CASE ~batch_unload_due(s)
  <2>1. t = s /\ SameJobs(s, s)
    BY <1>3 DEF maybe_unload_batch_model, SameJobs
  <2> QED
    BY <1>1, <2>1, SameJobsGood
<1> QED
  BY <1>2, <1>3

(* A boundary: a job that is no longer running is accounted for, and the   *)
(* next job is started.                                                    *)
LEMMA Boundary ==
    ASSUME NEW s \in QueueState, NEW t, Good(t), Grows(s, t), t.running_job = None
    PROVE  LET u == start_next_job(t, FALSE)
           IN  /\ Good(u)
               /\ u.running_job = None => u.queue = {}
               /\ u.running_job # None =>
                     \/ \E k \in s.queue : k.id = u.running_job.id
                     \/ s.job_counter < u.running_job.id
               /\ \A j \in u.queue : (\E k \in s.queue : k.id = j.id) \/ s.job_counter < j.id
               /\ s.job_counter <= u.job_counter
               /\ u.shutting_down = s.shutting_down
               /\ s.shutting_down => u.running_job = None
BY StartNextJob DEF Grows, Good

LEMMA CancelInner ==
    ASSUME NEW s, Good(s), NEW suppress, CancelAnswered(s)
    PROVE  LET u == cancel_running_job_inner(s, suppress)
           IN  /\ Good(u)
               /\ u.running_job = None => u.queue = {}
               /\ u.running_job # None =>
                     \/ \E k \in s.queue : k.id = u.running_job.id
                     \/ s.job_counter < u.running_job.id
               /\ \A j \in u.queue : (\E k \in s.queue : k.id = j.id) \/ s.job_counter < j.id
               /\ s.job_counter <= u.job_counter
               /\ u.shutting_down = s.shutting_down
               /\ s.shutting_down => u.running_job = None
<1> DEFINE job == s.running_job
           idle == [s EXCEPT !.running_job = None]
           recorded == record_outcome(idle, job.id, "Cancelled")
           owing0 == record_owed(recorded, job, None)
           owing == record_unreported_batch_load(owing0, job)
           scheduled == IF suppress THEN owing ELSE maybe_schedule_maintenance(owing, job.db)
           unloaded == IF s.shutting_down THEN scheduled ELSE maybe_unload_batch_model(scheduled)
<1>1. job \in Job /\ Shaped(job) /\ job.id \in Nat \ {0} /\ job.db \in Dbs
  BY DEF Good, QueueState, CancelAnswered, Job
<1>2. /\ Good(idle) /\ idle.running_job = None /\ idle.queue = s.queue
      /\ idle.job_counter = s.job_counter /\ idle.shutting_down = s.shutting_down
  BY EndRunning
<1> HIDE DEF idle
<1>3. Good(recorded) /\ Grows(idle, recorded)
  BY <1>1, <1>2, RecordOutcome
<1> HIDE DEF recorded
<1>4. Good(owing0) /\ Grows(recorded, owing0)
  BY <1>1, <1>3, RecordOwedOf
<1> HIDE DEF owing0
<1>5. Good(owing) /\ Grows(owing0, owing)
  BY <1>1, <1>4, UnreportedLoad
<1> HIDE DEF owing
<1>6. Good(scheduled) /\ Grows(owing, scheduled)
  <2>1. SameJobs(owing, owing) /\ owing \in QueueState
    BY <1>5 DEF SameJobs, Good
  <2> QED
    BY <1>1, <1>5, <2>1, MaybeScheduleMaintenance, SameJobsGood
<1> HIDE DEF scheduled
<1>7. Good(unloaded) /\ Grows(scheduled, unloaded)
  <2>1. SameJobs(scheduled, scheduled) /\ scheduled \in QueueState
    BY <1>6 DEF SameJobs, Good
  <2> QED
    BY <1>6, <2>1, MaybeUnload, SameJobsGood
<1> HIDE DEF unloaded
<1>8. /\ idle \in QueueState /\ recorded \in QueueState /\ owing0 \in QueueState
      /\ owing \in QueueState /\ scheduled \in QueueState /\ unloaded \in QueueState
  BY <1>2, <1>3, <1>4, <1>5, <1>6, <1>7 DEF Good
<1>9. Grows(idle, owing0)
  BY <1>3, <1>4, <1>8, GrowsTransitive
<1>10. Grows(idle, scheduled)
  <2>1. Grows(idle, owing)
    BY <1>5, <1>8, <1>9, GrowsTransitive
  <2> QED
    BY <1>6, <1>8, <2>1, GrowsTransitive
<1>11. Grows(idle, unloaded)
  BY <1>7, <1>8, <1>10, GrowsTransitive
<1>12. unloaded.running_job = None
  BY <1>2, <1>11 DEF Grows
<1>13. cancel_running_job_inner(s, suppress) = start_next_job(unloaded, FALSE)
  BY DEF cancel_running_job_inner, unloaded, scheduled, owing, owing0, recorded, idle
<1> DEFINE u == start_next_job(unloaded, FALSE)
<1>14. /\ Good(u)
       /\ u.running_job = None => u.queue = {}
       /\ u.running_job # None =>
             \/ \E k \in idle.queue : k.id = u.running_job.id
             \/ idle.job_counter < u.running_job.id
       /\ \A j \in u.queue : (\E k \in idle.queue : k.id = j.id) \/ idle.job_counter < j.id
       /\ idle.job_counter <= u.job_counter
       /\ u.shutting_down = idle.shutting_down
       /\ idle.shutting_down => u.running_job = None
  BY <1>7, <1>8, <1>11, <1>12, Boundary
<1> HIDE DEF u
<1>15. cancel_running_job_inner(s, suppress) = u
  BY <1>13 DEF u
<1> QED
  BY <1>2, <1>14, <1>15

-----------------------------------------------------------------------------
(* The inductive invariant.  Beside the properties themselves it says that *)
(* jobs start in the order of their ids (so a job that starts is new to    *)
(* the runner, to the tasks and to the completions under way), that a      *)
(* completion is only sent when the runner has forgotten the job, that     *)
(* only the runner's job is a live task, and that every pending unload is  *)
(* older than the load of a live task.                                     *)
Live(t) == t.abort = "none" /\ t.phase # "done"

StartedBefore(id) ==
    /\ id <= state.job_counter
    /\ \A j \in state.queue : id < j.id

TasksInv ==
    /\ \A t \in tasks : Shaped(t.job) /\ StartedBefore(t.job.id)
    /\ \A t, u \in tasks : t.job.id = u.job.id => t = u
    /\ \A t \in tasks : Live(t) => runner = t.job.id

InboxInv ==
    \A k \in DOMAIN inbox : inbox[k].kind = "RunnerFinished" =>
        StartedBefore(inbox[k].id) /\ inbox[k].id # runner

UnloadInv ==
    /\ \A u \in unloads : /\ u.generation <= generation
                          /\ u.phase = "calling" => u.generation = generation
    /\ \A t \in tasks, u \in unloads :
          Live(t) /\ t.phase \in {"loading", "loaded"} => u.generation < generation

IInv ==
    /\ TypeOK
    /\ Good(state)
    /\ state.unloads = {} /\ state.pending_marks = {}
    /\ IdleMeansDrained
    /\ RunnerAgreement
    /\ SlotOwned
    /\ TasksInv
    /\ InboxInv
    /\ UnloadInv

-----------------------------------------------------------------------------
(* A handler either leaves the running job alone, or ends a boundary with  *)
(* the runner free, every task of before aborted or done, and possibly a   *)
(* job started that was queued before or is new.                           *)
Fresh(j) == (\E k \in state.queue : k.id = j.id) \/ state.job_counter < j.id

Kept(s, run, ts) ==
    /\ s.running_job = state.running_job /\ s.running_job # None
    /\ run = runner /\ ts = tasks
    /\ s.unloads = {}

Ended(s, run, ts) ==
    /\ s.running_job # None => Fresh(s.running_job)
    /\ run = 0
    /\ \E m \in {"midpoll", "idle"} : ts = AbortTask(tasks, m)

Handled(s, run, ts) ==
    /\ Good(s)
    /\ s.running_job = None => s.queue = {}
    /\ state.job_counter <= s.job_counter
    /\ \A j \in s.queue : Fresh(j)
    /\ Kept(s, run, ts) \/ Ended(s, run, ts)

(* The messages that are left are old ones, and a completion of the job    *)
(* that stays the running one is not consumed.                             *)
InboxLeft(s) ==
    /\ inbox' \in Seq(Message)
    /\ \A k \in DOMAIN inbox' : \E i \in DOMAIN inbox : inbox'[k] = inbox[i]
    /\ s.running_job = state.running_job /\ s.running_job # None =>
          \A i \in DOMAIN inbox :
              inbox[i].kind = "RunnerFinished" /\ inbox[i].id = s.running_job.id
              => \E k \in DOMAIN inbox' : inbox'[k] = inbox[i]

(* What aborting the runner's task leaves: the same tasks in the same      *)
(* phases, none of them live.                                              *)
LEMMA Aborted ==
    ASSUME IInv, NEW m \in {"midpoll", "idle"}
    PROVE  LET ts == AbortTask(tasks, m)
           IN  /\ ts \subseteq Task
               /\ \A t \in ts : ~Live(t) /\ \E t0 \in tasks : t.job = t0.job /\ t.phase = t0.phase
               /\ \A t0 \in tasks : \E t \in ts : t.job = t0.job /\ t.phase = t0.phase
               /\ \A t, u \in ts : t.job.id = u.job.id => t = u
<1> DEFINE A(t) == IF t.job.id = runner /\ t.phase # "done" THEN [t EXCEPT !.abort = m] ELSE t
           ts == AbortTask(tasks, m)
<1>1. ts = {A(t) : t \in tasks}
  BY DEF AbortTask
<1>2. tasks \subseteq Task
  BY DEF IInv, TypeOK
<1>3. \A t \in tasks : A(t) \in Task /\ A(t).job = t.job /\ A(t).phase = t.phase /\ ~Live(A(t))
  <2> TAKE t \in tasks
  <2>1. CASE t.job.id = runner /\ t.phase # "done"
    <3>1. A(t) = [t EXCEPT !.abort = m] /\ t \in Task
      BY <1>2, <2>1
    <3>2. A(t).abort = m /\ A(t).job = t.job /\ A(t).phase = t.phase /\ A(t) \in Task
      BY <3>1 DEF Task
    <3> QED
      BY <3>2 DEF Live
  <2>2. CASE ~(t.job.id = runner /\ t.phase # "done")
    BY <1>2, <2>2 DEF IInv, TasksInv, Live
  <2> QED
    BY <2>1, <2>2
<1> HIDE DEF A
<1>4. \A t, u \in tasks : A(t).job.id = A(u).job.id => t = u
  BY <1>3 DEF IInv, TasksInv
<1> QED
  BY <1>1, <1>3, <1>4

LEMMA AbortNothing ==
    ASSUME IInv, runner = 0
    PROVE  \A m : AbortTask(tasks, m) = tasks
<1>1. \A t \in tasks : t.job.id # 0
  BY DEF IInv, TypeOK, Task, Job
<1> QED
  BY <1>1 DEF AbortTask

LEMMA HandlerStep ==
    ASSUME IInv, NEW s, NEW run, NEW ts, Handled(s, run, ts), Commit(s, run, ts), InboxLeft(s),
           slot' = slot, generation' = generation, requests' \in 0 .. MaxRequests
    PROVE  IInv'
<1> DEFINE started == s.running_job # None /\ s.running_job # state.running_job
           clean == [s EXCEPT !.pending_marks = {}, !.unloads = {}]
<1>1. /\ s \in QueueState /\ s.unloads \in SUBSET Setters /\ s.pending_marks \in SUBSET Dbs
      /\ s.queue \in SUBSET Job /\ s.job_counter \in Nat
      /\ s.running_job # None => s.running_job \in Job /\ s.running_job.id \in Nat \ {0}
  BY DEF Handled, Good, QueueState, Job
<1>2. /\ state \in QueueState /\ state.job_counter \in Nat /\ state.queue \in SUBSET Job
      /\ \A j \in state.queue : j.id \in Nat
      /\ state.running_job # None => state.running_job \in Job /\ state.running_job.id \in Nat \ {0}
      /\ tasks \subseteq Task /\ \A t \in tasks : t.job.id \in Nat \ {0}
      /\ runner \in Nat
  BY DEF IInv, TypeOK, QueueState, Job, Task
<1>3. /\ state' = clean
      /\ runner' = IF started THEN s.running_job.id ELSE run
      /\ tasks' = IF started THEN ts \cup {NewTask(s.running_job)} ELSE ts
      /\ unloads' = unloads \cup
            {[setter |-> u, generation |-> generation, phase |-> "waiting"] : u \in s.unloads}
      /\ marks' = s.pending_marks
  BY DEF Commit
<1>4. /\ clean \in QueueState /\ SameJobs(s, clean)
      /\ clean.unloads = {} /\ clean.pending_marks = {}
  BY <1>1 DEF QueueState, SameJobs
<1> HIDE DEF clean
<1>5. /\ state'.queue = s.queue /\ state'.running_job = s.running_job
      /\ state'.job_counter = s.job_counter
  BY <1>3, <1>4 DEF SameJobs
<1>6. Good(state)' /\ state'.unloads = {} /\ state'.pending_marks = {}
  <2>1. Good(clean)
    BY <1>4, SameJobsGood DEF Handled
  <2> QED
    BY <2>1, <1>3, <1>4 DEF Good
<1>7. IdleMeansDrained'
  BY <1>5 DEF IdleMeansDrained, Handled
<1>8. \A id \in Nat : StartedBefore(id) => StartedBefore(id)'
  <2> SUFFICES ASSUME NEW id \in Nat, StartedBefore(id)
               PROVE  id <= s.job_counter /\ \A j \in s.queue : id < j.id
    BY <1>5 DEF StartedBefore
  <2>1. id <= s.job_counter
    BY <1>1, <1>2 DEF StartedBefore, Handled
  <2>2. ASSUME NEW j \in s.queue PROVE id < j.id
    <3>1. Fresh(j) /\ j.id \in Nat
      BY <1>1, <2>2 DEF Handled, Job
    <3> QED
      BY <1>2, <3>1 DEF Fresh, StartedBefore
  <2> QED
    BY <2>1, <2>2
<1>9. started => /\ Ended(s, run, ts) /\ StartedBefore(s.running_job.id)'
                 /\ \A id \in Nat : StartedBefore(id) => id < s.running_job.id
  <2> SUFFICES ASSUME started
               PROVE  /\ Ended(s, run, ts) /\ StartedBefore(s.running_job.id)'
                      /\ \A id \in Nat : StartedBefore(id) => id < s.running_job.id
    OBVIOUS
  <2>1. Ended(s, run, ts) /\ Fresh(s.running_job)
    BY DEF Handled, Kept, Ended
  <2>2. StartedBefore(s.running_job.id)'
    BY <1>5 DEF StartedBefore, Handled, Good
  <2>3. \A id \in Nat : StartedBefore(id) => id < s.running_job.id
    BY <1>1, <1>2, <2>1 DEF StartedBefore, Fresh
  <2> QED
    BY <2>1, <2>2, <2>3
<1>10. ~started => \/ Kept(s, run, ts)
                   \/ Ended(s, run, ts) /\ s.running_job = None
  <2> SUFFICES ASSUME s.running_job = state.running_job, s.running_job # None, Ended(s, run, ts)
               PROVE  FALSE
    BY DEF Handled
  <2>1. Fresh(state.running_job) /\ state.running_job.id <= state.job_counter
        /\ \A j \in state.queue : state.running_job.id < j.id
    BY DEF Ended, IInv, Good
  <2> QED
    BY <1>2, <2>1 DEF Fresh
<1>11. /\ ts \subseteq Task
       /\ \A t \in ts : \E t0 \in tasks : t.job = t0.job /\ t.phase = t0.phase
       /\ \A t0 \in tasks : \E t \in ts : t.job = t0.job /\ t.phase = t0.phase
       /\ \A t, u \in ts : t.job.id = u.job.id => t = u
       /\ Ended(s, run, ts) => \A t \in ts : ~Live(t)
       /\ Kept(s, run, ts) => ts = tasks
  <2>1. CASE Kept(s, run, ts) /\ ~Ended(s, run, ts)
    BY <1>2, <2>1 DEF Kept, IInv, TasksInv
  <2>2. CASE Ended(s, run, ts)
    BY <2>2, Aborted DEF Ended, Kept
  <2> QED
    BY <2>1, <2>2 DEF Handled
<1>12. started => /\ NewTask(s.running_job) \in Task
                  /\ NewTask(s.running_job).job = s.running_job
                  /\ NewTask(s.running_job).phase = "start"
  BY <1>1 DEF NewTask, Task, JobResult, NoResult
<1>13. /\ tasks' \subseteq Task
       /\ \A t \in tasks' : t \in ts \/ (started /\ t = NewTask(s.running_job))
       /\ ts \subseteq tasks'
  BY <1>3, <1>11, <1>12
<1>14. /\ unloads' \subseteq Unload /\ unloads \subseteq unloads'
       /\ \A u \in unloads' : u \in unloads \/ (u.phase = "waiting" /\ u.generation = generation
                                                 /\ s.unloads # {})
  <2>1. \A u \in s.unloads : [setter |-> u, generation |-> generation, phase |-> "waiting"] \in Unload
    BY <1>1 DEF IInv, TypeOK, Unload
  <2> QED
    BY <1>3, <2>1 DEF IInv, TypeOK
<1>15. TypeOK'
  <2>1. state' \in QueueState
    BY <1>3, <1>4
  <2>2. runner' \in Nat
    BY <1>1, <1>2, <1>3, <1>9, <1>10 DEF Kept, Ended
  <2> QED
    BY <1>1, <1>3, <1>13, <1>14, <2>1, <2>2 DEF TypeOK, IInv, InboxLeft
<1>16. RunnerAgreement'
  <2>1. CASE started
    BY <1>3, <1>5, <2>1 DEF RunnerAgreement
  <2>2. CASE ~started /\ Kept(s, run, ts)
    <3>1. runner' = runner /\ state'.running_job = state.running_job /\ s.running_job # None
      BY <1>3, <1>5, <2>2 DEF Kept
    <3>2. \A i \in DOMAIN inbox :
              inbox[i].kind = "RunnerFinished" /\ inbox[i].id = state.running_job.id
              => \E k \in DOMAIN inbox' : inbox'[k] = inbox[i]
      BY <2>2 DEF Kept, InboxLeft
    <3> QED
      BY <3>1, <3>2 DEF RunnerAgreement, IInv
  <2>3. CASE ~started /\ Ended(s, run, ts) /\ s.running_job = None
    BY <1>3, <1>5, <2>3 DEF RunnerAgreement, Ended
  <2> QED
    BY <1>10, <2>1, <2>2, <2>3
<1>17. SlotOwned'
  <2>1. (\E t \in tasks' : t.phase = "loading") <=> (\E t \in tasks : t.phase = "loading")
    BY <1>11, <1>12, <1>13
  <2>2. (\E u \in unloads' : u.phase = "calling") <=> (\E u \in unloads : u.phase = "calling")
    BY <1>14
  <2>3. \A t1, t2 \in tasks' : t1.phase = "loading" /\ t2.phase = "loading" => t1 = t2
    <3> SUFFICES ASSUME NEW t1 \in tasks', NEW t2 \in tasks',
                        t1.phase = "loading", t2.phase = "loading"
                 PROVE  t1 = t2
      OBVIOUS
    <3>1. t1 \in ts /\ t2 \in ts
      BY <1>12, <1>13
    <3>2. PICK a \in tasks : t1.job = a.job /\ t1.phase = a.phase
      BY <1>11, <3>1
    <3>3. PICK b \in tasks : t2.job = b.job /\ t2.phase = b.phase
      BY <1>11, <3>1
    <3>4. a = b
      BY <3>2, <3>3 DEF IInv, SlotOwned
    <3> QED
      BY <1>11, <3>1, <3>2, <3>3, <3>4
  <2>4. \A u1, u2 \in unloads' : u1.phase = "calling" /\ u2.phase = "calling" => u1 = u2
    BY <1>14 DEF IInv, SlotOwned
  <2> QED
    BY <2>1, <2>2, <2>3, <2>4 DEF IInv, SlotOwned
<1>18. \A t \in ts : Shaped(t.job) /\ t.job.id \in Nat /\ StartedBefore(t.job.id)
  BY <1>2, <1>11 DEF IInv, TasksInv
<1>19. TasksInv'
  <2>1. \A t \in tasks' : Shaped(t.job) /\ StartedBefore(t.job.id)'
    <3> TAKE t \in tasks'
    <3>1. CASE t \in ts
      BY <1>8, <1>18, <3>1
    <3>2. CASE started /\ t = NewTask(s.running_job)
      BY <1>9, <1>12, <3>2 DEF Handled, Good
    <3> QED
      BY <1>13, <3>1, <3>2
  <2>2. \A t, u \in tasks' : t.job.id = u.job.id => t = u
    <3>1. started => \A t \in ts : t.job.id < s.running_job.id
      BY <1>9, <1>18
    <3>2. started => \A t \in ts : t.job.id # s.running_job.id
      BY <1>1, <1>18, <3>1
    <3> QED
      BY <1>11, <1>12, <1>13, <3>2
  <2>3. \A t \in tasks' : Live(t) => runner' = t.job.id
    <3>1. CASE started
      BY <1>3, <1>9, <1>11, <1>12, <1>13, <3>1
    <3>2. CASE ~started /\ Kept(s, run, ts)
      BY <1>3, <1>11, <3>2 DEF IInv, TasksInv, Kept
    <3>3. CASE ~started /\ Ended(s, run, ts)
      BY <1>3, <1>11, <3>3
    <3> QED
      BY <1>10, <3>1, <3>2, <3>3
  <2> QED
    BY <2>1, <2>2, <2>3 DEF TasksInv, Live, Shaped
<1>20. InboxInv'
  <2> SUFFICES ASSUME NEW k \in DOMAIN inbox', inbox'[k].kind = "RunnerFinished"
               PROVE  /\ inbox'[k].id <= state'.job_counter
                      /\ \A j \in state'.queue : inbox'[k].id < j.id
                      /\ inbox'[k].id # runner'
    BY DEF InboxInv, StartedBefore
  <2>1. PICK i \in DOMAIN inbox : inbox'[k] = inbox[i]
    BY DEF InboxLeft
  <2>2. inbox[i] \in Message
    BY <2>1 DEF IInv, TypeOK
  <2>3. inbox[i].id \in Nat \ {0}
    BY <2>1, <2>2 DEF Message
  <2>4. StartedBefore(inbox[i].id) /\ inbox[i].id # runner
    BY <2>1 DEF IInv, InboxInv
  <2>5. inbox[i].id # runner'
    <3>1. CASE started
      BY <1>1, <1>3, <1>9, <2>3, <2>4, <3>1
    <3>2. CASE ~started
      BY <1>3, <1>10, <2>3, <2>4, <3>2 DEF Kept, Ended
    <3> QED
      BY <3>1, <3>2
  <2> QED
    BY <1>8, <2>1, <2>3, <2>4, <2>5 DEF StartedBefore
<1>21. UnloadInv'
  <2>1. \A u \in unloads' : /\ u.generation <= generation
                            /\ u.phase = "calling" => u.generation = generation
    BY <1>14 DEF IInv, UnloadInv, TypeOK
  <2>2. ASSUME NEW t \in tasks', NEW u \in unloads', Live(t), t.phase \in {"loading", "loaded"}
        PROVE  u.generation < generation
    <3>1. t \in ts
      BY <1>12, <1>13, <2>2
    <3>2. Kept(s, run, ts)
      BY <1>11, <2>2, <3>1 DEF Handled
    <3>3. t \in tasks /\ u \in unloads
      BY <1>11, <1>14, <3>1, <3>2 DEF Kept
    <3> QED
      BY <2>2, <3>3 DEF IInv, UnloadInv
  <2> QED
    BY <2>1, <2>2 DEF UnloadInv, Live
<1> QED
  BY <1>6, <1>7, <1>15, <1>16, <1>17, <1>19, <1>20, <1>21 DEF IInv

-----------------------------------------------------------------------------
(* Where the state of a handler's arm can come from.                       *)
Advanced(s) ==
    /\ Good(s)
    /\ s.running_job # None => Fresh(s.running_job)
    /\ state.job_counter <= s.job_counter
    /\ \A j \in s.queue : Fresh(j)

LEMMA NoJobNoRunner ==
    ASSUME IInv, state.running_job = None
    PROVE  runner = 0 /\ state.queue = {}
BY DEF IInv, RunnerAgreement, IdleMeansDrained

LEMMA UnansweredCancel ==
    ASSUME IInv, state.running_job # None, runner # state.running_job.id
    PROVE  runner = 0
BY DEF IInv, RunnerAgreement

LEMMA RunningIsNotFresh ==
    ASSUME IInv, state.running_job # None
    PROVE  ~Fresh(state.running_job)
<1>1. state.running_job \in Job /\ state.job_counter \in Nat /\ state.queue \subseteq Job
  BY DEF IInv, Good, QueueState
<1>2. state.running_job.id <= state.job_counter /\ \A j \in state.queue : state.running_job.id < j.id
  BY DEF IInv, Good
<1> QED
  BY <1>1, <1>2 DEF Fresh, Job

LEMMA SelfGrows ==
    ASSUME NEW s, Good(s)
    PROVE  s \in QueueState /\ Grows(s, s)
<1>1. s \in QueueState /\ SameJobs(s, s)
  BY DEF Good, SameJobs
<1> QED
  BY <1>1, SameJobsGood

LEMMA GrowsAdvances ==
    ASSUME IInv, NEW s, Advanced(s), NEW t, Good(t), Grows(s, t)
    PROVE  Advanced(t)
<1>1. s.job_counter \in Nat /\ t.job_counter \in Nat /\ state.job_counter \in Nat
  BY DEF Advanced, IInv, Good, QueueState
<1>2. \A j \in t.queue : j.id \in Nat
  BY DEF Good, QueueState, Job
<1>3. \A j \in t.queue : Fresh(j)
  BY <1>1, <1>2 DEF Grows, Advanced, Fresh
<1> QED
  BY <1>1, <1>3 DEF Grows, Advanced

LEMMA GrownAdvances ==
    ASSUME IInv, NEW t, Good(t), Grows(state, t), t.running_job = None
    PROVE  Advanced(t)
BY DEF Advanced, Grows, Fresh

(* Once the runner is free, starting the next job ends a boundary.         *)
LEMMA AdvancedHandled ==
    ASSUME IInv, NEW s, Advanced(s), s.running_job = None => s.queue = {},
           NEW m \in {"midpoll", "idle"}
    PROVE  Handled(s, 0, AbortTask(tasks, m))
BY DEF Advanced, Handled, Ended

LEMMA StartAdvances ==
    ASSUME IInv, NEW s, Advanced(s)
    PROVE  LET t == start_next_job(s, FALSE)
           IN  Advanced(t) /\ (t.running_job = None => t.queue = {})
<1>1. CASE s.running_job = None
  BY <1>1, StartNextJob DEF Advanced
<1>2. CASE s.running_job # None
  BY <1>2, StartNothing DEF Advanced
<1> QED
  BY <1>1, <1>2

(* A handler that adds or removes queued jobs and then starts the next one *)
(* if it can.                                                              *)
LEMMA QueueEdited ==
    ASSUME IInv, NEW s, Good(s), Grows(state, s), state.running_job # None => s.unloads = {}
    PROVE  Handled(start_next_job(s, runner # 0), runner, tasks)
<1>1. CASE state.running_job # None
  <2>1. s.running_job # None /\ s.running_job = state.running_job
    BY <1>1 DEF Grows
  <2>2. start_next_job(s, runner # 0) = s
    BY <2>1, StartNothing
  <2>3. Handled(s, runner, tasks)
    BY <1>1, <2>1 DEF Handled, Kept, Grows, Fresh
  <2> QED
    BY <2>2, <2>3
<1>2. CASE state.running_job = None
  <2>1. runner = 0 /\ s.running_job = None
    BY <1>2, NoJobNoRunner DEF Grows
  <2>2. Advanced(s)
    BY <2>1, GrownAdvances
  <2>3. Handled(start_next_job(s, FALSE), 0, AbortTask(tasks, "idle"))
    BY <2>2, StartAdvances, AdvancedHandled
  <2>4. AbortTask(tasks, "idle") = tasks /\ (runner # 0) = FALSE
    BY <2>1, AbortNothing
  <2> QED
    BY <2>1, <2>3, <2>4
<1> QED
  BY <1>1, <1>2

LEMMA QueueKept ==
    ASSUME IInv, NEW s, Good(s), Grows(state, s), s.unloads = {},
           state.running_job = None => s.queue = {}
    PROVE  Handled(s, runner, tasks)
<1>1. start_next_job(s, runner # 0) = s
  BY StartNothing DEF Grows
<1> QED
  BY <1>1, QueueEdited

LEMMA SameInbox ==
    ASSUME IInv, inbox' = inbox, NEW s
    PROVE  InboxLeft(s)
BY DEF InboxLeft, IInv, TypeOK

LEMMA HeadConsumed ==
    ASSUME IInv, inbox # <<>>, inbox' = Tail(inbox), NEW s,
           s.running_job = state.running_job /\ s.running_job # None =>
              ~(Head(inbox).kind = "RunnerFinished" /\ Head(inbox).id = s.running_job.id)
    PROVE  InboxLeft(s)
<1>1. inbox \in Seq(Message)
  BY DEF IInv, TypeOK
<1>2. /\ Head(inbox) = inbox[1] /\ Len(inbox) \in Nat /\ Len(inbox) > 0
      /\ DOMAIN inbox = 1 .. Len(inbox)
      /\ inbox' \in Seq(Message) /\ DOMAIN inbox' = 1 .. Len(inbox) - 1
      /\ \A k \in DOMAIN inbox' : inbox'[k] = inbox[k + 1]
  BY <1>1
<1>3. \A i \in DOMAIN inbox : i # 1 => i - 1 \in DOMAIN inbox' /\ inbox'[i - 1] = inbox[i]
  BY <1>2
<1>4. \A k \in DOMAIN inbox' : k + 1 \in DOMAIN inbox
  BY <1>2
<1> QED
  BY <1>2, <1>3, <1>4 DEF InboxLeft

-----------------------------------------------------------------------------
(* The messages of clients preserve the invariant.                         *)

LEMMA StateFacts ==
    ASSUME IInv
    PROVE  /\ Good(state) /\ state \in QueueState /\ state.unloads = {} /\ Grows(state, state)
           /\ state.queue \subseteq Job /\ state.queued_jobs = state.queue
           /\ state.owed \in [Dbs -> SUBSET Flags]
           /\ state.running_job # None =>
                 /\ state.running_job \in Job /\ Shaped(state.running_job)
                 /\ state.running_job.id \in Nat \ {0} /\ state.running_job.db \in Dbs
<1>1. Good(state) /\ state \in QueueState /\ state.unloads = {}
  BY DEF IInv, Good
<1>2. Grows(state, state)
  BY <1>1, SelfGrows
<1> QED
  BY <1>1, <1>2 DEF Good, QueueState, Job

LEMMA ClientCount ==
    ASSUME IInv, ClientSends
    PROVE  requests' \in 0 .. MaxRequests
BY BoundsAssumption DEF IInv, TypeOK, ClientSends

LEMMA ClientRequestShape ==
    ASSUME NEW r \in ClientRequest
    PROVE  r \in JobRequest /\ Shaped(r)
BY DEF ClientRequest, Shaped

LEMMA PushedAndStarted ==
    ASSUME IInv, NEW s, Good(s), Grows(state, s), s.unloads = {},
           NEW rs \in Seq(JobRequest), \A k \in DOMAIN rs : Shaped(rs[k]), ~state.shutting_down
    PROVE  Handled(start_next_job(push_jobs(s, rs), runner # 0), runner, tasks)
<1> DEFINE t == push_jobs(s, rs)
<1>1. ~s.shutting_down /\ s \in QueueState
  BY DEF Grows, Good
<1>2. /\ Good(t) /\ Grows(s, t)
      /\ t = [s EXCEPT !.job_counter = t.job_counter, !.queue = t.queue,
                      !.queued_jobs = t.queued_jobs]
  BY <1>1, PushJobs
<1> HIDE DEF t
<1>3. t.unloads = {} /\ t \in QueueState
  BY <1>1, <1>2 DEF QueueState, Good
<1>4. Grows(state, t)
  BY <1>1, <1>2, <1>3, StateFacts, GrowsTransitive
<1>5. Handled(start_next_job(t, runner # 0), runner, tasks)
  BY <1>2, <1>3, <1>4, QueueEdited
<1> QED
  BY <1>5 DEF t

LEMMA EnqueueStep ==
    ASSUME IInv, NEW r \in Requests, Enqueue(r)
    PROVE  IInv'
<1>1. r \in JobRequest /\ Shaped(r)
  BY RequestsAssumption, ClientRequestShape
<1>2. <<r>> \in Seq(JobRequest) /\ \A k \in DOMAIN <<r>> : Shaped(<<r>>[k])
  BY <1>1
<1> DEFINE s == start_next_job(push_jobs(state, <<r>>), runner # 0)
<1>3. Handled(s, runner, tasks)
  BY <1>2, StateFacts, PushedAndStarted DEF Enqueue
<1>4. /\ Commit(s, runner, tasks)
      /\ inbox' = inbox /\ slot' = slot /\ generation' = generation
      /\ ClientSends
  BY DEF Enqueue, push_job
<1> HIDE DEF s
<1> QED
  BY <1>3, <1>4, SameInbox, ClientCount, HandlerStep

(* What a batch hands to push_job: requests of clients, tagged, and none    *)
(* for a database where a job with that tag is queued or runs.             *)
Admitted(b, accepted) ==
    /\ accepted \in Seq(JobRequest)
    /\ \A k \in DOMAIN accepted :
          /\ accepted[k] \in ClientRequest
          /\ <<accepted[k].tag, accepted[k].db>> \in b.dedups
          /\ accepted[k].db \notin SkippedDbs(state, b.dedups)

LEMMA BatchAdmits ==
    ASSUME NEW b \in Batches, EnqueueBatch(b)
    PROVE  \E accepted :
              /\ Admitted(b, accepted)
              /\ \/ Commit(state, runner, tasks)
                 \/ Commit(start_next_job(push_jobs(state, accepted), runner # 0), runner, tasks)
<1> DEFINE kept == {i \in DOMAIN b.requests :
                       b.requests[i].db \notin SkippedDbs(state, b.dedups)}
<1>1. /\ b.requests \in Seq(ClientRequest)
      /\ \A i \in DOMAIN b.requests : <<b.requests[i].tag, b.requests[i].db>> \in b.dedups
  BY BatchesAssumption
<1>2. kept \subseteq 1 .. Len(b.requests) /\ Len(b.requests) \in Nat
  BY <1>1
<1>3. IsFiniteSet(kept)
  <2>1. IsFiniteSet(1 .. Len(b.requests))
    BY <1>2, FS_Interval
  <2> QED
    BY <1>2, <2>1, FS_Subset
<1>4. PICK order \in SetToSeqs(kept) :
          Commit(IF kept = {} THEN state
                 ELSE start_next_job(push_jobs(state, [k \in DOMAIN order |-> b.requests[order[k]]]),
                                     runner # 0),
                 runner, tasks)
  BY DEF EnqueueBatch
<1> DEFINE accepted == [k \in DOMAIN order |-> b.requests[order[k]]]
<1>5. order \in Seq(kept)
  BY <1>3, SetToSeqsType
<1>6. DOMAIN order = 1 .. Len(order) /\ Len(order) \in Nat /\ \A k \in DOMAIN order : order[k] \in kept
  BY <1>5
<1>7. \A k \in DOMAIN order :
          /\ b.requests[order[k]] \in ClientRequest
          /\ <<b.requests[order[k]].tag, b.requests[order[k]].db>> \in b.dedups
          /\ b.requests[order[k]].db \notin SkippedDbs(state, b.dedups)
  <2> TAKE k \in DOMAIN order
  <2>1. order[k] \in DOMAIN b.requests /\ b.requests[order[k]].db \notin SkippedDbs(state, b.dedups)
    BY <1>6
  <2>2. b.requests[order[k]] \in ClientRequest
    BY <1>1, <2>1
  <2> QED
    BY <1>1, <2>1, <2>2
<1>8. \A k \in DOMAIN order : b.requests[order[k]] \in JobRequest
  BY <1>7 DEF ClientRequest
<1>9. accepted \in [1 .. Len(order) -> JobRequest]
  BY <1>6, <1>8
<1>10. accepted \in Seq(JobRequest)
  BY <1>6, <1>9, SeqDef
<1>11. Admitted(b, accepted)
  BY <1>7, <1>10 DEF Admitted
<1> QED
  BY <1>4, <1>11

LEMMA EnqueueBatchStep ==
    ASSUME IInv, NEW b \in Batches, EnqueueBatch(b)
    PROVE  IInv'
<1>1. PICK accepted :
          /\ Admitted(b, accepted)
          /\ \/ Commit(state, runner, tasks)
             \/ Commit(start_next_job(push_jobs(state, accepted), runner # 0), runner, tasks)
  BY BatchAdmits
<1>2. accepted \in Seq(JobRequest) /\ \A k \in DOMAIN accepted : Shaped(accepted[k])
  BY <1>1, ClientRequestShape DEF Admitted
<1> DEFINE s == start_next_job(push_jobs(state, accepted), runner # 0)
<1>3. inbox' = inbox /\ slot' = slot /\ generation' = generation /\ ClientSends
  BY DEF EnqueueBatch
<1>4. CASE Commit(state, runner, tasks)
  <2>1. Handled(state, runner, tasks)
    BY StateFacts, NoJobNoRunner, QueueKept
  <2> QED
    BY <1>3, <1>4, <2>1, SameInbox, ClientCount, HandlerStep
<1>5. CASE Commit(s, runner, tasks)
  <2>1. Handled(s, runner, tasks)
    BY <1>2, StateFacts, PushedAndStarted DEF EnqueueBatch
  <2> HIDE DEF s
  <2> QED
    BY <1>3, <1>5, <2>1, SameInbox, ClientCount, HandlerStep
<1> QED
  BY <1>1, <1>4, <1>5

(* Upgrading a queued maintenance job changes its metadata alone.          *)
LEMMA Upgrading ==
    ASSUME NEW s, Good(s), NEW d \in Dbs
    PROVE  LET t == UpgradeQueued(s, d)
           IN  Good(t) /\ Grows(s, t) /\ t.unloads = s.unloads
<1> DEFINE U(j) == IF IsMaintenance(j, d) THEN [j EXCEPT !.metadata = to_metadata(Flags)] ELSE j
           t == UpgradeQueued(s, d)
           q == Upgraded(s.queue, d)
<1>1. s \in QueueState /\ s.queue \in SUBSET Job /\ s.queued_jobs = s.queue
  BY DEF Good, QueueState
<1>2. q = {U(j) : j \in s.queue}
  BY DEF Upgraded
<1>3. \A j \in s.queue : U(j) \in Job /\ U(j).id = j.id /\ U(j).type = j.type
                         /\ (Shaped(j) => Shaped(U(j)))
  <2> TAKE j \in s.queue
  <2>1. j \in Job
    BY <1>1
  <2>2. CASE IsMaintenance(j, d)
    <3>1. to_metadata(Flags) \in SUBSET FlagNames
      BY DEF to_metadata, FlagNames
    <3> DEFINE m == to_metadata(Flags)
    <3> HIDE DEF m
    <3>2. [j EXCEPT !.metadata = m] \in Job
      BY <2>1, <3>1 DEF Job, m
    <3>3. U(j) = [j EXCEPT !.metadata = m]
      BY <2>2 DEF m
    <3> QED
      BY <2>1, <2>2, <3>2, <3>3 DEF Job, IsMaintenance, Shaped
  <2>3. CASE ~IsMaintenance(j, d)
    BY <2>1, <2>3
  <2> QED
    BY <2>2, <2>3
<1> HIDE DEF U
<1>4. t = [s EXCEPT !.queue = q, !.queued_jobs = q]
  BY <1>1 DEF UpgradeQueued, QueueState
<1>5. q \in SUBSET Job
  BY <1>2, <1>3
<1>6. \A j \in q : \E k \in s.queue : j = U(k) /\ k.id = j.id
  BY <1>2, <1>3
<1> HIDE DEF q, t
<1>7. /\ t \in QueueState /\ t.queue = q /\ t.queued_jobs = q
      /\ t.unloads = s.unloads /\ t.running_job = s.running_job
      /\ t.job_counter = s.job_counter /\ t.shutting_down = s.shutting_down
  BY <1>1, <1>4, <1>5 DEF QueueState
<1>8. /\ q # {} => s.queue # {}
      /\ \A j \in q : Shaped(j) /\ j.id <= s.job_counter
      /\ \A j, k \in q : j.id = k.id => j = k
  BY <1>3, <1>6 DEF Good
<1>9. s.running_job # None => \A j \in q : s.running_job.id < j.id
  BY <1>6 DEF Good
<1>10. Good(t)
  BY <1>7, <1>8, <1>9 DEF Good
<1>11. Grows(s, t)
  BY <1>1, <1>6, <1>7 DEF Grows, QueueState
<1> QED
  BY <1>7, <1>10, <1>11 DEF t

LEMMA EnqueueMaintenanceStep ==
    ASSUME IInv, NEW d \in Dbs, EnqueueMaintenance(d)
    PROVE  IInv'
<1> DEFINE cleared == [state EXCEPT !.owed[d] = {}]
           upgrade == \E j \in state.queue : IsMaintenance(j, d)
           rs == <<MaintenanceRequest(d, Flags)>>
           s == IF upgrade THEN UpgradeQueued(cleared, d)
                ELSE start_next_job(push_jobs(cleared, rs), runner # 0)
<1>1. /\ Commit(s, runner, tasks)
      /\ inbox' = inbox /\ slot' = slot /\ generation' = generation
      /\ ClientSends /\ ~state.shutting_down
  BY DEF EnqueueMaintenance, push_job
<1>2. Good(cleared) /\ Grows(state, cleared) /\ cleared.unloads = {}
  <2>1. [state.owed EXCEPT ![d] = {}] \in [Dbs -> SUBSET Flags]
    BY StateFacts
  <2>2. cleared = [state EXCEPT !.owed = [state.owed EXCEPT ![d] = {}]]
    BY StateFacts DEF QueueState
  <2> HIDE DEF cleared
  <2>3. cleared \in QueueState /\ SameJobs(state, cleared) /\ cleared.unloads = {}
    BY <2>1, <2>2, StateFacts DEF QueueState, SameJobs
  <2> QED
    BY <2>3, StateFacts, SameJobsGood
<1> HIDE DEF cleared
<1>3. rs \in Seq(JobRequest) /\ \A k \in DOMAIN rs : Shaped(rs[k])
  <2>1. MaintenanceRequest(d, Flags) \in JobRequest /\ Shaped(MaintenanceRequest(d, Flags))
    BY DEF MaintenanceRequest, JobRequest, JobType, to_metadata, FlagNames, Shaped
  <2> QED
    BY <2>1
<1> HIDE DEF rs
<1>4. Handled(s, runner, tasks)
  <2>1. CASE upgrade
    <3> DEFINE u == UpgradeQueued(cleared, d)
    <3>1. Good(u) /\ Grows(cleared, u) /\ u.unloads = {}
      BY <1>2, Upgrading
    <3> HIDE DEF u
    <3>2. Grows(state, u)
      BY <1>2, <3>1, StateFacts, GrowsTransitive DEF Good
    <3>3. state.running_job # None
      BY <2>1, NoJobNoRunner
    <3>4. Handled(u, runner, tasks)
      BY <3>1, <3>2, <3>3, QueueKept
    <3> QED
      BY <2>1, <3>4 DEF u
  <2>2. CASE ~upgrade
    BY <1>1, <1>2, <1>3, <2>2, PushedAndStarted
  <2> QED
    BY <2>1, <2>2
<1> HIDE DEF s
<1> QED
  BY <1>1, <1>4, SameInbox, ClientCount, HandlerStep

(* Cancelling, once the runner has answered, in a state that the handler    *)
(* may already have edited.                                                 *)
LEMMA CancelAdvances ==
    ASSUME IInv, NEW s, Good(s), Grows(state, s), CancelAnswered(s), NEW suppress
    PROVE  LET u == cancel_running_job_inner(s, suppress)
           IN  /\ Advanced(u) /\ (u.running_job = None => u.queue = {})
               /\ u.shutting_down = s.shutting_down
<1> DEFINE u == cancel_running_job_inner(s, suppress)
<1>1. /\ Good(u)
      /\ u.running_job = None => u.queue = {}
      /\ u.running_job # None =>
            \/ \E k \in s.queue : k.id = u.running_job.id
            \/ s.job_counter < u.running_job.id
      /\ \A j \in u.queue : (\E k \in s.queue : k.id = j.id) \/ s.job_counter < j.id
      /\ s.job_counter <= u.job_counter
      /\ u.shutting_down = s.shutting_down
  BY CancelInner
<1> HIDE DEF u
<1>2. /\ s.job_counter \in Nat /\ u.job_counter \in Nat /\ state.job_counter \in Nat
      /\ state.job_counter <= s.job_counter
      /\ \A j \in u.queue : j.id \in Nat
      /\ u.running_job # None => u.running_job.id \in Nat
  BY <1>1 DEF IInv, Good, QueueState, Job, Grows
<1>3. \A j : j.id \in Nat /\ ((\E k \in s.queue : k.id = j.id) \/ s.job_counter < j.id) => Fresh(j)
  BY <1>2 DEF Grows, Fresh
<1>4. Advanced(u)
  BY <1>1, <1>2, <1>3 DEF Advanced
<1> QED
  BY <1>1, <1>4 DEF u

LEMMA CancelUnanswered ==
    ASSUME NEW s, NEW suppress, ~CancelAnswered(s)
    PROVE  cancel_running_job_inner(s, suppress) = s
BY DEF cancel_running_job_inner

LEMMA CancelRunningStep ==
    ASSUME IInv, NEW suppress \in BOOLEAN, CancelRunning(suppress)
    PROVE  IInv'
<1> DEFINE s == cancel_running_job_inner(state, suppress)
<1>1. PICK m \in {"midpoll", "idle"} : Commit(s, 0, AbortTask(tasks, m))
  BY DEF CancelRunning
<1>2. /\ inbox' = inbox /\ slot' = slot /\ generation' = generation
      /\ ClientSends /\ state.running_job # None
  BY DEF CancelRunning
<1>3. Handled(s, 0, AbortTask(tasks, m))
  <2>1. CASE CancelAnswered(state)
    BY <2>1, StateFacts, CancelAdvances, AdvancedHandled
  <2>2. CASE ~CancelAnswered(state)
    <3>1. runner = 0
      BY <1>2, <2>2, UnansweredCancel DEF CancelAnswered
    <3>2. AbortTask(tasks, m) = tasks
      BY <3>1, AbortNothing
    <3>3. Handled(state, runner, tasks)
      BY <1>2, StateFacts, QueueKept
    <3>4. s = state
      BY <2>2, CancelUnanswered
    <3> QED
      BY <3>1, <3>2, <3>3, <3>4
  <2> QED
    BY <2>1, <2>2
<1> HIDE DEF s
<1> QED
  BY <1>1, <1>2, <1>3, SameInbox, ClientCount, HandlerStep

(* Removing listed jobs from the queue, with their outcomes recorded.       *)
LEMMA Removing ==
    ASSUME IInv, NEW listed \in SUBSET state.queued_jobs, NEW order \in SetToSeqs(listed)
    PROVE  LET r == record_outcomes(
                       [state EXCEPT !.queued_jobs = @ \ listed,
                                     !.queue = {j \in @ : j.id \notin {l.id : l \in listed}}],
                       [k \in DOMAIN order |-> [id |-> order[k].id, status |-> "Cancelled"]])
           IN  /\ Good(r) /\ Grows(state, r) /\ r.unloads = {}
               /\ r.running_job = state.running_job /\ r.shutting_down = state.shutting_down
<1> DEFINE ids == {l.id : l \in listed}
           e == [state EXCEPT !.queued_jobs = @ \ listed, !.queue = {j \in @ : j.id \notin ids}]
           log == [k \in DOMAIN order |-> [id |-> order[k].id, status |-> "Cancelled"]]
           r == record_outcomes(e, log)
<1>1. listed \subseteq state.queue /\ IsFiniteSet(listed)
  BY StateFacts, FiniteQueue
<1>2. order \in Seq(listed)
  BY <1>1, SetToSeqsType
<1>3. log \in Seq(Outcome)
  <2>1. DOMAIN order = 1 .. Len(order) /\ Len(order) \in Nat
        /\ \A k \in DOMAIN order : order[k] \in Job
    BY <1>1, <1>2, StateFacts
  <2>2. \A k \in DOMAIN order : [id |-> order[k].id, status |-> "Cancelled"] \in Outcome
    BY <2>1 DEF Outcome, Job
  <2>3. log \in [1 .. Len(order) -> Outcome]
    BY <2>1, <2>2
  <2> QED
    BY <2>1, <2>3, SeqDef
<1> HIDE DEF log
<1>4. {j \in state.queue : j.id \notin ids} = state.queue \ listed
  BY <1>1 DEF IInv, Good
<1>5. e = [state EXCEPT !.queued_jobs = state.queue \ listed, !.queue = state.queue \ listed]
  BY <1>4, StateFacts DEF QueueState
<1> HIDE DEF e
<1>6. /\ e \in QueueState /\ e.queue = state.queue \ listed /\ e.queued_jobs = e.queue
      /\ e.unloads = {} /\ e.running_job = state.running_job
      /\ e.job_counter = state.job_counter /\ e.shutting_down = state.shutting_down
  <2>1. state.queue \ listed \in SUBSET Job
    BY StateFacts
  <2> QED
    BY <1>5, <2>1, StateFacts DEF QueueState
<1>7. Good(e) /\ Grows(state, e)
  BY <1>6, StateFacts DEF Good, Grows
<1>8. Good(r) /\ Grows(e, r) /\ r = [e EXCEPT !.outcomes = r.outcomes]
  BY <1>3, <1>7, RecordOutcomes
<1> HIDE DEF r
<1>9. r.unloads = {} /\ r.running_job = e.running_job /\ r.shutting_down = e.shutting_down
  BY <1>6, <1>8 DEF QueueState
<1>10. Grows(state, r)
  BY <1>6, <1>7, <1>8, StateFacts, GrowsTransitive DEF Good
<1> QED
  BY <1>6, <1>8, <1>9, <1>10 DEF r, e, log

(* The debts of several databases scheduled, then the unload decided.       *)
LEMMA ScheduleAndUnload ==
    ASSUME NEW s, Good(s), NEW ds \in Seq(Dbs), s.shutting_down => ds = <<>>
    PROVE  LET t == maybe_unload_batch_model(schedule_maintenance(s, ds))
           IN  Good(t) /\ Grows(s, t) /\ (s.running_job # None => t.unloads = s.unloads)
<1> DEFINE p == schedule_maintenance(s, ds)
           t == maybe_unload_batch_model(p)
<1>1. Good(p) /\ Grows(s, p) /\ p.unloads = s.unloads
  BY ScheduleMaintenance
<1> HIDE DEF p
<1>2. Good(t) /\ Grows(p, t) /\ (p.running_job # None => t = p)
  BY <1>1, MaybeUnload
<1> HIDE DEF t
<1>3. Grows(s, t)
  BY <1>1, <1>2, GrowsTransitive DEF Good
<1>4. s.running_job # None => t.unloads = s.unloads
  BY <1>1, <1>2 DEF Grows
<1> QED
  BY <1>2, <1>3, <1>4 DEF p, t

LEMMA CancelQueuedStep ==
    ASSUME IInv, NEW listed \in SUBSET state.queued_jobs, NEW with_running \in BOOLEAN,
           NEW suppress \in BOOLEAN, CancelQueued(listed, with_running, suppress)
    PROVE  IInv'
<1> DEFINE Removed(order) ==
             record_outcomes(
                [state EXCEPT !.queued_jobs = @ \ listed,
                              !.queue = {j \in @ : j.id \notin {l.id : l \in listed}}],
                [k \in DOMAIN order |-> [id |-> order[k].id, status |-> "Cancelled"]])
           Cancelled(order) == IF with_running THEN cancel_running_job_inner(Removed(order), suppress)
                               ELSE Removed(order)
           Due(order) == {d \in {j.db : j \in listed} : ~suppress /\ MaintenanceDue(Cancelled(order), d)}
           Final(order, ds) == maybe_unload_batch_model(schedule_maintenance(Cancelled(order), ds))
<1>1. PICK order \in SetToSeqs(listed), m \in {"midpoll", "idle"} :
        \E ds \in SetToSeqs(Due(order)) :
           Commit(start_next_job(Final(order, ds), ~with_running /\ runner # 0),
                  IF with_running THEN 0 ELSE runner,
                  IF with_running THEN AbortTask(tasks, m) ELSE tasks)
  BY DEF CancelQueued
<1>2. PICK ds \in SetToSeqs(Due(order)) :
           Commit(start_next_job(Final(order, ds), ~with_running /\ runner # 0),
                  IF with_running THEN 0 ELSE runner,
                  IF with_running THEN AbortTask(tasks, m) ELSE tasks)
  BY <1>1
<1>3. /\ inbox' = inbox /\ slot' = slot /\ generation' = generation
      /\ ClientSends /\ (with_running => state.running_job # None)
  BY DEF CancelQueued
<1> DEFINE removed == Removed(order)
           cancelled == Cancelled(order)
           due == Due(order)
           final == Final(order, ds)
           s == start_next_job(final, ~with_running /\ runner # 0)
           run == IF with_running THEN 0 ELSE runner
           ts == IF with_running THEN AbortTask(tasks, m) ELSE tasks
<1>4. /\ Good(removed) /\ Grows(state, removed) /\ removed.unloads = {}
      /\ removed.running_job = state.running_job
  BY Removing
<1> HIDE DEF Removed
<1>5. Good(cancelled) /\ cancelled \in QueueState
  <2>1. CASE with_running /\ CancelAnswered(removed)
    BY <1>4, <2>1, CancelAdvances DEF Advanced, Good
  <2>2. CASE ~(with_running /\ CancelAnswered(removed))
    BY <1>4, <2>2, CancelUnanswered DEF Good
  <2> QED
    BY <2>1, <2>2
<1> HIDE DEF Cancelled
<1>6. ds \in Seq(Dbs) /\ (cancelled.shutting_down => ds = <<>>)
  <2>1. due \subseteq Dbs /\ IsFiniteSet(due)
    <3>1. due \subseteq Dbs
      BY StateFacts DEF Job
    <3> QED
      BY <3>1, DbsAssumption, FS_Subset
  <2>2. ds \in Seq(due)
    BY <2>1, SetToSeqsType
  <2>3. cancelled.shutting_down => due = {}
    BY DEF MaintenanceDue
  <2>4. due = {} => ds = <<>>
    BY <2>2
  <2> QED
    BY <2>1, <2>2, <2>3, <2>4
<1> HIDE DEF Due
<1>7. /\ Good(final) /\ Grows(cancelled, final)
      /\ cancelled.running_job # None => final.unloads = cancelled.unloads
  BY <1>5, <1>6, ScheduleAndUnload
<1> HIDE DEF Final
<1>8. Handled(s, run, ts)
  <2>1. CASE with_running /\ CancelAnswered(removed)
    <3>1. Advanced(cancelled)
      BY <1>4, <2>1, CancelAdvances DEF Cancelled
    <3>2. Advanced(final)
      BY <1>7, <3>1, GrowsAdvances
    <3>3. s = start_next_job(final, FALSE) /\ run = 0 /\ ts = AbortTask(tasks, m)
      BY <2>1
    <3> QED
      BY <3>2, <3>3, StartAdvances, AdvancedHandled
  <2>2. CASE ~(with_running /\ CancelAnswered(removed))
    <3>1. cancelled = removed
      BY <2>2, CancelUnanswered DEF Cancelled
    <3>2. Grows(state, final)
      BY <1>4, <1>5, <1>7, <3>1, StateFacts, GrowsTransitive DEF Good
    <3>3. state.running_job # None => final.unloads = {}
      BY <1>4, <1>7, <3>1
    <3>4. Handled(start_next_job(final, runner # 0), runner, tasks)
      BY <1>7, <3>2, <3>3, QueueEdited
    <3>5. CASE with_running
      <4>1. runner = 0
        BY <1>3, <1>4, <2>2, <3>5, UnansweredCancel DEF CancelAnswered
      <4>2. AbortTask(tasks, m) = tasks
        BY <4>1, AbortNothing
      <4>3. s = start_next_job(final, runner # 0) /\ run = runner /\ ts = tasks
        BY <3>5, <4>1, <4>2
      <4> QED
        BY <3>4, <4>3
    <3>6. CASE ~with_running
      BY <3>4, <3>6
    <3> QED
      BY <3>5, <3>6
  <2> QED
    BY <2>1, <2>2
<1>9. Commit(s, run, ts)
  BY <1>2
<1> HIDE DEF s, run, ts
<1> QED
  BY <1>3, <1>8, <1>9, SameInbox, ClientCount, HandlerStep

LEMMA ShutdownStep ==
    ASSUME IInv, Shutdown
    PROVE  IInv'
<1> DEFINE dropped == [state EXCEPT !.shutting_down = TRUE, !.queue = {}, !.queued_jobs = {}]
           cancelled == cancel_running_job_inner(dropped, TRUE)
           s == maybe_unload_batch_model(cancelled)
           run == IF state.running_job = None THEN runner ELSE 0
           Ts(m) == IF state.running_job = None THEN tasks ELSE AbortTask(tasks, m)
<1>1. PICK m \in {"midpoll", "idle"} : Commit(s, run, Ts(m))
  BY DEF Shutdown
<1>2. inbox' = inbox /\ slot' = slot /\ generation' = generation /\ requests' = requests
  BY DEF Shutdown
<1>3. /\ dropped \in QueueState /\ dropped.queue = {} /\ dropped.queued_jobs = {}
      /\ dropped.running_job = state.running_job /\ dropped.shutting_down
      /\ dropped.job_counter = state.job_counter /\ dropped.unloads = {}
  BY StateFacts DEF QueueState
<1> HIDE DEF dropped
<1>4. Good(dropped)
  BY <1>3, StateFacts DEF Good
<1>6. CASE CancelAnswered(dropped)
  <2>1. state.running_job # None /\ run = 0 /\ Ts(m) = AbortTask(tasks, m)
    BY <1>3, <1>6 DEF CancelAnswered
  <2>2. /\ Good(cancelled)
        /\ cancelled.running_job = None /\ cancelled.queue = {}
        /\ state.job_counter <= cancelled.job_counter
    BY <1>3, <1>4, <1>6, CancelInner DEF Good
  <2> HIDE DEF cancelled
  <2>3. Good(s) /\ s.running_job = None /\ s.queue = {} /\ cancelled.job_counter <= s.job_counter
    BY <2>2, MaybeUnload DEF Grows
  <2> HIDE DEF s
  <2>4. Advanced(s)
    <3>1. state.job_counter \in Nat /\ cancelled.job_counter \in Nat /\ s.job_counter \in Nat
      BY <2>2, <2>3, StateFacts DEF Good, QueueState
    <3> QED
      BY <2>2, <2>3, <3>1 DEF Advanced
  <2>5. Handled(s, run, Ts(m))
    BY <2>1, <2>3, <2>4, AdvancedHandled
  <2> QED
    BY <1>1, <1>2, <2>5, SameInbox, HandlerStep DEF IInv, TypeOK
<1>7. CASE ~CancelAnswered(dropped)
  <2>1. cancelled = dropped
    BY <1>7, CancelUnanswered
  <2>2. runner = 0
    BY <1>3, <1>7, NoJobNoRunner, UnansweredCancel DEF CancelAnswered
  <2>3. run = runner /\ Ts(m) = tasks
    BY <2>2, AbortNothing
  <2>4. /\ Good(s) /\ Grows(dropped, s) /\ s.queue = {}
        /\ state.running_job # None => s = dropped
    BY <1>3, <1>4, <2>1, MaybeUnload
  <2> HIDE DEF s
  <2>5. Handled(s, runner, tasks)
    <3>1. CASE state.running_job # None
      BY <1>3, <2>4, <3>1, StateFacts DEF Handled, Kept, QueueState
    <3>2. CASE state.running_job = None
      <4>1. s.running_job = None /\ state.job_counter <= s.job_counter
        BY <1>3, <2>4, <3>2 DEF Grows
      <4>2. Advanced(s)
        BY <2>4, <4>1 DEF Advanced
      <4> QED
        BY <2>2, <2>4, <4>2, AbortNothing, AdvancedHandled
    <3> QED
      BY <3>1, <3>2
  <2> QED
    BY <1>1, <1>2, <2>3, <2>5, SameInbox, HandlerStep DEF IInv, TypeOK
<1> QED
  BY <1>6, <1>7

-----------------------------------------------------------------------------
(* The messages of the runner and of the jobs.                             *)

LEMMA HeadType ==
    ASSUME IInv, inbox # <<>>
    PROVE  Head(inbox) \in Message /\ 1 \in DOMAIN inbox /\ Head(inbox) = inbox[1]
<1>1. inbox \in Seq(Message)
  BY DEF IInv, TypeOK
<1> QED
  BY <1>1

LEMMA RecordOwedStep ==
    ASSUME IInv, RecordOwed
    PROVE  IInv'
<1> DEFINE message == Head(inbox)
           s == IF state.running_job # None /\ state.running_job.type = "DbMaintenance"
                THEN state ELSE merge_owed(state, message.db, message.summary)
<1>1. /\ Commit(s, runner, tasks) /\ inbox # <<>> /\ message.kind = "RecordOwed"
      /\ inbox' = Tail(inbox) /\ slot' = slot /\ generation' = generation
      /\ requests' = requests
  BY DEF RecordOwed
<1>2. message.db \in Dbs /\ message.summary \in SUBSET Flags
  BY <1>1, HeadType DEF Message
<1>3. Good(s) /\ Grows(state, s) /\ s.unloads = {} /\ s.queue = state.queue
  <2>1. merge_owed(state, message.db, message.summary).queue = state.queue
    BY StateFacts DEF merge_owed, QueueState
  <2> QED
    BY <1>2, <2>1, StateFacts, MergeOwed
<1>4. Handled(s, runner, tasks)
  BY <1>3, NoJobNoRunner, QueueKept
<1>5. InboxLeft(s)
  BY <1>1, HeadConsumed
<1> HIDE DEF s
<1> QED
  BY <1>1, <1>4, <1>5, HandlerStep DEF IInv, TypeOK

LEMMA RunnerFinishedStep ==
    ASSUME IInv, RunnerFinished
    PROVE  IInv'
<1> DEFINE message == Head(inbox)
           result == message.result
           job == state.running_job
           idle == [state EXCEPT !.running_job = None]
           recorded == record_outcome(idle, message.id,
                                      IF result.success THEN "Completed" ELSE "Failed")
           owing0 == record_owed(recorded, job, result.summary)
           owing == record_batch_load(owing0, job, result)
           scheduled == maybe_schedule_maintenance(owing, job.db)
           boundary == maybe_unload_batch_model(scheduled)
           s == IF Tracked(job, message) THEN start_next_job(boundary, runner # 0) ELSE state
<1>1. /\ Commit(s, runner, tasks) /\ inbox # <<>> /\ message.kind = "RunnerFinished"
      /\ inbox' = Tail(inbox) /\ slot' = slot /\ generation' = generation
      /\ requests' = requests
  BY DEF RunnerFinished
<1>2. message.id \in Nat \ {0} /\ result \in JobResult /\ message.id # runner
  BY <1>1, HeadType DEF Message, IInv, InboxInv
<1>3. CASE ~Tracked(job, message)
  <2>1. s = state
    BY <1>3
  <2>2. Handled(state, runner, tasks)
    BY StateFacts, NoJobNoRunner, QueueKept
  <2>3. InboxLeft(state)
    BY <1>1, <1>3, HeadConsumed DEF Tracked
  <2> QED
    BY <1>1, <2>1, <2>2, <2>3, HandlerStep DEF IInv, TypeOK
<1>4. CASE Tracked(job, message)
  <2>1. /\ job # None /\ job.id = message.id /\ job \in Job /\ Shaped(job) /\ job.db \in Dbs
        /\ runner = 0
    BY <1>2, <1>4, StateFacts, UnansweredCancel DEF Tracked
  <2>2. Good(idle) /\ Advanced(idle)
    <3>1. /\ Good(idle) /\ idle.running_job = None /\ idle.queue = state.queue
          /\ idle.job_counter = state.job_counter
      BY StateFacts, EndRunning
    <3>2. state.job_counter \in Nat
      BY StateFacts DEF QueueState
    <3> QED
      BY <3>1, <3>2 DEF Advanced, Fresh
  <2> HIDE DEF idle
  <2>3. Good(recorded) /\ Advanced(recorded)
    BY <1>2, <2>2, RecordOutcome, GrowsAdvances
  <2> HIDE DEF recorded
  <2>4. Good(owing0) /\ Advanced(owing0)
    <3>1. result.summary \in {None} \cup SUBSET Flags
      BY <1>2 DEF JobResult
    <3> QED
      BY <2>1, <2>3, <3>1, RecordOwedOf, GrowsAdvances
  <2> HIDE DEF owing0
  <2>5. Good(owing) /\ Advanced(owing)
    BY <1>2, <2>1, <2>4, RecordLoad, GrowsAdvances
  <2> HIDE DEF owing
  <2>6. Good(scheduled) /\ Advanced(scheduled)
    BY <2>1, <2>5, MaybeScheduleMaintenance, GrowsAdvances
  <2> HIDE DEF scheduled
  <2>7. Advanced(boundary)
    BY <2>6, MaybeUnload, GrowsAdvances
  <2> HIDE DEF boundary
  <2>8. s = start_next_job(boundary, FALSE)
    BY <1>4, <2>1
  <2>9. Advanced(s) /\ Handled(s, runner, tasks)
    BY <2>1, <2>7, <2>8, StartAdvances, AdvancedHandled, AbortNothing
  <2> HIDE DEF s
  <2>10. InboxLeft(s)
    <3>1. ~(s.running_job = state.running_job /\ s.running_job # None)
      BY <2>9, RunningIsNotFresh DEF Advanced
    <3> QED
      BY <1>1, <3>1, HeadConsumed
  <2> QED
    BY <1>1, <2>9, <2>10, HandlerStep DEF IInv, TypeOK
<1> QED
  BY <1>3, <1>4

-----------------------------------------------------------------------------
(* The steps of the job tasks and of the unloads leave the actor alone.     *)

LEMMA StateKept ==
    ASSUME IInv, state' = state
    PROVE  /\ Good(state)' /\ state' \in QueueState
           /\ state'.unloads = {} /\ state'.pending_marks = {}
           /\ IdleMeansDrained'
           /\ \A id : StartedBefore(id)' <=> StartedBefore(id)
BY DEF IInv, Good, IdleMeansDrained, StartedBefore

LEMMA Appended ==
    ASSUME IInv, NEW message \in Message, inbox' = Append(inbox, message)
    PROVE  /\ inbox' \in Seq(Message)
           /\ \A k \in DOMAIN inbox' :
                 inbox'[k] = message \/ \E i \in DOMAIN inbox : inbox'[k] = inbox[i]
           /\ \A i \in DOMAIN inbox : \E k \in DOMAIN inbox' : inbox'[k] = inbox[i]
           /\ \E k \in DOMAIN inbox' : inbox'[k] = message
<1>1. inbox \in Seq(Message) /\ Len(inbox) \in Nat
  BY DEF IInv, TypeOK
<1>2. /\ inbox' \in Seq(Message) /\ Len(inbox') = Len(inbox) + 1
      /\ \A i \in 1 .. Len(inbox) : inbox'[i] = inbox[i]
      /\ inbox'[Len(inbox) + 1] = message
  BY <1>1, AppendProperties
<1>3. DOMAIN inbox = 1 .. Len(inbox) /\ DOMAIN inbox' = 1 .. Len(inbox) + 1
  BY <1>1, <1>2
<1> QED
  BY <1>1, <1>2, <1>3

(* A completion that follows the runner's forgetting of the job.           *)
LEMMA CompletionSent ==
    ASSUME IInv, NEW t \in tasks, NEW result \in JobResult, state' = state,
           tasks' = tasks \ {t},
           runner' = IF runner = t.job.id THEN 0 ELSE runner,
           inbox' = Append(inbox, [kind |-> "RunnerFinished", id |-> t.job.id, result |-> result])
    PROVE  /\ inbox' \in Seq(Message) /\ runner' \in Nat
           /\ RunnerAgreement' /\ InboxInv' /\ TasksInv'
<1> DEFINE message == [kind |-> "RunnerFinished", id |-> t.job.id, result |-> result]
<1>1. t \in Task /\ t.job.id \in Nat \ {0} /\ runner \in Nat /\ tasks \subseteq Task
  BY DEF IInv, TypeOK, Task, Job
<1>2. /\ message \in Message /\ message.kind = "RunnerFinished" /\ message.id = t.job.id
      /\ inbox' = Append(inbox, message)
  BY <1>1 DEF Message
<1> HIDE DEF message
<1>3. /\ inbox' \in Seq(Message)
      /\ \A k \in DOMAIN inbox' :
            inbox'[k] = message \/ \E i \in DOMAIN inbox : inbox'[k] = inbox[i]
      /\ \A i \in DOMAIN inbox : \E k \in DOMAIN inbox' : inbox'[k] = inbox[i]
      /\ \E k \in DOMAIN inbox' : inbox'[k] = message
  BY <1>2, Appended
<1>4. \A i \in DOMAIN inbox : inbox[i].kind = "RunnerFinished" => inbox[i].id # 0
  BY DEF IInv, TypeOK, Message
<1>5. RunnerAgreement'
  BY <1>1, <1>2, <1>3 DEF RunnerAgreement, IInv
<1>6. InboxInv'
  BY <1>1, <1>2, <1>3, <1>4 DEF InboxInv, TasksInv, IInv, StartedBefore
<1>7. TasksInv'
  <2>1. \A a \in tasks' : a \in tasks /\ a.job.id # t.job.id
    BY DEF IInv, TasksInv
  <2> QED
    BY <2>1 DEF TasksInv, IInv, StartedBefore, Live, Shaped
<1> QED
  BY <1>1, <1>3, <1>5, <1>6, <1>7

LEMMA CompletedStep ==
    ASSUME IInv, NEW t \in tasks, JobCompleted(t)
    PROVE  IInv'
<1>1. /\ state' = state /\ unloads' = unloads /\ marks' = marks /\ slot' = slot
      /\ generation' = generation /\ requests' = requests /\ tasks' = tasks \ {t}
      /\ t.phase = "done"
  BY DEF JobCompleted
<1>2. t.result \in JobResult
  BY DEF IInv, TypeOK, Task
<1>3. inbox' \in Seq(Message) /\ runner' \in Nat /\ RunnerAgreement' /\ InboxInv' /\ TasksInv'
  BY <1>1, <1>2, CompletionSent DEF JobCompleted
<1>4. TypeOK'
  BY <1>1, <1>3, StateKept DEF TypeOK, IInv
<1>5. SlotOwned'
  BY <1>1 DEF SlotOwned, IInv
<1>6. UnloadInv'
  BY <1>1 DEF UnloadInv, IInv, Live
<1> QED
  BY <1>1, <1>3, <1>4, <1>5, <1>6, StateKept DEF IInv

LEMMA AbortStep ==
    ASSUME IInv, NEW t \in tasks, AbortLands(t)
    PROVE  IInv'
<1>1. /\ state' = state /\ unloads' = unloads /\ marks' = marks
      /\ slot' = IF t.phase = "loading" THEN "free" ELSE slot
      /\ generation' = generation /\ requests' = requests /\ tasks' = tasks \ {t}
  BY DEF AbortLands
<1>2. NoResult \in JobResult
  BY DEF NoResult, JobResult
<1>3. inbox' \in Seq(Message) /\ runner' \in Nat /\ RunnerAgreement' /\ InboxInv' /\ TasksInv'
  BY <1>1, <1>2, CompletionSent DEF AbortLands
<1>4. TypeOK'
  BY <1>1, <1>3, StateKept DEF TypeOK, IInv
<1>5. SlotOwned'
  BY <1>1 DEF SlotOwned, IInv
<1>6. UnloadInv'
  BY <1>1 DEF UnloadInv, IInv, Live
<1> QED
  BY <1>1, <1>3, <1>4, <1>5, <1>6, StateKept DEF IInv

(* A task that moves to another phase.                                     *)
LEMMA TaskMoves ==
    ASSUME IInv, NEW t \in tasks, NEW u \in Task, Replace(t, u), u.job = t.job,
           Live(u) => Live(t), state' = state, runner' = runner
    PROVE  tasks' \subseteq Task /\ TasksInv'
<1>1. tasks' = (tasks \ {t}) \cup {u} /\ tasks \subseteq Task
  BY DEF Replace, IInv, TypeOK
<1> QED
  BY <1>1 DEF IInv, TasksInv, StartedBefore, Live, Shaped

LEMMA SteppedTask ==
    ASSUME IInv, NEW t \in tasks, NEW p \in {"resynced", "loading", "loaded"}
    PROVE  LET u == [Stepped(t) EXCEPT !.phase = p]
           IN  /\ u \in Task /\ u.job = t.job /\ u.phase = p
               /\ u.abort = "none" => t.abort = "none"
<1>1. t \in Task
  BY DEF IInv, TypeOK
<1> DEFINE a == IF t.abort = "midpoll" THEN "idle" ELSE t.abort
           v == [t EXCEPT !.abort = a]
<1>2. Stepped(t) = v
  BY <1>1 DEF Stepped, Task
<1>3. a \in {"none", "midpoll", "idle"} /\ (a = "none" => t.abort = "none")
  BY <1>1 DEF Task
<1> HIDE DEF a
<1>4. v \in Task /\ v.job = t.job /\ v.abort = a
  BY <1>1, <1>3 DEF Task
<1> HIDE DEF v
<1> QED
  BY <1>2, <1>3, <1>4 DEF Task

LEMMA ReportStep ==
    ASSUME IInv, NEW t \in tasks, ReportResync(t)
    PROVE  IInv'
<1> DEFINE u == [Stepped(t) EXCEPT !.phase = "resynced"]
<1>1. /\ state' = state /\ runner' = runner /\ unloads' = unloads /\ marks' = marks
      /\ slot' = slot /\ generation' = generation /\ requests' = requests
      /\ Replace(t, u) /\ t.phase = "start"
  BY DEF ReportResync
<1>2. u \in Task /\ u.job = t.job /\ u.phase = "resynced" /\ (u.abort = "none" => t.abort = "none")
  BY SteppedTask
<1> HIDE DEF u
<1>3. tasks' \subseteq Task /\ TasksInv' /\ tasks' = (tasks \ {t}) \cup {u}
  BY <1>1, <1>2, TaskMoves DEF Live, Replace
<1>4. inbox' \in Seq(Message) /\ RunnerAgreement' /\ InboxInv'
  <2>1. PICK summary \in Reports :
          inbox' = IF summary = {} THEN inbox
                   ELSE Append(inbox, [kind |-> "RecordOwed", db |-> t.job.db, summary |-> summary])
    BY DEF ReportResync
  <2>2. CASE summary = {}
    BY <1>1, <2>1, <2>2 DEF IInv, TypeOK, RunnerAgreement, InboxInv, StartedBefore
  <2>3. CASE summary # {}
    <3> DEFINE message == [kind |-> "RecordOwed", db |-> t.job.db, summary |-> summary]
    <3>1. t.job.db \in Dbs /\ summary \in SUBSET Flags
      BY ReportsAssumption DEF IInv, TypeOK, Task, Job
    <3>2. message \in Message /\ message.kind = "RecordOwed" /\ inbox' = Append(inbox, message)
      BY <2>1, <2>3, <3>1 DEF Message
    <3> HIDE DEF message
    <3>3. /\ inbox' \in Seq(Message)
          /\ \A k \in DOMAIN inbox' :
                inbox'[k] = message \/ \E i \in DOMAIN inbox : inbox'[k] = inbox[i]
          /\ \A i \in DOMAIN inbox : \E k \in DOMAIN inbox' : inbox'[k] = inbox[i]
      BY <3>2, Appended
    <3>4. RunnerAgreement'
      BY <1>1, <3>3 DEF IInv, RunnerAgreement
    <3>5. InboxInv'
      BY <1>1, <3>2, <3>3 DEF IInv, InboxInv, StartedBefore
    <3> QED
      BY <3>3, <3>4, <3>5
  <2> QED
    BY <2>2, <2>3
<1>5. TypeOK'
  BY <1>1, <1>3, <1>4, StateKept DEF TypeOK, IInv
<1>6. SlotOwned'
  BY <1>1, <1>2, <1>3 DEF SlotOwned, IInv
<1>7. UnloadInv'
  BY <1>1, <1>2, <1>3 DEF UnloadInv, IInv, Live
<1> QED
  BY <1>1, <1>3, <1>4, <1>5, <1>6, <1>7, StateKept DEF IInv

LEMMA LoadStep ==
    ASSUME IInv, NEW t \in tasks, BeginBatchLoad(t)
    PROVE  IInv'
<1> DEFINE u == [Stepped(t) EXCEPT !.phase = "loading"]
<1>1. /\ state' = state /\ runner' = runner /\ inbox' = inbox /\ unloads' = unloads
      /\ marks' = marks /\ requests' = requests /\ Replace(t, u)
      /\ slot = "free" /\ slot' = "load" /\ generation' = generation + 1
      /\ t.phase \in {"start", "resynced"}
  BY DEF BeginBatchLoad
<1>2. u \in Task /\ u.job = t.job /\ u.phase = "loading" /\ (u.abort = "none" => t.abort = "none")
  BY SteppedTask
<1> HIDE DEF u
<1>3. tasks' \subseteq Task /\ TasksInv' /\ tasks' = (tasks \ {t}) \cup {u}
  BY <1>1, <1>2, TaskMoves DEF Live, Replace
<1>4. RunnerAgreement' /\ InboxInv'
  BY <1>1 DEF IInv, RunnerAgreement, InboxInv, StartedBefore
<1>5. TypeOK'
  BY <1>1, <1>3, StateKept DEF TypeOK, IInv
<1>6. SlotOwned'
  BY <1>1, <1>2, <1>3 DEF SlotOwned, IInv
<1>7. UnloadInv'
  <2>1. \A v \in unloads : v.phase # "calling" /\ v.generation <= generation
    BY <1>1 DEF IInv, SlotOwned, UnloadInv
  <2>2. \A v \in unloads : v.generation \in Nat /\ generation \in Nat
    BY DEF IInv, TypeOK, Unload
  <2>3. \A v \in unloads : v.generation < generation + 1 /\ v.generation <= generation + 1
    BY <2>1, <2>2
  <2> QED
    BY <1>1, <2>1, <2>3 DEF UnloadInv
<1> QED
  BY <1>1, <1>3, <1>4, <1>5, <1>6, <1>7, StateKept DEF IInv

LEMMA LoadedStep ==
    ASSUME IInv, NEW t \in tasks, BatchLoaded(t)
    PROVE  IInv'
<1> DEFINE u == [Stepped(t) EXCEPT !.phase = "loaded"]
<1>1. /\ state' = state /\ runner' = runner /\ inbox' = inbox /\ unloads' = unloads
      /\ marks' = marks /\ requests' = requests /\ Replace(t, u)
      /\ slot' = "free" /\ generation' = generation /\ t.phase = "loading"
  BY DEF BatchLoaded
<1>2. u \in Task /\ u.job = t.job /\ u.phase = "loaded" /\ (u.abort = "none" => t.abort = "none")
  BY SteppedTask
<1> HIDE DEF u
<1>3. tasks' \subseteq Task /\ TasksInv' /\ tasks' = (tasks \ {t}) \cup {u}
  BY <1>1, <1>2, TaskMoves DEF Live, Replace
<1>4. RunnerAgreement' /\ InboxInv'
  BY <1>1 DEF IInv, RunnerAgreement, InboxInv, StartedBefore
<1>5. TypeOK'
  BY <1>1, <1>3, StateKept DEF TypeOK, IInv
<1>6. SlotOwned'
  BY <1>1, <1>2, <1>3 DEF SlotOwned, IInv
<1>7. UnloadInv'
  BY <1>1, <1>2, <1>3 DEF UnloadInv, IInv, Live
<1> QED
  BY <1>1, <1>3, <1>4, <1>5, <1>6, <1>7, StateKept DEF IInv

LEMMA EndStep ==
    ASSUME IInv, NEW t \in tasks, JobEnds(t)
    PROVE  IInv'
<1>1. /\ state' = state /\ runner' = runner /\ inbox' = inbox /\ unloads' = unloads
      /\ marks' = marks /\ requests' = requests /\ generation' = generation
      /\ slot' = IF t.phase = "loading" THEN "free" ELSE slot
  BY DEF JobEnds
<1>2. PICK result \in Results(t) : Replace(t, [t EXCEPT !.phase = "done", !.result = result])
  BY DEF JobEnds
<1>3. t \in Task /\ Shaped(t.job)
  BY DEF IInv, TypeOK, TasksInv
<1>4. result \in JobResult
  <2>1. NoResult \in JobResult
    BY DEF NoResult, JobResult
  <2>2. CASE result = NoResult
    BY <2>1, <2>2
  <2>3. CASE result # NoResult
    <3>1. \A s \in Reports : s \in SUBSET Flags
      BY ReportsAssumption
    <3> DEFINE Ok(s, m) == [success |-> TRUE, summary |-> s, loaded_model |-> m]
    <3>2. \A s \in SUBSET Flags, m \in Setters \cup {None} : Ok(s, m) \in JobResult
      BY DEF JobResult
    <3>3. CASE t.job.type = "DbMaintenance"
      <4>1. result = Ok({}, None)
        BY <2>3, <3>3 DEF Results
      <4> QED
        BY <3>2, <4>1
    <3>4. CASE t.job.type = "DataExtraction"
      <4>1. t.phase # "loading" /\ \E s \in Reports :
                result = Ok(s, IF t.phase = "loaded" THEN t.job.metadata ELSE None)
        BY <2>3, <3>4 DEF Results
      <4>2. t.job.metadata \in Setters
        BY <1>3, <3>4 DEF Shaped
      <4> HIDE DEF Ok
      <4> QED
        BY <3>1, <3>2, <4>1, <4>2
    <3>5. CASE t.job.type # "DbMaintenance" /\ t.job.type # "DataExtraction"
      <4>1. \E s \in Reports : result = Ok(s, None)
        BY <2>3, <3>5 DEF Results
      <4> HIDE DEF Ok
      <4> QED
        BY <3>1, <3>2, <4>1
    <3> QED
      BY <3>3, <3>4, <3>5
  <2> QED
    BY <2>2, <2>3
<1> DEFINE u == [t EXCEPT !.phase = "done", !.result = result]
<1>5. u \in Task /\ u.job = t.job /\ u.phase = "done"
  BY <1>3, <1>4 DEF Task
<1>6. Replace(t, u)
  BY <1>2
<1> HIDE DEF u
<1>7. tasks' \subseteq Task /\ TasksInv' /\ tasks' = (tasks \ {t}) \cup {u}
  BY <1>1, <1>5, <1>6, TaskMoves DEF Live, Replace
<1>8. RunnerAgreement' /\ InboxInv'
  BY <1>1 DEF IInv, RunnerAgreement, InboxInv, StartedBefore
<1>9. TypeOK'
  BY <1>1, <1>7, StateKept DEF TypeOK, IInv
<1>10. SlotOwned'
  BY <1>1, <1>5, <1>7 DEF SlotOwned, IInv
<1>11. UnloadInv'
  BY <1>1, <1>5, <1>7 DEF UnloadInv, IInv, Live
<1> QED
  BY <1>1, <1>7, <1>8, <1>9, <1>10, <1>11, StateKept DEF IInv

LEMMA UnloadStepInv ==
    ASSUME IInv, NEW u \in unloads, UnloadStep(u)
    PROVE  IInv'
<1>1. /\ state' = state /\ runner' = runner /\ inbox' = inbox /\ tasks' = tasks
      /\ marks' = marks /\ requests' = requests /\ generation' = generation
  BY DEF UnloadStep, UnloadLocks, UnloadEnds, UnloadLost
<1>2. RunnerAgreement' /\ InboxInv' /\ TasksInv'
  BY <1>1 DEF IInv, RunnerAgreement, InboxInv, TasksInv, StartedBefore
<1>3. u \in Unload
  BY DEF IInv, TypeOK
<1>4. unloads' \subseteq Unload /\ slot' \in {"free", "load", "unload"} /\ SlotOwned' /\ UnloadInv'
  <2>1. CASE unloads' = unloads \ {u} /\ slot' = IF u.phase = "calling" THEN "free" ELSE slot
    <3>1. unloads' \subseteq Unload /\ slot' \in {"free", "load", "unload"}
      BY <2>1 DEF IInv, TypeOK
    <3>2. SlotOwned'
      BY <1>1, <2>1 DEF IInv, SlotOwned
    <3>3. UnloadInv'
      BY <1>1, <2>1 DEF IInv, UnloadInv
    <3> QED
      BY <3>1, <3>2, <3>3
  <2>2. CASE UnloadLocks(u) /\ batch_unload_is_current(u)
    <3> DEFINE v == [u EXCEPT !.phase = "calling"]
    <3>1. /\ unloads' = (unloads \ {u}) \cup {v} /\ slot = "free" /\ slot' = "unload"
          /\ u.generation = generation
      BY <2>2 DEF UnloadLocks, batch_unload_is_current
    <3>2. v \in Unload /\ v.phase = "calling" /\ v.generation = u.generation
      BY <1>3 DEF Unload
    <3> HIDE DEF v
    <3>3. unloads' \subseteq Unload
      BY <3>1, <3>2 DEF IInv, TypeOK
    <3>4. SlotOwned'
      BY <1>1, <3>1, <3>2 DEF IInv, SlotOwned
    <3>5. UnloadInv'
      BY <1>1, <3>1, <3>2 DEF IInv, UnloadInv
    <3> QED
      BY <3>1, <3>3, <3>4, <3>5
  <2> QED
    BY <2>1, <2>2 DEF UnloadStep, UnloadLocks, UnloadEnds, UnloadLost
<1>5. TypeOK'
  BY <1>1, <1>4, StateKept DEF TypeOK, IInv
<1> QED
  BY <1>1, <1>2, <1>4, <1>5, StateKept DEF IInv

-----------------------------------------------------------------------------
LEMMA InitInv ==
    ASSUME Init
    PROVE  IInv
<1>1. /\ state.queue = {} /\ state.queued_jobs = {} /\ state.running_job = None
      /\ state.unloads = {} /\ state.pending_marks = {} /\ state.job_counter = 0
  BY DEF Init
<1>2. TypeOK
  BY BoundsAssumption DEF Init, TypeOK, QueueState
<1>3. Good(state)
  BY <1>1, <1>2 DEF Good, TypeOK
<1>4. RunnerAgreement /\ IdleMeansDrained
  BY <1>1 DEF Init, RunnerAgreement, IdleMeansDrained
<1>5. SlotOwned /\ TasksInv /\ InboxInv /\ UnloadInv
  BY DEF Init, SlotOwned, TasksInv, InboxInv, UnloadInv
<1> QED
  BY <1>1, <1>2, <1>3, <1>4, <1>5 DEF IInv

LEMMA NextInv ==
    ASSUME IInv, [Next]_vars
    PROVE  IInv'
<1>1. CASE ClientStep
  BY <1>1, EnqueueStep, EnqueueBatchStep, EnqueueMaintenanceStep, CancelRunningStep,
     CancelQueuedStep, ShutdownStep DEF ClientStep
<1>2. CASE RunnerFinished
  BY <1>2, RunnerFinishedStep
<1>3. CASE RecordOwed
  BY <1>3, RecordOwedStep
<1>4. CASE \E t \in tasks : TaskStep(t)
  BY <1>4, ReportStep, LoadStep, LoadedStep, EndStep, AbortStep, CompletedStep DEF TaskStep
<1>5. CASE \E u \in unloads : UnloadStep(u)
  BY <1>5, UnloadStepInv
<1>6. CASE UNCHANGED vars
  <2>1. /\ state' = state /\ inbox' = inbox /\ runner' = runner /\ tasks' = tasks
        /\ unloads' = unloads /\ marks' = marks /\ slot' = slot
        /\ generation' = generation /\ requests' = requests
    BY <1>6 DEF vars
  <2>2. TypeOK' /\ RunnerAgreement' /\ SlotOwned'
    BY <2>1 DEF IInv, TypeOK, RunnerAgreement, SlotOwned
  <2>3. TasksInv' /\ InboxInv' /\ UnloadInv'
    BY <2>1 DEF IInv, TasksInv, InboxInv, UnloadInv, StartedBefore
  <2> QED
    BY <2>1, <2>2, <2>3, StateKept DEF IInv
<1> QED
  BY <1>1, <1>2, <1>3, <1>4, <1>5, <1>6 DEF Next

(* The inductive invariant holds in every reachable state.                 *)
THEOREM Invariance == Spec => []IInv
<1>1. Init => IInv
  BY InitInv
<1>2. IInv /\ [Next]_vars => IInv'
  BY NextInv
<1> QED
  BY <1>1, <1>2, PTL DEF Spec

(* Every variable keeps its type, whatever clients, jobs and the runner do. *)
THEOREM TypeCorrect == Spec => []TypeOK
<1>1. IInv => TypeOK
  BY DEF IInv
<1> QED
  BY <1>1, Invariance, PTL

(* The queue that start_next_job pops and the map that CancelQueued looks   *)
(* up never diverge.                                                        *)
THEOREM MirrorHolds == Spec => []QueueMirror
<1>1. IInv => QueueMirror
  BY DEF IInv, Good, QueueMirror
<1> QED
  BY <1>1, Invariance, PTL

(* The runner's job is the queue's job: RunJob is never rejected, and a job *)
(* the queue waits for has its completion coming.                           *)
THEOREM RunnerAgrees == Spec => []RunnerAgreement
<1>1. IInv => RunnerAgreement
  BY DEF IInv
<1> QED
  BY <1>1, Invariance, PTL

(* No handler leaves work in the queue with nothing running.                *)
THEOREM NeverStranded == Spec => []IdleMeansDrained
<1>1. IInv => IdleMeansDrained
  BY DEF IInv
<1> QED
  BY <1>1, Invariance, PTL

(* The batch slot is held by one task or by one unload, never by a task     *)
(* that is gone.                                                            *)
THEOREM SlotIsOwned == Spec => []SlotOwned
<1>1. IInv => SlotOwned
  BY DEF IInv
<1> QED
  BY <1>1, Invariance, PTL

(* The generation check makes a detached unload harmless: it never calls    *)
(* the inference server while a live job has the model loaded.              *)
THEOREM UnloadsAreSafe == Spec => []UnloadSafe
<1>1. IInv => UnloadSafe
  <2> SUFFICES ASSUME IInv, NEW u \in unloads, NEW t \in tasks, u.phase = "calling",
                      t.abort = "none", t.phase \in {"loading", "loaded"}
               PROVE  FALSE
    BY DEF UnloadSafe
  <2>1. Live(t) /\ u.generation = generation /\ u.generation < generation
    BY DEF IInv, UnloadInv, Live
  <2>2. generation \in Nat
    BY DEF IInv, TypeOK
  <2> QED
    BY <2>1, <2>2
<1> QED
  BY <1>1, Invariance, PTL

(* Every message finds the queue, its map and the runner in agreement, for  *)
(* any clients, crons, cancellations and completions.                       *)
THEOREM QueueAndRunnerAlwaysAgree == Spec => []QueueAndRunnerAgree
<1>1. QueueMirror /\ RunnerAgreement => QueueAndRunnerAgree
  BY DEF QueueAndRunnerAgree
<1> QED
  BY <1>1, MirrorHolds, RunnerAgrees, PTL

(* No abort, unload or late reply leaves the slot locked, and none takes    *)
(* the model from the job that has loaded it.                               *)
THEOREM BatchSlotIsAlwaysSafe == Spec => []BatchSlotIsSafe
<1>1. SlotOwned /\ UnloadSafe => BatchSlotIsSafe
  BY DEF BatchSlotIsSafe
<1> QED
  BY <1>1, SlotIsOwned, UnloadsAreSafe, PTL

-----------------------------------------------------------------------------
(* Debts: what the functions on the state do to the owed flags, to the     *)
(* flags that the maintenance jobs carry, to the marks and to the tags.    *)

LEMMA FlagCarried ==
    ASSUME NEW S, NEW d, NEW f
    PROVE  f \in MaintenanceFlags(S, d) <=>
              \E j \in S : IsMaintenance(j, d) /\ f \in from_metadata(j.metadata)
BY Zenon DEF MaintenanceFlags

(* The metadata of a maintenance job gives back the flags it was made of.  *)
LEMMA MetadataReadsBack ==
    ASSUME NEW flags \in SUBSET Flags
    PROVE  from_metadata(to_metadata(flags)) = flags
<1>1. \A f, g \in Flags : FlagName[f] = FlagName[g] => f = g
  BY DEF Flags, FlagName
<1>2. \A f \in Flags : FlagName[f] \in to_metadata(flags) <=> f \in flags
  BY <1>1 DEF to_metadata
<1> QED
  BY <1>2 DEF from_metadata

(* An owed flag stays owed or goes into a maintenance job.                 *)
KeepsDebts(s, t) ==
    \A d \in Dbs : s.owed[d] \cup MaintenanceFlags(ActiveJobs(s), d)
                      \subseteq t.owed[d] \cup MaintenanceFlags(ActiveJobs(t), d)

(* No flag is owed or queued that was not before.                          *)
MakesNoDebt(s, t) ==
    \A d \in Dbs : t.owed[d] \cup MaintenanceFlags(t.queue, d)
                      \subseteq s.owed[d] \cup MaintenanceFlags(s.queue, d)

(* A tags flag that is owed and was not before is going to be marked.      *)
MarksTags(s, t) ==
    \A d \in Dbs : "tags" \in t.owed[d] =>
        d \in t.pending_marks \/ ("tags" \in s.owed[d] /\ d \notin s.pending_marks)

(* A job that was not there before carries no tag.                         *)
TagsFrom(s, t) ==
    \A j \in ActiveJobs(t) : j.tag # None =>
        \E k \in ActiveJobs(s) : k.id = j.id /\ k.tag = j.tag

Honest(s, t) == KeepsDebts(s, t) /\ MarksTags(s, t) /\ TagsFrom(s, t)

LEMMA HonestTransitive ==
    ASSUME NEW s, NEW t, NEW u, Honest(s, t), Honest(t, u)
    PROVE  Honest(s, u)
<1>1. KeepsDebts(s, u)
  BY DEF Honest, KeepsDebts
<1>2. MarksTags(s, u)
  BY DEF Honest, MarksTags
<1>3. TagsFrom(s, u)
  <2> SUFFICES ASSUME NEW j \in ActiveJobs(u), j.tag # None
               PROVE  \E k \in ActiveJobs(s) : k.id = j.id /\ k.tag = j.tag
    BY DEF TagsFrom
  <2>1. PICK k \in ActiveJobs(t) : k.id = j.id /\ k.tag = j.tag
    BY DEF Honest, TagsFrom
  <2>2. PICK i \in ActiveJobs(s) : i.id = k.id /\ i.tag = k.tag
    BY <2>1 DEF Honest, TagsFrom
  <2> QED
    BY <2>1, <2>2
<1> QED
  BY <1>1, <1>2, <1>3 DEF Honest

LEMMA NoDebtTransitive ==
    ASSUME NEW s, NEW t, NEW u, MakesNoDebt(s, t), MakesNoDebt(t, u)
    PROVE  MakesNoDebt(s, u)
BY DEF MakesNoDebt

(* The functions that touch neither debts nor jobs.                        *)
SameDebts(s, t) ==
    /\ t.owed = s.owed /\ t.pending_marks = s.pending_marks
    /\ t.queue = s.queue /\ t.running_job = s.running_job

LEMMA SameDebtsHonest ==
    ASSUME NEW s, NEW t, SameDebts(s, t)
    PROVE  Honest(s, t) /\ MakesNoDebt(s, t)
<1>1. ActiveJobs(t) = ActiveJobs(s)
  BY DEF ActiveJobs, SameDebts
<1>2. KeepsDebts(s, t) /\ MakesNoDebt(s, t)
  BY <1>1 DEF KeepsDebts, MakesNoDebt, SameDebts
<1>3. MarksTags(s, t)
  BY DEF MarksTags, SameDebts
<1>4. TagsFrom(s, t)
  BY <1>1 DEF TagsFrom
<1> QED
  BY <1>2, <1>3, <1>4 DEF Honest

LEMMA RecordOutcomesSame ==
    ASSUME NEW s \in QueueState, NEW log
    PROVE  SameDebts(s, record_outcomes(s, log))
BY DEF SameDebts, record_outcomes, QueueState

LEMMA LoadsSame ==
    ASSUME NEW s \in QueueState, NEW job, NEW result
    PROVE  /\ SameDebts(s, record_unreported_batch_load(s, job))
           /\ SameDebts(s, record_batch_load(s, job, result))
           /\ SameDebts(s, maybe_unload_batch_model(s))
BY DEF SameDebts, record_unreported_batch_load, record_batch_load, maybe_unload_batch_model,
       QueueState

(* The front of the queue stays an active job when it starts.              *)
LEMMA StartHonest ==
    ASSUME NEW s, Good(s), NEW busy \in BOOLEAN, s.running_job = None => ~busy
    PROVE  LET t == start_next_job(s, busy)
           IN  Honest(s, t) /\ MakesNoDebt(s, t)
<1> DEFINE t == start_next_job(s, busy)
           job == CHOOSE j \in s.queue : IsFront(s.queue, j)
<1>1. CASE s.shutting_down \/ s.running_job # None \/ s.queue = {}
  <2>1. t = s
    BY <1>1, StartNothing
  <2>2. SameDebts(s, s)
    BY DEF SameDebts
  <2> QED
    BY <2>1, <2>2, SameDebtsHonest
<1>2. CASE ~(s.shutting_down \/ s.running_job # None \/ s.queue = {})
  <2>1. s \in QueueState /\ s.queue \in SUBSET Job
    BY DEF Good, QueueState
  <2>2. job \in s.queue
    BY <1>2, <2>1, FrontExists
  <2>3. job \in Job /\ job # None
    BY <2>1, <2>2, NoneAssumption
  <2> HIDE DEF job
  <2>4. t = [s EXCEPT !.queue = s.queue \ {job},
                      !.queued_jobs = {k \in s.queued_jobs : k.id # job.id},
                      !.running_job = job]
    BY <1>2, <2>1 DEF start_next_job, job, QueueState
  <2>5. /\ t.owed = s.owed /\ t.pending_marks = s.pending_marks
        /\ t.queue = s.queue \ {job} /\ t.running_job = job
    BY <2>1, <2>4 DEF QueueState
  <2> HIDE DEF t
  <2>6. ActiveJobs(t) = ActiveJobs(s)
    BY <1>2, <2>2, <2>3, <2>5 DEF ActiveJobs
  <2>7. KeepsDebts(s, t)
    BY <2>5, <2>6 DEF KeepsDebts
  <2>8. MarksTags(s, t)
    BY <2>5 DEF MarksTags
  <2>9. TagsFrom(s, t)
    BY <2>6 DEF TagsFrom
  <2>10. MakesNoDebt(s, t)
    <3>1. \A d, f : f \in MaintenanceFlags(t.queue, d) => f \in MaintenanceFlags(s.queue, d)
      BY <2>5, FlagCarried
    <3> QED
      BY <2>5, <3>1 DEF MakesNoDebt
  <2> QED
    BY <2>7, <2>8, <2>9, <2>10 DEF Honest, t
<1> QED
  BY <1>1, <1>2

LEMMA MergeHonest ==
    ASSUME NEW s, Good(s), NEW d \in Dbs, NEW summary \in SUBSET Flags
    PROVE  Honest(s, merge_owed(s, d, summary))
<1> DEFINE t == merge_owed(s, d, summary)
           merged == s.owed[d] \cup summary \cup (IF "deleted" \in summary THEN {"tags"} ELSE {})
           dirty == "tags" \in merged /\ "tags" \notin s.owed[d]
           pending == IF dirty THEN s.pending_marks \cup {d} ELSE s.pending_marks
<1>1. s \in QueueState /\ s.owed \in [Dbs -> SUBSET Flags]
  BY DEF Good, QueueState
<1>2. t = [s EXCEPT !.owed = [s.owed EXCEPT ![d] = merged], !.pending_marks = pending]
  BY <1>1 DEF merge_owed, QueueState
<1>3. s.owed[d] \subseteq merged /\ ("tags" \in merged => "tags" \in s.owed[d] \/ d \in pending)
      /\ s.pending_marks \subseteq pending /\ \A e \in pending : e # d => e \in s.pending_marks
      /\ ("tags" \in s.owed[d] => pending = s.pending_marks)
  OBVIOUS
<1> HIDE DEF merged, pending, t
<1>4. /\ t.owed = [s.owed EXCEPT ![d] = merged] /\ t.pending_marks = pending
      /\ t.queue = s.queue /\ t.running_job = s.running_job
  BY <1>1, <1>2 DEF QueueState
<1>5. t.owed[d] = merged /\ \A e \in Dbs : e # d => t.owed[e] = s.owed[e]
  BY <1>1, <1>4
<1>6. ActiveJobs(t) = ActiveJobs(s)
  BY <1>4 DEF ActiveJobs
<1>7. KeepsDebts(s, t)
  <2> SUFFICES ASSUME NEW e \in Dbs
               PROVE  s.owed[e] \cup MaintenanceFlags(ActiveJobs(s), e)
                        \subseteq t.owed[e] \cup MaintenanceFlags(ActiveJobs(t), e)
    BY DEF KeepsDebts
  <2>1. s.owed[e] \subseteq t.owed[e]
    BY <1>3, <1>5
  <2> QED
    BY <1>6, <2>1
<1>8. MarksTags(s, t)
  BY <1>3, <1>4, <1>5 DEF MarksTags
<1>9. TagsFrom(s, t)
  BY <1>6 DEF TagsFrom
<1> QED
  BY <1>7, <1>8, <1>9 DEF Honest, t

(* A job that ends owes what it reports; a maintenance job owes nothing.   *)
LEMMA RecordOwedHonest ==
    ASSUME NEW s, Good(s), NEW job \in Job, NEW summary \in {None} \cup SUBSET Flags
    PROVE  LET t == record_owed(s, job, summary)
           IN  Honest(s, t) /\ (job.type = "DbMaintenance" => t = s)
<1>1. pessimistic_summary(job) \in SUBSET Flags
  BY DEF pessimistic_summary, Flags
<1>2. job.db \in Dbs
  BY DEF Job
<1>3. CASE job.type = "DbMaintenance"
  <2>1. record_owed(s, job, summary) = s /\ SameDebts(s, s)
    BY <1>3 DEF record_owed, SameDebts
  <2> QED
    BY <2>1, SameDebtsHonest
<1>4. CASE job.type # "DbMaintenance"
  BY <1>1, <1>2, <1>4, MergeHonest DEF record_owed
<1> QED
  BY <1>3, <1>4

(* What push_job adds to the queue, with the request it was made of.       *)
LEMMA PushedJobs ==
    ASSUME NEW s, Good(s), NEW rs \in Seq(JobRequest)
    PROVE  LET t == push_jobs(s, rs)
           IN  /\ t.owed = s.owed /\ t.pending_marks = s.pending_marks
               /\ t.running_job = s.running_job /\ t.shutting_down = s.shutting_down
               /\ s.queue \subseteq t.queue
               /\ \A k \in DOMAIN rs : \E j \in t.queue :
                     /\ j.type = rs[k].type /\ j.db = rs[k].db
                     /\ j.metadata = rs[k].metadata /\ j.tag = rs[k].tag
               /\ \A j \in t.queue : j \in s.queue \/ \E k \in DOMAIN rs :
                     /\ j.type = rs[k].type /\ j.db = rs[k].db
                     /\ j.metadata = rs[k].metadata /\ j.tag = rs[k].tag
<1> DEFINE Pushed(k) == [id |-> s.job_counter + k, type |-> rs[k].type, db |-> rs[k].db,
                         metadata |-> rs[k].metadata, tag |-> rs[k].tag]
           new == {Pushed(k) : k \in DOMAIN rs}
           t == push_jobs(s, rs)
<1>1. s \in QueueState
  BY DEF Good
<1>2. /\ t.owed = s.owed /\ t.pending_marks = s.pending_marks
      /\ t.running_job = s.running_job /\ t.shutting_down = s.shutting_down
      /\ t.queue = s.queue \cup new
  BY <1>1 DEF push_jobs, QueueState
<1> HIDE DEF t
<1>3. \A k \in DOMAIN rs :
          /\ Pushed(k).type = rs[k].type /\ Pushed(k).db = rs[k].db
          /\ Pushed(k).metadata = rs[k].metadata /\ Pushed(k).tag = rs[k].tag
  OBVIOUS
<1> HIDE DEF Pushed
<1> QED
  BY <1>2, <1>3 DEF t

(* Jobs of clients carry no debt.                                          *)
LEMMA PushHonest ==
    ASSUME NEW s, Good(s), NEW rs \in Seq(JobRequest), \A k \in DOMAIN rs : rs[k].type # "DbMaintenance"
    PROVE  LET t == push_jobs(s, rs)
           IN  /\ KeepsDebts(s, t) /\ MarksTags(s, t) /\ MakesNoDebt(s, t)
               /\ (\A k \in DOMAIN rs : rs[k].tag = None) => TagsFrom(s, t)
<1> DEFINE t == push_jobs(s, rs)
<1>1. /\ t.owed = s.owed /\ t.pending_marks = s.pending_marks
      /\ t.running_job = s.running_job /\ s.queue \subseteq t.queue
      /\ \A j \in t.queue : j \in s.queue \/ \E k \in DOMAIN rs :
             /\ j.type = rs[k].type /\ j.db = rs[k].db
             /\ j.metadata = rs[k].metadata /\ j.tag = rs[k].tag
  BY PushedJobs
<1> HIDE DEF t
<1>2. ActiveJobs(s) \subseteq ActiveJobs(t)
  BY <1>1 DEF ActiveJobs
<1>3. \A d, f : f \in MaintenanceFlags(ActiveJobs(s), d) => f \in MaintenanceFlags(ActiveJobs(t), d)
  BY <1>2, FlagCarried
<1>4. \A j \in t.queue, d \in Dbs : IsMaintenance(j, d) => j \in s.queue
  BY <1>1 DEF IsMaintenance
<1>5. \A d \in Dbs : \A f : f \in MaintenanceFlags(t.queue, d) => f \in MaintenanceFlags(s.queue, d)
  BY <1>4, FlagCarried
<1>6. KeepsDebts(s, t)
  BY <1>1, <1>3 DEF KeepsDebts
<1>7. MakesNoDebt(s, t)
  BY <1>1, <1>5 DEF MakesNoDebt
<1>8. MarksTags(s, t)
  BY <1>1 DEF MarksTags
<1>9. (\A k \in DOMAIN rs : rs[k].tag = None) => TagsFrom(s, t)
  BY <1>1 DEF TagsFrom, ActiveJobs
<1> QED
  BY <1>6, <1>7, <1>8, <1>9 DEF t

(* Scheduling moves what a database owes into its maintenance job, and a   *)
(* mark is only dropped with the debt it was for.                          *)
LEMMA ScheduleHonest ==
    ASSUME NEW s, Good(s), NEW ds \in Seq(Dbs)
    PROVE  LET t == schedule_maintenance(s, ds)
           IN  Honest(s, t) /\ MakesNoDebt(s, t)
<1> DEFINE due == {ds[k] : k \in DOMAIN ds}
           rs == [k \in DOMAIN ds |-> MaintenanceRequest(ds[k], s.owed[ds[k]])]
           p == push_jobs(s, rs)
           owed == [d \in Dbs |-> IF d \in due THEN {} ELSE s.owed[d]]
           pending == {d \in p.pending_marks : d \notin due \/ "tags" \notin s.owed[d]}
           t == schedule_maintenance(s, ds)
<1>1. s \in QueueState /\ s.owed \in [Dbs -> SUBSET Flags]
  BY DEF Good, QueueState
<1>2. DOMAIN ds = 1 .. Len(ds) /\ Len(ds) \in Nat /\ \A k \in DOMAIN ds : ds[k] \in Dbs
  OBVIOUS
<1>3. \A k \in DOMAIN ds : MaintenanceRequest(ds[k], s.owed[ds[k]]) \in JobRequest
  BY <1>1, <1>2 DEF MaintenanceRequest, JobRequest, JobType, to_metadata, FlagNames
<1>4. rs \in [1 .. Len(ds) -> JobRequest]
  BY <1>2, <1>3
<1>5. rs \in Seq(JobRequest)
  BY <1>2, <1>4, SeqDef
<1>6. DOMAIN rs = DOMAIN ds /\ \A k \in DOMAIN ds :
          /\ rs[k].type = "DbMaintenance" /\ rs[k].db = ds[k] /\ rs[k].tag = None
          /\ rs[k].metadata = to_metadata(s.owed[ds[k]])
  BY DEF MaintenanceRequest
<1>7. t = [p EXCEPT !.owed = owed, !.pending_marks = pending]
  BY DEF schedule_maintenance
<1> HIDE DEF rs
<1>8. /\ p.pending_marks = s.pending_marks
      /\ p.running_job = s.running_job /\ s.queue \subseteq p.queue
      /\ \A k \in DOMAIN rs : \E j \in p.queue :
             /\ j.type = rs[k].type /\ j.db = rs[k].db
             /\ j.metadata = rs[k].metadata /\ j.tag = rs[k].tag
      /\ \A j \in p.queue : j \in s.queue \/ \E k \in DOMAIN rs :
             /\ j.type = rs[k].type /\ j.db = rs[k].db
             /\ j.metadata = rs[k].metadata /\ j.tag = rs[k].tag
  BY <1>5, PushedJobs
<1>9. /\ t.owed = owed /\ t.pending_marks = pending
      /\ t.queue = p.queue /\ t.running_job = s.running_job
  <2>1. p = [s EXCEPT !.job_counter = p.job_counter, !.queue = p.queue,
                      !.queued_jobs = p.queued_jobs]
    BY <1>1 DEF push_jobs, QueueState
  <2> HIDE DEF p, owed, pending
  <2> QED
    BY <1>1, <1>7, <1>8, <2>1 DEF QueueState
<1> HIDE DEF p, t
<1>10. ActiveJobs(s) \subseteq ActiveJobs(t) /\ t.queue \subseteq ActiveJobs(t)
  BY <1>8, <1>9 DEF ActiveJobs
<1>11. \A d \in due : \E j \in t.queue : IsMaintenance(j, d) /\ from_metadata(j.metadata) = s.owed[d]
  <2> SUFFICES ASSUME NEW k \in DOMAIN ds
               PROVE  \E j \in t.queue : /\ IsMaintenance(j, ds[k])
                                         /\ from_metadata(j.metadata) = s.owed[ds[k]]
    OBVIOUS
  <2>1. from_metadata(to_metadata(s.owed[ds[k]])) = s.owed[ds[k]]
    BY <1>1, <1>2, MetadataReadsBack
  <2> QED
    BY <1>6, <1>8, <1>9, <2>1 DEF IsMaintenance
<1>12. \A j \in t.queue : j \in s.queue \/ (j.tag = None /\ \A d \in Dbs :
          IsMaintenance(j, d) => from_metadata(j.metadata) = s.owed[d])
  <2> SUFFICES ASSUME NEW j \in t.queue, j \notin s.queue
               PROVE  j.tag = None /\ \A d \in Dbs :
                        IsMaintenance(j, d) => from_metadata(j.metadata) = s.owed[d]
    OBVIOUS
  <2>1. PICK k \in DOMAIN ds : j.db = ds[k] /\ j.tag = None
                               /\ j.metadata = to_metadata(s.owed[ds[k]])
    BY <1>6, <1>8, <1>9
  <2>2. from_metadata(to_metadata(s.owed[ds[k]])) = s.owed[ds[k]]
    BY <1>1, <1>2, MetadataReadsBack
  <2> QED
    BY <2>1, <2>2 DEF IsMaintenance
<1>13. \A d \in Dbs : t.owed[d] = IF d \in due THEN {} ELSE s.owed[d]
  BY <1>9
<1> HIDE DEF due
<1>14. KeepsDebts(s, t)
  <2> SUFFICES ASSUME NEW d \in Dbs, NEW f, f \in s.owed[d] \/ f \in MaintenanceFlags(ActiveJobs(s), d)
               PROVE  f \in t.owed[d] \/ f \in MaintenanceFlags(ActiveJobs(t), d)
    BY DEF KeepsDebts
  <2>1. CASE f \in s.owed[d]
    BY <1>10, <1>11, <1>13, <2>1, FlagCarried
  <2>2. CASE f \in MaintenanceFlags(ActiveJobs(s), d)
    BY <1>10, <2>2, FlagCarried
  <2> QED
    BY <2>1, <2>2
<1>15. MakesNoDebt(s, t)
  <2> SUFFICES ASSUME NEW d \in Dbs, NEW f, f \in t.owed[d] \/ f \in MaintenanceFlags(t.queue, d)
               PROVE  f \in s.owed[d] \/ f \in MaintenanceFlags(s.queue, d)
    BY DEF MakesNoDebt
  <2>1. CASE f \in t.owed[d]
    BY <1>13, <2>1
  <2>2. CASE f \in MaintenanceFlags(t.queue, d)
    BY <1>12, <2>2, FlagCarried
  <2> QED
    BY <2>1, <2>2
<1>16. MarksTags(s, t)
  BY <1>8, <1>9, <1>13 DEF MarksTags
<1>17. TagsFrom(s, t)
  BY <1>8, <1>9, <1>12 DEF TagsFrom, ActiveJobs
<1> QED
  BY <1>14, <1>15, <1>16, <1>17 DEF Honest, t

LEMMA MaybeScheduleHonest ==
    ASSUME NEW s, Good(s), NEW d \in Dbs
    PROVE  LET t == maybe_schedule_maintenance(s, d)
           IN  Honest(s, t) /\ MakesNoDebt(s, t)
<1>1. CASE MaintenanceDue(s, d)
  <2>1. <<d>> \in Seq(Dbs)
    OBVIOUS
  <2> QED
    BY <1>1, <2>1, ScheduleHonest DEF maybe_schedule_maintenance
<1>2. CASE ~MaintenanceDue(s, d)
  <2>1. maybe_schedule_maintenance(s, d) = s /\ SameDebts(s, s)
    BY <1>2 DEF maybe_schedule_maintenance, SameDebts
  <2> QED
    BY <2>1, SameDebtsHonest
<1> QED
  BY <1>1, <1>2

(* A handler may drop jobs, and the flags that they carry with them, but   *)
(* nothing that is owed.                                                   *)
Dropped(s, t) ==
    /\ t.owed = s.owed /\ t.pending_marks = s.pending_marks
    /\ t.queue \subseteq s.queue
    /\ ActiveJobs(t) \subseteq ActiveJobs(s)

Fair(s, t) ==
    /\ \A d \in Dbs : s.owed[d] \subseteq t.owed[d] \cup MaintenanceFlags(ActiveJobs(t), d)
    /\ MarksTags(s, t)
    /\ TagsFrom(s, t)

LEMMA HonestIsFair ==
    ASSUME NEW s, NEW t, Honest(s, t)
    PROVE  Fair(s, t)
BY DEF Honest, Fair, KeepsDebts

LEMMA FairThenHonest ==
    ASSUME NEW s, NEW t, NEW u, Fair(s, t), Honest(t, u)
    PROVE  Fair(s, u)
<1>1. \A d \in Dbs : s.owed[d] \subseteq u.owed[d] \cup MaintenanceFlags(ActiveJobs(u), d)
  BY DEF Fair, Honest, KeepsDebts
<1>2. MarksTags(s, u)
  BY DEF Fair, Honest, MarksTags
<1>3. TagsFrom(s, u)
  <2> SUFFICES ASSUME NEW j \in ActiveJobs(u), j.tag # None
               PROVE  \E k \in ActiveJobs(s) : k.id = j.id /\ k.tag = j.tag
    BY DEF TagsFrom
  <2>1. PICK k \in ActiveJobs(t) : k.id = j.id /\ k.tag = j.tag
    BY DEF Honest, TagsFrom
  <2>2. PICK i \in ActiveJobs(s) : i.id = k.id /\ i.tag = k.tag
    BY <2>1 DEF Fair, TagsFrom
  <2> QED
    BY <2>1, <2>2
<1> QED
  BY <1>1, <1>2, <1>3 DEF Fair

LEMMA DroppedThenFair ==
    ASSUME NEW s, NEW t, NEW u, Dropped(s, t), Fair(t, u)
    PROVE  Fair(s, u)
<1>1. \A d \in Dbs : s.owed[d] \subseteq u.owed[d] \cup MaintenanceFlags(ActiveJobs(u), d)
  BY DEF Fair, Dropped
<1>2. MarksTags(s, u)
  BY DEF Fair, Dropped, MarksTags
<1>3. TagsFrom(s, u)
  BY DEF Fair, Dropped, TagsFrom
<1> QED
  BY <1>1, <1>2, <1>3 DEF Fair

LEMMA DroppedNoDebt ==
    ASSUME NEW s, NEW t, Dropped(s, t)
    PROVE  MakesNoDebt(s, t)
<1>1. \A d, f : f \in MaintenanceFlags(t.queue, d) => f \in MaintenanceFlags(s.queue, d)
  BY FlagCarried DEF Dropped
<1> QED
  BY <1>1 DEF Dropped, MakesNoDebt

LEMMA EndRunningDrops ==
    ASSUME NEW s, Good(s)
    PROVE  Dropped(s, [s EXCEPT !.running_job = None])
<1>1. s \in QueueState
  BY DEF Good
<1> DEFINE t == [s EXCEPT !.running_job = None]
<1>2. /\ t.owed = s.owed /\ t.pending_marks = s.pending_marks
      /\ t.queue = s.queue /\ t.running_job = None
  BY <1>1 DEF QueueState
<1> HIDE DEF t
<1>3. Dropped(s, t)
  BY <1>2 DEF Dropped, ActiveJobs
<1> QED
  BY <1>3 DEF t

(* A job ends: what it owes is recorded, a maintenance job owes nothing.   *)
LEMMA EndHonest ==
    ASSUME NEW s, Good(s), NEW id \in Nat \ {0}, NEW status \in {"Completed", "Failed", "Cancelled"},
           NEW job \in Job, NEW summary \in {None} \cup SUBSET Flags
    PROVE  LET t == record_owed(record_outcome(s, id, status), job, summary)
           IN  Good(t) /\ Honest(s, t) /\ (job.type = "DbMaintenance" => MakesNoDebt(s, t))
<1> DEFINE r == record_outcome(s, id, status)
           t == record_owed(r, job, summary)
<1>1. Good(r) /\ s \in QueueState
  BY RecordOutcome DEF Good
<1>2. Honest(s, r) /\ MakesNoDebt(s, r)
  BY <1>1, RecordOutcomesSame, SameDebtsHonest DEF record_outcome
<1> HIDE DEF r
<1>3. Good(t)
  BY <1>1, RecordOwedOf
<1>4. Honest(r, t) /\ (job.type = "DbMaintenance" => t = r)
  BY <1>1, RecordOwedHonest
<1> HIDE DEF t
<1>5. Honest(s, t)
  BY <1>2, <1>4, HonestTransitive
<1> QED
  BY <1>2, <1>3, <1>4, <1>5 DEF r, t

(* After the outcome: the load, the maintenance that is due, the unload    *)
(* and the next job.                                                       *)
LEMMA BoundaryHonest ==
    ASSUME NEW s, Good(s), NEW d \in Dbs, NEW suppress, NEW keep, NEW busy \in BOOLEAN,
           s.running_job = None => ~busy
    PROVE  LET scheduled == IF suppress THEN s ELSE maybe_schedule_maintenance(s, d)
               unloaded == IF keep THEN scheduled ELSE maybe_unload_batch_model(scheduled)
               t == start_next_job(unloaded, busy)
           IN  Honest(s, t) /\ MakesNoDebt(s, t)
<1> DEFINE scheduled == IF suppress THEN s ELSE maybe_schedule_maintenance(s, d)
           unloaded == IF keep THEN scheduled ELSE maybe_unload_batch_model(scheduled)
           t == start_next_job(unloaded, busy)
<1>1. SameDebts(s, s) /\ Grows(s, s)
  BY SelfGrows DEF SameDebts
<1>2. Good(scheduled) /\ Grows(s, scheduled) /\ Honest(s, scheduled) /\ MakesNoDebt(s, scheduled)
  BY <1>1, SameDebtsHonest, MaybeScheduleMaintenance, MaybeScheduleHonest
<1> HIDE DEF scheduled
<1>3. SameDebts(scheduled, scheduled) /\ Grows(scheduled, scheduled) /\ scheduled \in QueueState
  BY <1>2, SelfGrows DEF SameDebts, Good
<1>4. Good(unloaded) /\ Grows(scheduled, unloaded) /\ SameDebts(scheduled, unloaded)
  BY <1>2, <1>3, MaybeUnload, LoadsSame
<1> HIDE DEF unloaded
<1>5. Honest(scheduled, unloaded) /\ MakesNoDebt(scheduled, unloaded)
  BY <1>4, SameDebtsHonest
<1>6. unloaded.running_job = s.running_job
  BY <1>2, <1>4 DEF Grows
<1>7. Honest(unloaded, t) /\ MakesNoDebt(unloaded, t)
  BY <1>4, <1>6, StartHonest
<1> HIDE DEF t
<1>8. Honest(s, t)
  <2>1. Honest(s, unloaded)
    BY <1>2, <1>5, HonestTransitive
  <2> QED
    BY <1>7, <2>1, HonestTransitive
<1>9. MakesNoDebt(s, t)
  <2>1. MakesNoDebt(s, unloaded)
    BY <1>2, <1>5, NoDebtTransitive
  <2> QED
    BY <1>7, <2>1, NoDebtTransitive
<1> QED
  BY <1>8, <1>9 DEF t, unloaded, scheduled

LEMMA CancelFair ==
    ASSUME NEW s, Good(s), NEW suppress
    PROVE  LET t == cancel_running_job_inner(s, suppress)
           IN  /\ Fair(s, t)
               /\ s.running_job # None /\ s.running_job.type = "DbMaintenance" => MakesNoDebt(s, t)
<1> DEFINE job == s.running_job
           idle == [s EXCEPT !.running_job = None]
           owing0 == record_owed(record_outcome(idle, job.id, "Cancelled"), job, None)
           owing == record_unreported_batch_load(owing0, job)
           t == cancel_running_job_inner(s, suppress)
<1>1. CASE ~CancelAnswered(s)
  <2>1. t = s /\ SameDebts(s, s)
    BY <1>1, CancelUnanswered DEF SameDebts
  <2> QED
    BY <2>1, SameDebtsHonest, HonestIsFair
<1>2. CASE CancelAnswered(s)
  <2>1. job \in Job /\ Shaped(job) /\ job.id \in Nat \ {0} /\ job.db \in Dbs
    BY <1>2 DEF Good, QueueState, CancelAnswered, Job
  <2>2. Good(idle) /\ Dropped(s, idle)
    BY EndRunning, EndRunningDrops
  <2>3. t = start_next_job(IF s.shutting_down
                           THEN IF suppress THEN owing ELSE maybe_schedule_maintenance(owing, job.db)
                           ELSE maybe_unload_batch_model(
                                  IF suppress THEN owing ELSE maybe_schedule_maintenance(owing, job.db)),
                           FALSE)
    BY <1>2 DEF cancel_running_job_inner
  <2> HIDE DEF idle
  <2>4. /\ Good(owing0) /\ Honest(idle, owing0)
        /\ job.type = "DbMaintenance" => MakesNoDebt(idle, owing0)
    BY <2>1, <2>2, EndHonest
  <2> HIDE DEF owing0
  <2>5. Good(owing)
    BY <2>1, <2>4, UnreportedLoad
  <2>6. Honest(owing0, owing) /\ MakesNoDebt(owing0, owing)
    <3>1. SameDebts(owing0, owing)
      BY <2>4, LoadsSame DEF Good
    <3> QED
      BY <3>1, SameDebtsHonest
  <2> HIDE DEF owing, t
  <2>7. Honest(owing, t) /\ MakesNoDebt(owing, t)
    BY <2>1, <2>3, <2>5, BoundaryHonest
  <2>8. Fair(s, t)
    <3>1. Honest(idle, owing)
      BY <2>4, <2>6, HonestTransitive
    <3>2. Honest(idle, t)
      BY <2>7, <3>1, HonestTransitive
    <3> QED
      BY <2>2, <3>2, HonestIsFair, DroppedThenFair
  <2>9. job.type = "DbMaintenance" => MakesNoDebt(s, t)
    <3> SUFFICES ASSUME job.type = "DbMaintenance" PROVE MakesNoDebt(s, t)
      OBVIOUS
    <3>1. MakesNoDebt(s, owing0)
      BY <2>2, <2>4, DroppedNoDebt, NoDebtTransitive
    <3>2. MakesNoDebt(s, owing)
      BY <2>6, <3>1, NoDebtTransitive
    <3> QED
      BY <2>7, <3>2, NoDebtTransitive
  <2> QED
    BY <2>8, <2>9 DEF t
<1> QED
  BY <1>1, <1>2

-----------------------------------------------------------------------------
(* What every step owes the databases and the ticks.                       *)
NoDebtForgotten ==
    \A d \in Dbs :
        state.owed[d] \subseteq state'.owed[d] \cup MaintenanceFlags(ActiveJobs(state)', d)

NoDebtMade ==
    \A d \in Dbs :
        state'.owed[d] \cup MaintenanceFlags(state.queue, d)'
            \subseteq state.owed[d] \cup MaintenanceFlags(state.queue, d)

TagDebtMarked == \A d \in Dbs : "tags" \in state'.owed[d] \ state.owed[d] => d \in marks'

NoTickBeside ==
    \A old \in ActiveJobs(state), new \in ActiveJobs(state)' :
        state.job_counter < new.id /\ new.tag # None => ~(old.tag = new.tag /\ old.db = new.db)

InMaintenance ==
    /\ state.running_job # None /\ state.running_job.type = "DbMaintenance"
    /\ ~(\E d \in Dbs : EnqueueMaintenance(d))

Faithful ==
    /\ NoDebtForgotten /\ TagDebtMarked /\ NoTickBeside
    /\ InMaintenance => NoDebtMade

LEMMA CommitShows ==
    ASSUME NEW s, Good(s), NEW run, NEW ts, Commit(s, run, ts)
    PROVE  /\ state'.owed = s.owed /\ state'.queue = s.queue
           /\ ActiveJobs(state') = ActiveJobs(s) /\ marks' = s.pending_marks
<1>1. s \in QueueState /\ state' = [s EXCEPT !.pending_marks = {}, !.unloads = {}]
      /\ marks' = s.pending_marks
  BY DEF Commit, Good
<1>2. /\ state'.owed = s.owed /\ state'.queue = s.queue
      /\ state'.running_job = s.running_job
  BY <1>1 DEF QueueState
<1> QED
  BY <1>1, <1>2 DEF ActiveJobs

LEMMA DebtsHandled ==
    ASSUME NEW s, Good(s), NEW run, NEW ts, Commit(s, run, ts),
           \A d \in Dbs : state.owed[d] \subseteq s.owed[d] \cup MaintenanceFlags(ActiveJobs(s), d),
           MarksTags(state, s)
    PROVE  NoDebtForgotten /\ TagDebtMarked /\ (MakesNoDebt(state, s) => NoDebtMade)
<1>1. /\ state'.owed = s.owed /\ state'.queue = s.queue
      /\ ActiveJobs(state') = ActiveJobs(s) /\ marks' = s.pending_marks
  BY CommitShows
<1>2. NoDebtForgotten
  BY <1>1 DEF NoDebtForgotten
<1>3. TagDebtMarked
  BY <1>1 DEF TagDebtMarked, MarksTags
<1>4. MakesNoDebt(state, s) => NoDebtMade
  BY <1>1 DEF MakesNoDebt, NoDebtMade
<1> QED
  BY <1>2, <1>3, <1>4

(* The ids of the jobs that are there are not above the counter.           *)
LEMMA IdsCounted ==
    ASSUME IInv
    PROVE  \A j \in ActiveJobs(state) : j.id \in Nat /\ state.job_counter \in Nat
                                         /\ ~(state.job_counter < j.id)
<1>1. state.queue \subseteq Job /\ state.job_counter \in Nat
      /\ (state.running_job # None => state.running_job \in Job)
  BY StateFacts DEF QueueState
<1>2. \A j \in ActiveJobs(state) : j \in Job /\ j.id <= state.job_counter
  BY <1>1 DEF ActiveJobs, IInv, Good
<1>3. \A j \in ActiveJobs(state) : j.id \in Nat
  BY <1>2 DEF Job
<1> QED
  BY <1>1, <1>2, <1>3

LEMMA HandlerFaithful ==
    ASSUME IInv, NEW s, Good(s), NEW run, NEW ts, Commit(s, run, ts), Fair(state, s),
           InMaintenance => MakesNoDebt(state, s)
    PROVE  Faithful
<1>1. NoDebtForgotten /\ TagDebtMarked /\ (MakesNoDebt(state, s) => NoDebtMade)
  BY DebtsHandled DEF Fair
<1>2. ActiveJobs(state') = ActiveJobs(s)
  BY CommitShows
<1>3. NoTickBeside
  <2> SUFFICES ASSUME NEW new \in ActiveJobs(s), state.job_counter < new.id, new.tag # None
               PROVE  FALSE
    BY <1>2 DEF NoTickBeside
  <2>1. PICK k \in ActiveJobs(state) : k.id = new.id
    BY DEF Fair, TagsFrom
  <2> QED
    BY <2>1, IdsCounted
<1> QED
  BY <1>1, <1>3 DEF Faithful

LEMMA NothingHandled ==
    ASSUME IInv, NEW run, NEW ts, Commit(state, run, ts)
    PROVE  Faithful
<1>1. Good(state) /\ SameDebts(state, state)
  BY StateFacts DEF SameDebts
<1>2. Fair(state, state) /\ MakesNoDebt(state, state)
  BY <1>1, SameDebtsHonest, HonestIsFair
<1> QED
  BY <1>1, <1>2, HandlerFaithful

(* A step of a task or of an unload.                                       *)
LEMMA ActorIdle ==
    ASSUME IInv, state' = state
    PROVE  Faithful
<1>1. NoDebtForgotten /\ TagDebtMarked /\ NoDebtMade
  BY DEF NoDebtForgotten, TagDebtMarked, NoDebtMade
<1>2. NoTickBeside
  BY IdsCounted DEF NoTickBeside
<1> QED
  BY <1>1, <1>2 DEF Faithful

LEMMA EnqueueFaithful ==
    ASSUME IInv, NEW r \in Requests, Enqueue(r)
    PROVE  Faithful
<1> DEFINE p == push_jobs(state, <<r>>)
           s == start_next_job(p, runner # 0)
<1>1. r \in JobRequest /\ Shaped(r) /\ r.type # "DbMaintenance" /\ r.tag = None
  BY RequestsAssumption, ClientRequestShape DEF ClientRequest
<1>2. /\ <<r>> \in Seq(JobRequest)
      /\ \A k \in DOMAIN <<r>> : /\ Shaped(<<r>>[k]) /\ <<r>>[k].type # "DbMaintenance"
                                 /\ <<r>>[k].tag = None
  BY <1>1
<1>3. Commit(s, runner, tasks) /\ ~state.shutting_down
  BY DEF Enqueue, push_job
<1>4. Good(p) /\ Grows(state, p)
  BY <1>2, <1>3, StateFacts, PushJobs
<1>5. Honest(state, p) /\ MakesNoDebt(state, p)
  BY <1>2, StateFacts, PushHonest DEF Honest
<1> HIDE DEF p
<1>6. p.running_job = None => runner = 0
  BY <1>4, NoJobNoRunner DEF Grows
<1>7. Honest(p, s) /\ MakesNoDebt(p, s)
  BY <1>4, <1>6, StartHonest
<1>8. Good(s)
  BY <1>2, <1>3, StateFacts, PushedAndStarted DEF Handled, p
<1> HIDE DEF s
<1>9. Fair(state, s) /\ MakesNoDebt(state, s)
  BY <1>5, <1>7, HonestTransitive, HonestIsFair, NoDebtTransitive
<1> QED
  BY <1>3, <1>8, <1>9, HandlerFaithful

(* The one place where tags come from: what the dedup let in.              *)
LEMMA EnqueueBatchFaithful ==
    ASSUME IInv, NEW b \in Batches, EnqueueBatch(b)
    PROVE  Faithful
<1>1. PICK accepted :
          /\ Admitted(b, accepted)
          /\ \/ Commit(state, runner, tasks)
             \/ Commit(start_next_job(push_jobs(state, accepted), runner # 0), runner, tasks)
  BY BatchAdmits
<1>2. CASE Commit(state, runner, tasks)
  BY <1>2, NothingHandled
<1>3. CASE Commit(start_next_job(push_jobs(state, accepted), runner # 0), runner, tasks)
  <2> DEFINE p == push_jobs(state, accepted)
             s == start_next_job(p, runner # 0)
  <2>1. accepted \in Seq(JobRequest) /\ ~state.shutting_down
    BY <1>1 DEF Admitted, EnqueueBatch
  <2>2. \A k \in DOMAIN accepted : Shaped(accepted[k]) /\ accepted[k].type # "DbMaintenance"
    BY <1>1, ClientRequestShape DEF Admitted, ClientRequest
  <2>3. Good(p) /\ Grows(state, p)
    BY <2>1, <2>2, StateFacts, PushJobs
  <2>4. KeepsDebts(state, p) /\ MarksTags(state, p) /\ MakesNoDebt(state, p)
    BY <2>1, <2>2, StateFacts, PushHonest
  <2>5. /\ p.running_job = state.running_job
        /\ \A j \in p.queue : j \in state.queue \/ \E k \in DOMAIN accepted :
              j.db = accepted[k].db /\ j.tag = accepted[k].tag
    BY <2>1, StateFacts, PushedJobs
  <2> HIDE DEF p
  <2>6. Honest(p, s) /\ MakesNoDebt(p, s)
    BY <2>3, <2>5, NoJobNoRunner, StartHonest
  <2>7. Good(s)
    BY <2>1, <2>2, StateFacts, PushedAndStarted DEF Handled, p
  <2>8. MakesNoDebt(state, s) /\ KeepsDebts(state, s) /\ MarksTags(state, s)
    <3>1. MakesNoDebt(state, s)
      BY <2>4, <2>6, NoDebtTransitive
    <3>2. KeepsDebts(state, s)
      BY <2>4, <2>6 DEF Honest, KeepsDebts
    <3>3. MarksTags(state, s)
      BY <2>4, <2>6 DEF Honest, MarksTags
    <3> QED
      BY <3>1, <3>2, <3>3
  <2>9. ActiveJobs(s) \subseteq ActiveJobs(p)
    <3>1. CASE state.running_job # None
      BY <2>5, <3>1, StartNothing
    <3>2. CASE state.running_job = None
      <4>1. runner = 0 /\ p.running_job = None
        BY <2>5, <3>2, NoJobNoRunner
      <4>2. s = start_next_job(p, FALSE)
        BY <4>1
      <4>3. s.queue \subseteq p.queue /\ (s.running_job # None => s.running_job \in p.queue)
        BY <2>3, <4>1, <4>2, StartNextJob
      <4> QED
        BY <4>3 DEF ActiveJobs
    <3> QED
      BY <3>1, <3>2
  <2> HIDE DEF s
  <2>10. Commit(s, runner, tasks)
    BY <1>3 DEF s, p
  <2>11. NoDebtForgotten /\ TagDebtMarked /\ NoDebtMade
    BY <2>7, <2>8, <2>10, DebtsHandled DEF KeepsDebts
  <2>12. NoTickBeside
    <3> SUFFICES ASSUME NEW old \in ActiveJobs(state), NEW new \in ActiveJobs(s),
                        state.job_counter < new.id, old.tag = new.tag, old.db = new.db
                 PROVE  FALSE
      BY <2>7, <2>10, CommitShows DEF NoTickBeside
    <3>1. new \in ActiveJobs(state) \/ \E k \in DOMAIN accepted :
              new.db = accepted[k].db /\ new.tag = accepted[k].tag
      BY <2>5, <2>9 DEF ActiveJobs
    <3>2. PICK k \in DOMAIN accepted : new.db = accepted[k].db /\ new.tag = accepted[k].tag
      BY <3>1, IdsCounted
    <3>3. <<new.tag, new.db>> \in b.dedups /\ new.db \notin SkippedDbs(state, b.dedups)
      BY <1>1, <3>2 DEF Admitted
    <3>4. new.tag \in CronTags /\ new.db \in Dbs
      BY <3>3, BatchesAssumption
    <3> QED
      BY <3>3, <3>4 DEF SkippedDbs
  <2> QED
    BY <2>11, <2>12 DEF Faithful
<1> QED
  BY <1>1, <1>2, <1>3

(* A manual request takes over what is owed: its maintenance job, new or   *)
(* upgraded, carries every flag.                                           *)
LEMMA EnqueueMaintenanceFaithful ==
    ASSUME IInv, NEW d \in Dbs, EnqueueMaintenance(d)
    PROVE  Faithful
<1> DEFINE cleared == [state EXCEPT !.owed[d] = {}]
           upgrade == \E j \in state.queue : IsMaintenance(j, d)
           rs == <<MaintenanceRequest(d, Flags)>>
           u == UpgradeQueued(cleared, d)
           p == push_jobs(cleared, rs)
           s == IF upgrade THEN u ELSE start_next_job(p, runner # 0)
<1>1. Commit(s, runner, tasks) /\ ~state.shutting_down
  BY DEF EnqueueMaintenance, push_job
<1>2. /\ Good(cleared) /\ Grows(state, cleared) /\ cleared.unloads = {}
      /\ cleared.queue = state.queue /\ cleared.running_job = state.running_job
      /\ cleared.pending_marks = state.pending_marks
      /\ \A e \in Dbs : cleared.owed[e] = IF e = d THEN {} ELSE state.owed[e]
  <2>1. [state.owed EXCEPT ![d] = {}] \in [Dbs -> SUBSET Flags]
    BY StateFacts
  <2>2. cleared = [state EXCEPT !.owed = [state.owed EXCEPT ![d] = {}]]
    BY StateFacts DEF QueueState
  <2> HIDE DEF cleared
  <2>3. /\ cleared \in QueueState /\ SameJobs(state, cleared) /\ cleared.unloads = {}
        /\ cleared.pending_marks = state.pending_marks
        /\ cleared.owed = [state.owed EXCEPT ![d] = {}]
    BY <2>1, <2>2, StateFacts DEF QueueState, SameJobs
  <2>4. Good(cleared) /\ Grows(state, cleared)
    BY <2>3, StateFacts, SameJobsGood
  <2> QED
    BY <2>3, <2>4, StateFacts DEF SameJobs
<1> HIDE DEF cleared
<1>3. /\ rs \in Seq(JobRequest) /\ \A k \in DOMAIN rs : Shaped(rs[k])
      /\ 1 \in DOMAIN rs /\ \A k \in DOMAIN rs : /\ rs[k].type = "DbMaintenance" /\ rs[k].db = d
                             /\ rs[k].metadata = to_metadata(Flags) /\ rs[k].tag = None
  <2>1. MaintenanceRequest(d, Flags) \in JobRequest /\ Shaped(MaintenanceRequest(d, Flags))
    BY DEF MaintenanceRequest, JobRequest, JobType, to_metadata, FlagNames, Shaped
  <2>2. /\ MaintenanceRequest(d, Flags).type = "DbMaintenance"
        /\ MaintenanceRequest(d, Flags).db = d
        /\ MaintenanceRequest(d, Flags).metadata = to_metadata(Flags)
        /\ MaintenanceRequest(d, Flags).tag = None
    BY DEF MaintenanceRequest
  <2> HIDE DEF MaintenanceRequest
  <2> QED
    BY <2>1, <2>2
<1> HIDE DEF rs
<1>4. from_metadata(to_metadata(Flags)) = Flags /\ state.owed[d] \subseteq Flags
  <2>1. Flags \in SUBSET Flags
    OBVIOUS
  <2> QED
    BY <2>1, MetadataReadsBack, StateFacts
<1>5. ASSUME NEW t, t.pending_marks = state.pending_marks,
             \A e \in Dbs : t.owed[e] = IF e = d THEN {} ELSE state.owed[e],
             \E j \in ActiveJobs(t) : IsMaintenance(j, d) /\ j.metadata = to_metadata(Flags),
             TagsFrom(state, t)
      PROVE  Fair(state, t)
  <2>1. ASSUME NEW e \in Dbs, NEW f \in state.owed[e]
        PROVE  f \in t.owed[e] \/ f \in MaintenanceFlags(ActiveJobs(t), e)
    <3>1. CASE e = d
      BY <1>4, <1>5, <2>1, <3>1, FlagCarried
    <3>2. CASE e # d
      BY <1>5, <2>1, <3>2
    <3> QED
      BY <3>1, <3>2
  <2>2. MarksTags(state, t)
    <3>1. state.pending_marks = {}
      BY DEF IInv
    <3> QED
      BY <1>5, <3>1 DEF MarksTags
  <2> QED
    BY <1>5, <2>1, <2>2 DEF Fair
<1>6. Good(s) /\ Fair(state, s)
  <2>1. CASE upgrade
    <3>1. Good(u)
      BY <1>2, Upgrading
    <3>2. /\ u.queue = Upgraded(cleared.queue, d) /\ u.owed = cleared.owed
          /\ u.pending_marks = cleared.pending_marks /\ u.running_job = cleared.running_job
      BY <1>2 DEF UpgradeQueued, Good, QueueState
    <3> DEFINE U(j) == IF IsMaintenance(j, d) THEN [j EXCEPT !.metadata = to_metadata(Flags)] ELSE j
               m == to_metadata(Flags)
    <3>3. u.queue = {U(j) : j \in state.queue}
      BY <1>2, <3>2 DEF Upgraded
    <3> HIDE DEF m
    <3>4. \A j \in state.queue : /\ U(j).id = j.id /\ U(j).tag = j.tag
                                 /\ IsMaintenance(j, d) => IsMaintenance(U(j), d) /\ U(j).metadata = m
      <4> TAKE j \in state.queue
      <4>1. j \in Job
        BY StateFacts
      <4>2. CASE IsMaintenance(j, d)
        <5>1. U(j) = [j EXCEPT !.metadata = m]
          BY <4>2 DEF m
        <5> QED
          BY <4>1, <4>2, <5>1 DEF Job, IsMaintenance
      <4>3. CASE ~IsMaintenance(j, d)
        BY <4>3
      <4> QED
        BY <4>2, <4>3
    <3> HIDE DEF U, u
    <3>5. \E j \in ActiveJobs(u) : IsMaintenance(j, d) /\ j.metadata = to_metadata(Flags)
      BY <2>1, <3>3, <3>4 DEF ActiveJobs, m
    <3>6. TagsFrom(state, u)
      BY <1>2, <3>2, <3>3, <3>4 DEF TagsFrom, ActiveJobs
    <3>7. Fair(state, u)
      BY <1>2, <1>5, <3>2, <3>5, <3>6
    <3> QED
      BY <2>1, <3>1, <3>7
  <2>2. CASE ~upgrade
    <3>1. Good(p) /\ Grows(cleared, p)
      BY <1>1, <1>2, <1>3, PushJobs DEF Grows
    <3>2. /\ p.owed = cleared.owed /\ p.pending_marks = cleared.pending_marks
          /\ p.running_job = cleared.running_job
          /\ \A k \in DOMAIN rs : \E j \in p.queue :
                /\ j.type = rs[k].type /\ j.db = rs[k].db /\ j.metadata = rs[k].metadata
          /\ \A j \in p.queue : j \in cleared.queue \/ \E k \in DOMAIN rs : j.tag = rs[k].tag
      BY <1>2, <1>3, PushedJobs
    <3> HIDE DEF p
    <3>3. \E j \in ActiveJobs(p) : IsMaintenance(j, d) /\ j.metadata = to_metadata(Flags)
      BY <1>3, <3>2 DEF ActiveJobs, IsMaintenance
    <3>4. TagsFrom(state, p)
      BY <1>2, <1>3, <3>2 DEF TagsFrom, ActiveJobs
    <3>5. Fair(state, p)
      BY <1>2, <1>5, <3>2, <3>3, <3>4
    <3>6. p.running_job = None => runner = 0
      BY <1>2, <3>2, NoJobNoRunner
    <3>7. Honest(p, start_next_job(p, runner # 0))
      BY <3>1, <3>6, StartHonest
    <3>8. Fair(state, start_next_job(p, runner # 0))
      BY <3>5, <3>7, FairThenHonest
    <3>9. Good(start_next_job(p, runner # 0))
      BY <1>1, <1>2, <1>3, PushedAndStarted DEF Handled, p
    <3> QED
      BY <2>2, <3>8, <3>9
  <2> QED
    BY <2>1, <2>2
<1>7. ~InMaintenance
  BY DEF InMaintenance
<1> HIDE DEF s
<1> QED
  BY <1>1, <1>6, <1>7, HandlerFaithful

LEMMA CancelRunningFaithful ==
    ASSUME IInv, NEW suppress \in BOOLEAN, CancelRunning(suppress)
    PROVE  Faithful
<1> DEFINE s == cancel_running_job_inner(state, suppress)
<1>1. \E run, ts : Commit(s, run, ts)
  BY DEF CancelRunning
<1>2. /\ Fair(state, s)
      /\ state.running_job # None /\ state.running_job.type = "DbMaintenance" => MakesNoDebt(state, s)
  BY StateFacts, CancelFair
<1>3. Good(s)
  <2>1. CASE CancelAnswered(state)
    BY <2>1, StateFacts, CancelInner
  <2>2. CASE ~CancelAnswered(state)
    BY <2>2, StateFacts, CancelUnanswered
  <2> QED
    BY <2>1, <2>2
<1> HIDE DEF s
<1> QED
  BY <1>1, <1>2, <1>3, HandlerFaithful DEF InMaintenance

LEMMA ShutdownFaithful ==
    ASSUME IInv, Shutdown
    PROVE  Faithful
<1> DEFINE dropped == [state EXCEPT !.shutting_down = TRUE, !.queue = {}, !.queued_jobs = {}]
           cancelled == cancel_running_job_inner(dropped, TRUE)
           s == maybe_unload_batch_model(cancelled)
<1>1. \E run, ts : Commit(s, run, ts)
  BY DEF Shutdown
<1>2. /\ dropped \in QueueState /\ dropped.queue = {} /\ dropped.queued_jobs = {}
      /\ dropped.running_job = state.running_job /\ dropped.shutting_down
      /\ dropped.job_counter = state.job_counter
      /\ dropped.owed = state.owed /\ dropped.pending_marks = state.pending_marks
  BY StateFacts DEF QueueState
<1> HIDE DEF dropped
<1>3. Good(dropped) /\ Dropped(state, dropped)
  BY <1>2, StateFacts DEF Good, Dropped, ActiveJobs
<1>4. /\ Fair(dropped, cancelled)
      /\ state.running_job # None /\ state.running_job.type = "DbMaintenance"
            => MakesNoDebt(dropped, cancelled)
  BY <1>2, <1>3, CancelFair
<1>5. Good(cancelled)
  <2>1. CASE CancelAnswered(dropped)
    BY <1>3, <2>1, CancelInner
  <2>2. CASE ~CancelAnswered(dropped)
    BY <1>3, <2>2, CancelUnanswered
  <2> QED
    BY <2>1, <2>2
<1> HIDE DEF cancelled
<1>6. Good(s) /\ Honest(cancelled, s) /\ MakesNoDebt(cancelled, s)
  BY <1>5, MaybeUnload, LoadsSame, SameDebtsHonest DEF Good
<1> HIDE DEF s
<1>7. Fair(state, s)
  <2>1. Fair(state, cancelled)
    BY <1>3, <1>4, DroppedThenFair
  <2> QED
    BY <1>6, <2>1, FairThenHonest
<1>8. InMaintenance => MakesNoDebt(state, s)
  <2> SUFFICES ASSUME InMaintenance PROVE MakesNoDebt(state, s)
    OBVIOUS
  <2>1. MakesNoDebt(state, dropped) /\ MakesNoDebt(dropped, cancelled)
    BY <1>3, <1>4, DroppedNoDebt DEF InMaintenance
  <2>2. MakesNoDebt(state, cancelled)
    BY <2>1, NoDebtTransitive
  <2> QED
    BY <1>6, <2>2, NoDebtTransitive
<1> QED
  BY <1>1, <1>6, <1>7, <1>8, HandlerFaithful

LEMMA RecordOwedFaithful ==
    ASSUME IInv, RecordOwed
    PROVE  Faithful
<1> DEFINE message == Head(inbox)
           s == merge_owed(state, message.db, message.summary)
<1>1. /\ inbox # <<>> /\ message.kind = "RecordOwed"
      /\ Commit(IF state.running_job # None /\ state.running_job.type = "DbMaintenance"
                THEN state ELSE s, runner, tasks)
  BY DEF RecordOwed
<1>2. message.db \in Dbs /\ message.summary \in SUBSET Flags
  BY <1>1, HeadType DEF Message
<1>3. CASE state.running_job # None /\ state.running_job.type = "DbMaintenance"
  BY <1>1, <1>3, NothingHandled
<1>4. CASE ~(state.running_job # None /\ state.running_job.type = "DbMaintenance")
  <2>1. Commit(s, runner, tasks) /\ ~InMaintenance
    BY <1>1, <1>4 DEF InMaintenance
  <2>2. Good(s) /\ Fair(state, s)
    BY <1>2, StateFacts, MergeOwed, MergeHonest, HonestIsFair
  <2> HIDE DEF s
  <2> QED
    BY <2>1, <2>2, HandlerFaithful
<1> QED
  BY <1>3, <1>4

LEMMA RunnerFinishedFaithful ==
    ASSUME IInv, RunnerFinished
    PROVE  Faithful
<1> DEFINE message == Head(inbox)
           result == message.result
           job == state.running_job
           idle == [state EXCEPT !.running_job = None]
           status == IF result.success THEN "Completed" ELSE "Failed"
           owing0 == record_owed(record_outcome(idle, message.id, status), job, result.summary)
           owing == record_batch_load(owing0, job, result)
           s == start_next_job(maybe_unload_batch_model(maybe_schedule_maintenance(owing, job.db)),
                               runner # 0)
<1>1. /\ inbox # <<>> /\ message.kind = "RunnerFinished"
      /\ Commit(IF Tracked(job, message) THEN s ELSE state, runner, tasks)
  BY DEF RunnerFinished
<1>2. message.id \in Nat \ {0} /\ result \in JobResult /\ message.id # runner
  BY <1>1, HeadType DEF Message, IInv, InboxInv
<1>3. CASE ~Tracked(job, message)
  BY <1>1, <1>3, NothingHandled
<1>4. CASE Tracked(job, message)
  <2>1. /\ job # None /\ job \in Job /\ Shaped(job) /\ job.db \in Dbs
        /\ runner = 0
    BY <1>2, <1>4, StateFacts, UnansweredCancel DEF Tracked
  <2>2. Commit(s, runner, tasks)
    BY <1>1, <1>4
  <2>3. Good(idle) /\ Dropped(state, idle)
    BY StateFacts, EndRunning, EndRunningDrops
  <2> HIDE DEF idle
  <2>4. /\ Good(owing0) /\ Honest(idle, owing0)
        /\ job.type = "DbMaintenance" => MakesNoDebt(idle, owing0)
    <3>1. status \in {"Completed", "Failed", "Cancelled"} /\ result.summary \in {None} \cup SUBSET Flags
      BY <1>2 DEF JobResult
    <3> HIDE DEF status
    <3> QED
      BY <1>2, <2>1, <2>3, <3>1, EndHonest
  <2> HIDE DEF owing0
  <2>5. Good(owing) /\ Honest(owing0, owing) /\ MakesNoDebt(owing0, owing)
    BY <1>2, <2>1, <2>4, RecordLoad, LoadsSame, SameDebtsHonest DEF Good
  <2> HIDE DEF owing
  <2>6. Honest(owing, s) /\ MakesNoDebt(owing, s)
    BY <2>1, <2>5, BoundaryHonest
  <2>7. Good(s)
    <3>1. Good(maybe_schedule_maintenance(owing, job.db))
      BY <2>1, <2>5, MaybeScheduleMaintenance
    <3>2. Good(maybe_unload_batch_model(maybe_schedule_maintenance(owing, job.db)))
      BY <3>1, MaybeUnload
    <3> DEFINE b == maybe_unload_batch_model(maybe_schedule_maintenance(owing, job.db))
    <3>3. s = start_next_job(b, FALSE)
      BY <2>1
    <3> HIDE DEF b
    <3>4. CASE b.running_job = None
      BY <3>2, <3>3, <3>4, StartNextJob DEF b
    <3>5. CASE b.running_job # None
      BY <3>2, <3>3, <3>5, StartNothing DEF b
    <3> QED
      BY <3>4, <3>5
  <2> HIDE DEF s
  <2>8. Fair(state, s)
    <3>1. Honest(idle, owing)
      BY <2>4, <2>5, HonestTransitive
    <3>2. Honest(idle, s)
      BY <2>6, <3>1, HonestTransitive
    <3> QED
      BY <2>3, <3>2, HonestIsFair, DroppedThenFair
  <2>9. InMaintenance => MakesNoDebt(state, s)
    <3> SUFFICES ASSUME InMaintenance PROVE MakesNoDebt(state, s)
      OBVIOUS
    <3>1. MakesNoDebt(state, idle) /\ MakesNoDebt(idle, owing0)
      BY <2>3, <2>4, DroppedNoDebt DEF InMaintenance
    <3>2. MakesNoDebt(state, owing0)
      BY <3>1, NoDebtTransitive
    <3>3. MakesNoDebt(state, owing)
      BY <2>5, <3>2, NoDebtTransitive
    <3> QED
      BY <2>6, <3>3, NoDebtTransitive
  <2> QED
    BY <2>2, <2>7, <2>8, <2>9, HandlerFaithful
<1> QED
  BY <1>3, <1>4

LEMMA RemovingDrops ==
    ASSUME IInv, NEW listed, NEW log
    PROVE  Dropped(state, record_outcomes(
                              [state EXCEPT !.queued_jobs = @ \ listed,
                                            !.queue = {j \in @ : j.id \notin {l.id : l \in listed}}],
                              log))
<1> DEFINE ids == {l.id : l \in listed}
           e == [state EXCEPT !.queued_jobs = @ \ listed, !.queue = {j \in @ : j.id \notin ids}]
           r == record_outcomes(e, log)
<1>1. /\ e.owed = state.owed /\ e.pending_marks = state.pending_marks
      /\ e.queue \subseteq state.queue /\ e.running_job = state.running_job
      /\ r.owed = e.owed /\ r.pending_marks = e.pending_marks
      /\ r.queue = e.queue /\ r.running_job = e.running_job
  BY StateFacts DEF QueueState, record_outcomes
<1> HIDE DEF e, r
<1>2. Dropped(state, r)
  BY <1>1 DEF Dropped, ActiveJobs
<1> QED
  BY <1>2 DEF r, e

LEMMA CancelQueuedFaithful ==
    ASSUME IInv, NEW listed \in SUBSET state.queued_jobs, NEW with_running \in BOOLEAN,
           NEW suppress \in BOOLEAN, CancelQueued(listed, with_running, suppress)
    PROVE  Faithful
<1> DEFINE Removed(order) ==
             record_outcomes(
                [state EXCEPT !.queued_jobs = @ \ listed,
                              !.queue = {j \in @ : j.id \notin {l.id : l \in listed}}],
                [k \in DOMAIN order |-> [id |-> order[k].id, status |-> "Cancelled"]])
           Cancelled(order) == IF with_running THEN cancel_running_job_inner(Removed(order), suppress)
                               ELSE Removed(order)
           Due(order) == {d \in {j.db : j \in listed} : ~suppress /\ MaintenanceDue(Cancelled(order), d)}
           Final(order, ds) == maybe_unload_batch_model(schedule_maintenance(Cancelled(order), ds))
<1>1. PICK order \in SetToSeqs(listed) : \E ds \in SetToSeqs(Due(order)) : \E run, ts :
           Commit(start_next_job(Final(order, ds), ~with_running /\ runner # 0), run, ts)
  BY DEF CancelQueued
<1>2. PICK ds \in SetToSeqs(Due(order)) : \E run, ts :
           Commit(start_next_job(Final(order, ds), ~with_running /\ runner # 0), run, ts)
  BY <1>1
<1>3. with_running => state.running_job # None
  BY DEF CancelQueued
<1> DEFINE removed == Removed(order)
           cancelled == Cancelled(order)
           due == Due(order)
           scheduled == schedule_maintenance(cancelled, ds)
           final == Final(order, ds)
           s == start_next_job(final, ~with_running /\ runner # 0)
<1>4. /\ Good(removed) /\ removed.running_job = state.running_job
      /\ Dropped(state, removed)
  BY Removing, RemovingDrops
<1> HIDE DEF Removed
<1>5. /\ Good(cancelled) /\ Fair(removed, cancelled)
      /\ InMaintenance => MakesNoDebt(removed, cancelled)
      /\ ~with_running => cancelled = removed
  <2>1. CASE with_running
    <3>1. /\ Fair(removed, cancelled)
          /\ removed.running_job # None /\ removed.running_job.type = "DbMaintenance"
                => MakesNoDebt(removed, cancelled)
      BY <1>4, <2>1, CancelFair
    <3>2. Good(cancelled)
      <4>1. CASE CancelAnswered(removed)
        BY <1>4, <2>1, <4>1, CancelInner
      <4>2. CASE ~CancelAnswered(removed)
        BY <1>4, <2>1, <4>2, CancelUnanswered
      <4> QED
        BY <4>1, <4>2
    <3> QED
      BY <1>4, <2>1, <3>1, <3>2 DEF InMaintenance
  <2>2. CASE ~with_running
    <3>1. cancelled = removed /\ SameDebts(removed, removed)
      BY <2>2 DEF SameDebts
    <3> QED
      BY <1>4, <3>1, SameDebtsHonest, HonestIsFair
  <2> QED
    BY <2>1, <2>2
<1> HIDE DEF Cancelled
<1>6. ds \in Seq(Dbs) /\ (cancelled.shutting_down => ds = <<>>)
  <2>1. due \subseteq Dbs /\ IsFiniteSet(due)
    <3>1. due \subseteq Dbs
      BY StateFacts DEF Job
    <3> QED
      BY <3>1, DbsAssumption, FS_Subset
  <2>2. ds \in Seq(due)
    BY <2>1, SetToSeqsType
  <2>3. cancelled.shutting_down => due = {}
    BY DEF MaintenanceDue
  <2>4. due = {} => ds = <<>>
    BY <2>2
  <2> QED
    BY <2>1, <2>2, <2>3, <2>4
<1> HIDE DEF Due
<1>7. /\ Good(scheduled) /\ Grows(cancelled, scheduled)
      /\ Honest(cancelled, scheduled) /\ MakesNoDebt(cancelled, scheduled)
  BY <1>5, <1>6, ScheduleMaintenance, ScheduleHonest
<1>8. final = maybe_unload_batch_model(scheduled)
  OBVIOUS
<1> HIDE DEF scheduled, Final
<1>9. /\ Good(final) /\ Grows(scheduled, final)
      /\ Honest(scheduled, final) /\ MakesNoDebt(scheduled, final)
  BY <1>7, <1>8, MaybeUnload, LoadsSame, SameDebtsHonest DEF Good
<1>10. final.running_job = None => ~(~with_running /\ runner # 0)
  BY <1>4, <1>5, <1>7, <1>9, NoJobNoRunner DEF Grows
<1>11. Honest(final, s) /\ MakesNoDebt(final, s)
  <2>1. (~with_running /\ runner # 0) \in BOOLEAN
    OBVIOUS
  <2> QED
    BY <1>9, <1>10, <2>1, StartHonest
<1>12. Good(s)
  <2>1. CASE final.running_job = None
    <3>1. s = start_next_job(final, FALSE)
      BY <1>10, <2>1
    <3> QED
      BY <1>9, <2>1, <3>1, StartNextJob
  <2>2. CASE final.running_job # None
    BY <1>9, <2>2, StartNothing
  <2> QED
    BY <2>1, <2>2
<1>13. \E run, ts : Commit(s, run, ts)
  BY <1>2
<1> HIDE DEF s, final, cancelled, removed
<1>14. Fair(state, s)
  <2>1. Honest(cancelled, final)
    BY <1>7, <1>9, HonestTransitive
  <2>2. Honest(cancelled, s)
    BY <1>11, <2>1, HonestTransitive
  <2>3. Fair(removed, s)
    BY <1>5, <2>2, FairThenHonest
  <2> QED
    BY <1>4, <2>3, DroppedThenFair
<1>15. InMaintenance => MakesNoDebt(state, s)
  <2> SUFFICES ASSUME InMaintenance PROVE MakesNoDebt(state, s)
    OBVIOUS
  <2>1. MakesNoDebt(state, removed) /\ MakesNoDebt(removed, cancelled)
    BY <1>4, <1>5, DroppedNoDebt
  <2>2. MakesNoDebt(state, cancelled)
    BY <2>1, NoDebtTransitive
  <2>3. MakesNoDebt(state, scheduled)
    BY <1>7, <2>2, NoDebtTransitive
  <2>4. MakesNoDebt(state, final)
    BY <1>9, <2>3, NoDebtTransitive
  <2> QED
    BY <1>11, <2>4, NoDebtTransitive
<1> QED
  BY <1>12, <1>13, <1>14, <1>15, HandlerFaithful

LEMMA NextFaithful ==
    ASSUME IInv, Next
    PROVE  Faithful
<1>1. CASE ClientStep
  BY <1>1, EnqueueFaithful, EnqueueBatchFaithful, EnqueueMaintenanceFaithful,
     CancelRunningFaithful, CancelQueuedFaithful, ShutdownFaithful DEF ClientStep
<1>2. CASE RunnerFinished
  BY <1>2, RunnerFinishedFaithful
<1>3. CASE RecordOwed
  BY <1>3, RecordOwedFaithful
<1>4. CASE \E t \in tasks : TaskStep(t)
  <2>1. state' = state
    BY <1>4 DEF TaskStep, ReportResync, BeginBatchLoad, BatchLoaded, JobEnds, AbortLands, JobCompleted
  <2> QED
    BY <2>1, ActorIdle
<1>5. CASE \E u \in unloads : UnloadStep(u)
  <2>1. state' = state
    BY <1>5 DEF UnloadStep, UnloadLocks, UnloadEnds, UnloadLost
  <2> QED
    BY <2>1, ActorIdle
<1> QED
  BY <1>1, <1>2, <1>3, <1>4, <1>5 DEF Next

(* For any clients, crons, cancellations and completions: an owed flag only *)
(* leaves into a maintenance job that carries it, a maintenance pass makes  *)
(* no new debt, a debt about tags is marked by the message that makes it,   *)
(* and a tick is never queued beside an unfinished one.                     *)
THEOREM HandlersAlwaysKeepFaith == Spec => HandlersKeepFaith
<1>1. IInv /\ [Next]_vars =>
        [\A d \in Dbs :
          state.owed[d] \subseteq state'.owed[d] \cup MaintenanceFlags(ActiveJobs(state)', d)]_vars
  BY NextFaithful DEF Faithful, NoDebtForgotten
<1>2. IInv /\ [Next]_vars =>
        [state.running_job # None /\ state.running_job.type = "DbMaintenance"
         /\ ~(\E d \in Dbs : EnqueueMaintenance(d))
         => \A d \in Dbs :
              state'.owed[d] \cup MaintenanceFlags(state.queue, d)'
                  \subseteq state.owed[d] \cup MaintenanceFlags(state.queue, d)]_vars
  BY NextFaithful DEF Faithful, InMaintenance, NoDebtMade
<1>3. IInv /\ [Next]_vars =>
        [\A d \in Dbs : "tags" \in state'.owed[d] \ state.owed[d] => d \in marks']_vars
  BY NextFaithful DEF Faithful, TagDebtMarked
<1>4. IInv /\ [Next]_vars =>
        [\A old \in ActiveJobs(state), new \in ActiveJobs(state)' :
          state.job_counter < new.id /\ new.tag # None
          => ~(old.tag = new.tag /\ old.db = new.db)]_vars
  BY NextFaithful DEF Faithful, NoTickBeside
<1> QED
  BY <1>1, <1>2, <1>3, <1>4, Invariance, PTL
     DEF Spec, HandlersKeepFaith, DebtsAreKept, OwedNotLost, NoMaintenanceLoop,
         NewTagDebtIsMarked, TicksNeverOverlap

-----------------------------------------------------------------------------
(* Boundaries: what the functions on the state do to the log of outcomes   *)
(* and to the jobs that wait or run.                                       *)
ActiveId(s, i) == \E j \in ActiveJobs(s) : j.id = i
LoggedId(s, i) == \E k \in DOMAIN s.outcomes : s.outcomes[k].id = i

Logged(s) ==
    /\ Len(s.outcomes) <= MaxRecentOutcomes
    /\ \A k \in DOMAIN s.outcomes :
          s.outcomes[k].id <= s.job_counter /\ ~ActiveId(s, s.outcomes[k].id)
    /\ \A k, l \in DOMAIN s.outcomes : s.outcomes[k].id = s.outcomes[l].id => k = l
    /\ Len(s.outcomes) < MaxRecentOutcomes /\ ~s.shutting_down =>
          \A i \in 1 .. s.job_counter : ActiveId(s, i) \/ LoggedId(s, i)

Single(s) ==
    \A j, k \in ActiveJobs(s) :
        j.type = "DbMaintenance" /\ k.type = "DbMaintenance" /\ j.db = k.db => j = k

Tidy(s) == Logged(s) /\ Single(s)

ModelInUse(s) == s.batch_loaded # None => s.running_job # None

SameLog(s, t) ==
    /\ t.outcomes = s.outcomes /\ t.job_counter = s.job_counter
    /\ t.shutting_down = s.shutting_down /\ ActiveJobs(t) = ActiveJobs(s)

LEMMA SameLogTidy ==
    ASSUME NEW s, NEW t, Tidy(s), SameLog(s, t)
    PROVE  Tidy(t)
BY DEF SameLog, Tidy, Logged, Single, ActiveId, LoggedId

LEMMA ActiveFacts ==
    ASSUME NEW s, Good(s)
    PROVE  /\ s.job_counter \in Nat /\ s.outcomes \in Seq(Outcome)
           /\ \A j \in ActiveJobs(s) : j \in Job /\ j.id \in Nat \ {0} /\ j.id <= s.job_counter
           /\ \A j, k \in ActiveJobs(s) : j.id = k.id => j = k
<1>1. /\ s.job_counter \in Nat /\ s.outcomes \in Seq(Outcome) /\ s.queue \subseteq Job
      /\ s.running_job # None => s.running_job \in Job
  BY DEF Good, QueueState
<1>2. \A j \in ActiveJobs(s) : j \in Job /\ j.id <= s.job_counter
  BY <1>1 DEF ActiveJobs, Good
<1>3. \A j \in ActiveJobs(s) : j.id \in Nat \ {0}
  BY <1>2 DEF Job
<1>4. s.running_job # None => \A j \in s.queue : s.running_job.id # j.id
  BY <1>1 DEF Good, Job
<1>5. \A j, k \in ActiveJobs(s) : j.id = k.id => j = k
  BY <1>4 DEF ActiveJobs, Good
<1> QED
  BY <1>1, <1>2, <1>3, <1>5

(* Jobs leave with their outcomes logged, one each.                        *)
LEMMA RecordTidy ==
    ASSUME NEW s, Good(s), Tidy(s), NEW r, Good(r), NEW log \in Seq(Outcome),
           r.outcomes = s.outcomes, r.job_counter = s.job_counter,
           r.shutting_down = s.shutting_down, ActiveJobs(r) \subseteq ActiveJobs(s),
           \A k \in DOMAIN log : ActiveId(s, log[k].id) /\ ~ActiveId(r, log[k].id),
           \A k, l \in DOMAIN log : log[k].id = log[l].id => k = l,
           \A j \in ActiveJobs(s) \ ActiveJobs(r) : \E k \in DOMAIN log : log[k].id = j.id
    PROVE  Tidy(record_outcomes(r, log))
<1> DEFINE all == s.outcomes \o log
           a == Len(s.outcomes)
           b == Len(log)
           x == IF (a + b) - MaxRecentOutcomes > 0 THEN (a + b) - MaxRecentOutcomes ELSE 0
           t == record_outcomes(r, log)
<1>1. /\ s.outcomes \in Seq(Outcome) /\ s.job_counter \in Nat
      /\ a \in Nat /\ DOMAIN s.outcomes = 1 .. a
      /\ b \in Nat /\ DOMAIN log = 1 .. b
      /\ MaxRecentOutcomes \in Nat \ {0}
  BY ActiveFacts, BoundsAssumption
<1>2. /\ all \in Seq(Outcome) /\ Len(all) = a + b /\ DOMAIN all = 1 .. a + b
      /\ \A i \in DOMAIN s.outcomes : i \in 1 .. a + b /\ all[i] = s.outcomes[i]
      /\ \A i \in DOMAIN log : i + a \in 1 .. a + b /\ all[i + a] = log[i]
  <2>1. /\ all \in Seq(Outcome) /\ Len(all) = a + b
        /\ \A i \in 1 .. a + b : all[i] = IF i <= a THEN s.outcomes[i] ELSE log[i - a]
    BY <1>1, ConcatProperties
  <2> HIDE DEF all, a, b
  <2>2. DOMAIN all = 1 .. a + b
    BY <2>1
  <2>3. \A i \in DOMAIN s.outcomes : i \in 1 .. a + b /\ all[i] = s.outcomes[i]
    BY <1>1, <2>1
  <2>4. ASSUME NEW i \in DOMAIN log PROVE i + a \in 1 .. a + b /\ all[i + a] = log[i]
    <3>1. i \in 1 .. b /\ i + a \in 1 .. a + b /\ ~(i + a <= a) /\ (i + a) - a = i
      BY <1>1
    <3> QED
      BY <2>1, <3>1
  <2> QED
    BY <2>1, <2>2, <2>3, <2>4
<1>3. /\ t.job_counter = r.job_counter /\ t.shutting_down = r.shutting_down
      /\ t.queue = r.queue /\ t.running_job = r.running_job
      /\ t.outcomes = IF (a + b) - MaxRecentOutcomes > 0
                      THEN SubSeq(all, (a + b) - MaxRecentOutcomes + 1, a + b) ELSE all
  <2>1. t = [r EXCEPT !.outcomes = IF (a + b) - MaxRecentOutcomes > 0
                                   THEN SubSeq(all, (a + b) - MaxRecentOutcomes + 1, a + b) ELSE all]
    <3>1. r.outcomes \o log = all
      OBVIOUS
    <3> HIDE DEF a, b, all
    <3>2. t = [r EXCEPT !.outcomes = IF Len(all) - MaxRecentOutcomes > 0
                                     THEN SubSeq(all, Len(all) - MaxRecentOutcomes + 1, Len(all))
                                     ELSE all]
      BY <3>1, Zenon DEF record_outcomes
    <3>3. Len(all) = a + b
      BY <1>2
    <3> HIDE DEF t
    <3> QED
      BY <3>2, <3>3
  <2> HIDE DEF all, a, b, t
  <2> QED
    BY <2>1 DEF Good, QueueState
<1> HIDE DEF all, a, b, t
<1>4. /\ x \in Nat /\ x <= a + b /\ (a + b) - x <= MaxRecentOutcomes
      /\ (a + b) - x < MaxRecentOutcomes => x = 0
  BY <1>1
<1>5. /\ Len(t.outcomes) = (a + b) - x
      /\ DOMAIN t.outcomes = 1 .. (a + b) - x
      /\ \A k \in DOMAIN t.outcomes : k + x \in 1 .. a + b /\ t.outcomes[k] = all[k + x]
  <2>1. CASE (a + b) - MaxRecentOutcomes > 0
    <3>1. x = (a + b) - MaxRecentOutcomes
      BY <2>1
    <3>2. t.outcomes = SubSeq(all, x + 1, a + b) /\ \A i \in x + 1 .. a + b : all[i] \in Outcome
      BY <1>1, <1>2, <1>3, <2>1, <3>1
    <3> HIDE DEF x
    <3> DEFINE m == x + 1
               n == a + b
    <3>3. m = x + 1 /\ n = a + b /\ m \in Int /\ n \in Int
      BY <1>1, <1>4
    <3>4. t.outcomes = SubSeq(all, m, n) /\ \A i \in m .. n : all[i] \in Outcome
      BY <3>2
    <3> HIDE DEF m, n
    <3>5. /\ SubSeq(all, m, n) \in Seq(Outcome)
          /\ Len(SubSeq(all, m, n)) = IF m <= n THEN n - m + 1 ELSE 0
          /\ \A i \in 1 .. n - m + 1 : SubSeq(all, m, n)[i] = all[m + i - 1]
      BY <3>3, <3>4, SubSeqProperties
    <3>6. /\ t.outcomes \in Seq(Outcome)
          /\ Len(t.outcomes) = IF m <= n THEN n - m + 1 ELSE 0
          /\ \A i \in 1 .. n - m + 1 : t.outcomes[i] = all[m + i - 1]
      BY <3>4, <3>5, Zenon
    <3>7. Len(t.outcomes) = (a + b) - x
      BY <1>1, <1>4, <3>3, <3>6
    <3>8. DOMAIN t.outcomes = 1 .. (a + b) - x
      BY <3>6, <3>7
    <3>9. ASSUME NEW k \in 1 .. (a + b) - x
          PROVE  k + x \in 1 .. a + b /\ t.outcomes[k] = all[k + x]
      <4>1. k + x \in 1 .. a + b /\ k \in 1 .. n - m + 1 /\ m + k - 1 = k + x
        BY <1>1, <1>4, <3>3
      <4> QED
        BY <3>6, <4>1
    <3> QED
      BY <3>7, <3>8, <3>9
  <2>2. CASE ~((a + b) - MaxRecentOutcomes > 0)
    <3>1. x = 0 /\ t.outcomes = all
      BY <1>3, <2>2
    <3> HIDE DEF x
    <3>2. \A k \in 1 .. a + b : k + x = k
      BY <1>1, <3>1
    <3> QED
      BY <1>1, <1>2, <3>1, <3>2
  <2> QED
    BY <2>1, <2>2
<1> HIDE DEF x
<1>6. ActiveJobs(t) = ActiveJobs(r) /\ (\A i : ActiveId(t, i) = ActiveId(r, i))
  BY <1>3 DEF ActiveJobs, ActiveId
<1>7. \A i \in 1 .. a + b :
          \/ i \in DOMAIN s.outcomes
          \/ i - a \in DOMAIN log /\ (i - a) + a = i
  BY <1>1
<1>8. \A i \in 1 .. a + b : all[i].id <= s.job_counter /\ ~ActiveId(r, all[i].id)
  <2> TAKE i \in 1 .. a + b
  <2>1. CASE i \in DOMAIN s.outcomes
    <3>1. ~ActiveId(s, all[i].id) /\ all[i].id <= s.job_counter
      BY <1>2, <2>1 DEF Tidy, Logged
    <3> QED
      BY <3>1 DEF ActiveId
  <2>2. CASE i - a \in DOMAIN log /\ (i - a) + a = i
    <3>1. all[i] = log[i - a]
      BY <1>2, <2>2
    <3>2. ActiveId(s, all[i].id) /\ ~ActiveId(r, all[i].id)
      BY <2>2, <3>1
    <3> QED
      BY <3>2, ActiveFacts DEF ActiveId
  <2> QED
    BY <1>7, <2>1, <2>2
<1>9. \A i, j \in 1 .. a + b : all[i].id = all[j].id => i = j
  <2>1. \A i \in DOMAIN s.outcomes, j \in DOMAIN log : s.outcomes[i].id # log[j].id
    BY DEF Tidy, Logged
  <2>2. \A i, j \in DOMAIN s.outcomes : s.outcomes[i].id = s.outcomes[j].id => i = j
    BY DEF Tidy, Logged
  <2> SUFFICES ASSUME NEW i \in 1 .. a + b, NEW j \in 1 .. a + b, all[i].id = all[j].id
               PROVE  i = j
    OBVIOUS
  <2>3. CASE i \in DOMAIN s.outcomes
    <3>1. j \in DOMAIN s.outcomes
      <4> SUFFICES ASSUME j - a \in DOMAIN log, (j - a) + a = j PROVE FALSE
        BY <1>7
      <4> QED
        BY <1>2, <2>1, <2>3
    <3> QED
      BY <1>2, <2>2, <2>3, <3>1
  <2>4. CASE i - a \in DOMAIN log /\ (i - a) + a = i
    <3>1. all[i] = log[i - a]
      BY <1>2, <2>4
    <3>2. j \notin DOMAIN s.outcomes
      BY <1>2, <2>1, <2>4, <3>1
    <3>3. j - a \in DOMAIN log /\ (j - a) + a = j
      BY <1>7, <3>2
    <3>4. all[j] = log[j - a]
      BY <1>2, <3>3
    <3>5. i - a = j - a
      BY <2>4, <3>1, <3>3, <3>4
    <3> QED
      BY <2>4, <3>3, <3>5
  <2> QED
    BY <1>7, <2>3, <2>4
<1>10. Len(t.outcomes) < MaxRecentOutcomes /\ ~t.shutting_down =>
          \A i \in 1 .. t.job_counter : ActiveId(t, i) \/ LoggedId(t, i)
  <2> SUFFICES ASSUME Len(t.outcomes) < MaxRecentOutcomes, ~s.shutting_down,
                      NEW i \in 1 .. s.job_counter
               PROVE  ActiveId(r, i) \/ LoggedId(t, i)
    BY <1>3, <1>6
  <2>1. x = 0 /\ a < MaxRecentOutcomes
    BY <1>1, <1>4, <1>5
  <2>2. \A k \in 1 .. a + b : k \in DOMAIN t.outcomes /\ t.outcomes[k] = all[k]
    <3>1. (a + b) - x = a + b /\ \A k \in 1 .. a + b : k + x = k
      BY <1>1, <2>1
    <3> QED
      BY <1>5, <3>1
  <2>3. ActiveId(s, i) \/ LoggedId(s, i)
    BY <2>1 DEF Tidy, Logged, a
  <2>4. CASE LoggedId(s, i)
    <3>1. PICK k \in DOMAIN s.outcomes : s.outcomes[k].id = i
      BY <2>4 DEF LoggedId
    <3> QED
      BY <1>2, <2>2, <3>1 DEF LoggedId
  <2>5. CASE ActiveId(s, i) /\ ~ActiveId(r, i)
    <3>1. PICK k \in DOMAIN log : log[k].id = i
      BY <2>5 DEF ActiveId
    <3> QED
      BY <1>2, <2>2, <3>1 DEF LoggedId
  <2> QED
    BY <2>3, <2>4, <2>5
<1>11. Logged(t)
  <2>1. Len(t.outcomes) <= MaxRecentOutcomes
    BY <1>4, <1>5
  <2>2. \A k \in DOMAIN t.outcomes :
            t.outcomes[k].id <= t.job_counter /\ ~ActiveId(t, t.outcomes[k].id)
    BY <1>3, <1>5, <1>6, <1>8
  <2>3. \A k, l \in DOMAIN t.outcomes : t.outcomes[k].id = t.outcomes[l].id => k = l
    <3> SUFFICES ASSUME NEW k \in DOMAIN t.outcomes, NEW l \in DOMAIN t.outcomes,
                        t.outcomes[k].id = t.outcomes[l].id
                 PROVE  k = l
      OBVIOUS
    <3>1. k + x = l + x
      BY <1>5, <1>9
    <3>2. k \in Int /\ l \in Int
      BY <1>5
    <3> QED
      BY <1>4, <3>1, <3>2
  <2> QED
    BY <1>10, <2>1, <2>2, <2>3 DEF Logged
<1>12. Single(t)
  BY <1>6 DEF Tidy, Single
<1> QED
  BY <1>11, <1>12 DEF Tidy, t

(* New jobs get new ids, and a maintenance job is only new where there is   *)
(* none.                                                                    *)
LEMMA PushTidy ==
    ASSUME NEW s, Good(s), Tidy(s), NEW rs \in Seq(JobRequest),
           \A k \in DOMAIN rs, j \in ActiveJobs(s) :
               rs[k].type = "DbMaintenance" => ~IsMaintenance(j, rs[k].db),
           \A k, l \in DOMAIN rs :
               /\ rs[k].type = "DbMaintenance" /\ rs[l].type = "DbMaintenance"
               /\ rs[k].db = rs[l].db
               => k = l
    PROVE  LET t == push_jobs(s, rs)
           IN  Tidy(t) /\ t.batch_loaded = s.batch_loaded
<1> DEFINE Pushed(k) == [id |-> s.job_counter + k, type |-> rs[k].type, db |-> rs[k].db,
                         metadata |-> rs[k].metadata, tag |-> rs[k].tag]
           new == {Pushed(k) : k \in DOMAIN rs}
           t == push_jobs(s, rs)
<1>1. /\ s.job_counter \in Nat /\ s.outcomes \in Seq(Outcome)
      /\ \A j \in ActiveJobs(s) : j \in Job /\ j.id \in Nat \ {0} /\ j.id <= s.job_counter
  BY ActiveFacts
<1>2. DOMAIN rs = 1 .. Len(rs) /\ Len(rs) \in Nat
  OBVIOUS
<1>3. /\ t.outcomes = s.outcomes /\ t.job_counter = s.job_counter + Len(rs)
      /\ t.shutting_down = s.shutting_down /\ t.batch_loaded = s.batch_loaded
      /\ t.queue = s.queue \cup new /\ t.running_job = s.running_job
  BY DEF push_jobs, Good, QueueState
<1> HIDE DEF t
<1>4. \A k \in DOMAIN rs :
          /\ Pushed(k).id = s.job_counter + k
          /\ Pushed(k).type = rs[k].type /\ Pushed(k).db = rs[k].db
  OBVIOUS
<1> HIDE DEF Pushed
<1>5. /\ \A j \in ActiveJobs(t) : j \in ActiveJobs(s) \/ \E k \in DOMAIN rs : j = Pushed(k)
      /\ ActiveJobs(s) \subseteq ActiveJobs(t)
      /\ \A k \in DOMAIN rs : Pushed(k) \in ActiveJobs(t)
  BY <1>3 DEF ActiveJobs
<1> HIDE DEF new
<1>6. \A k \in DOMAIN t.outcomes :
          t.outcomes[k].id <= t.job_counter /\ ~ActiveId(t, t.outcomes[k].id)
  <2> SUFFICES ASSUME NEW k \in DOMAIN s.outcomes
               PROVE  s.outcomes[k].id <= t.job_counter /\ ~ActiveId(t, s.outcomes[k].id)
    BY <1>3
  <2>1. s.outcomes[k].id \in Nat /\ s.outcomes[k].id <= s.job_counter
    <3>1. s.outcomes[k] \in Outcome
      BY <1>1
    <3> QED
      BY <3>1 DEF Tidy, Logged, Outcome
  <2>2. ~ActiveId(s, s.outcomes[k].id)
    BY DEF Tidy, Logged
  <2>3. \A l \in DOMAIN rs : Pushed(l).id # s.outcomes[k].id
    BY <1>1, <1>2, <1>4, <2>1
  <2>4. ~ActiveId(t, s.outcomes[k].id)
    BY <1>5, <2>2, <2>3 DEF ActiveId
  <2> QED
    BY <1>1, <1>2, <1>3, <2>1, <2>4
<1>7. Len(t.outcomes) < MaxRecentOutcomes /\ ~t.shutting_down =>
          \A i \in 1 .. t.job_counter : ActiveId(t, i) \/ LoggedId(t, i)
  <2> SUFFICES ASSUME Len(s.outcomes) < MaxRecentOutcomes, ~s.shutting_down,
                      NEW i \in 1 .. s.job_counter + Len(rs)
               PROVE  ActiveId(t, i) \/ LoggedId(t, i)
    BY <1>3
  <2>1. CASE i <= s.job_counter
    <3>1. i \in 1 .. s.job_counter
      BY <1>1, <1>2, <2>1
    <3>2. ActiveId(s, i) \/ LoggedId(s, i)
      BY <3>1 DEF Tidy, Logged
    <3> QED
      BY <1>3, <1>5, <3>2 DEF ActiveId, LoggedId
  <2>2. CASE ~(i <= s.job_counter)
    <3>1. i - s.job_counter \in DOMAIN rs /\ s.job_counter + (i - s.job_counter) = i
      BY <1>1, <1>2, <2>2
    <3>2. Pushed(i - s.job_counter).id = i
      BY <1>4, <3>1
    <3> QED
      BY <1>5, <3>1, <3>2 DEF ActiveId
  <2> QED
    BY <2>1, <2>2
<1>8. Logged(t)
  <2>1. /\ Len(t.outcomes) <= MaxRecentOutcomes
        /\ \A k, l \in DOMAIN t.outcomes : t.outcomes[k].id = t.outcomes[l].id => k = l
    BY <1>3 DEF Tidy, Logged
  <2> QED
    BY <1>6, <1>7, <2>1 DEF Logged
<1>9. Single(t)
  <2> SUFFICES ASSUME NEW j \in ActiveJobs(t), NEW k \in ActiveJobs(t),
                      j.type = "DbMaintenance", k.type = "DbMaintenance", j.db = k.db
               PROVE  j = k
    BY DEF Single
  <2>1. CASE j \in ActiveJobs(s) /\ k \in ActiveJobs(s)
    BY <2>1 DEF Tidy, Single
  <2>2. \A a \in ActiveJobs(s), b \in DOMAIN rs :
            ~(/\ a.type = "DbMaintenance" /\ Pushed(b).type = "DbMaintenance"
              /\ a.db = Pushed(b).db)
    BY <1>4 DEF IsMaintenance
  <2>3. \A a, b \in DOMAIN rs :
            /\ Pushed(a).type = "DbMaintenance" /\ Pushed(b).type = "DbMaintenance"
            /\ Pushed(a).db = Pushed(b).db
            => a = b
    BY <1>4
  <2> QED
    BY <1>5, <2>1, <2>2, <2>3
<1> QED
  BY <1>3, <1>8, <1>9 DEF Tidy, t

(* What leaves the jobs, the log and the loaded model alone.                *)
LEMMA MergeSame ==
    ASSUME NEW s, Good(s), NEW d, NEW summary, NEW job
    PROVE  /\ SameLog(s, merge_owed(s, d, summary))
           /\ merge_owed(s, d, summary).batch_loaded = s.batch_loaded
           /\ SameLog(s, record_owed(s, job, summary))
           /\ record_owed(s, job, summary).batch_loaded = s.batch_loaded
<1>1. s \in QueueState
  BY DEF Good
<1>2. \A e, f : /\ SameLog(s, merge_owed(s, e, f))
                /\ merge_owed(s, e, f).batch_loaded = s.batch_loaded
                /\ merge_owed(s, e, f).running_job = s.running_job
  BY <1>1 DEF SameLog, merge_owed, ActiveJobs, QueueState
<1>3. SameLog(s, s)
  BY DEF SameLog
<1> QED
  BY <1>2, <1>3 DEF record_owed

LEMMA LoadSame ==
    ASSUME NEW s, Good(s), NEW job, NEW result
    PROVE  /\ SameLog(s, record_unreported_batch_load(s, job))
           /\ SameLog(s, record_batch_load(s, job, result))
           /\ SameLog(s, maybe_unload_batch_model(s))
BY DEF SameLog, record_unreported_batch_load, record_batch_load, maybe_unload_batch_model,
       ActiveJobs, Good, QueueState

LEMMA ScheduleTidy ==
    ASSUME NEW s, Good(s), Tidy(s), NEW ds \in Seq(Dbs),
           \A k \in DOMAIN ds : MaintenanceDue(s, ds[k]),
           \A k, l \in DOMAIN ds : ds[k] = ds[l] => k = l
    PROVE  LET t == schedule_maintenance(s, ds)
           IN  Tidy(t) /\ t.batch_loaded = s.batch_loaded
<1> DEFINE due == {ds[k] : k \in DOMAIN ds}
           rs == [k \in DOMAIN ds |-> MaintenanceRequest(ds[k], s.owed[ds[k]])]
           p == push_jobs(s, rs)
           owed == [d \in Dbs |-> IF d \in due THEN {} ELSE s.owed[d]]
           pending == {d \in p.pending_marks : d \notin due \/ "tags" \notin s.owed[d]}
           t == schedule_maintenance(s, ds)
<1>1. s \in QueueState /\ s.owed \in [Dbs -> SUBSET Flags]
  BY DEF Good, QueueState
<1>2. DOMAIN ds = 1 .. Len(ds) /\ Len(ds) \in Nat /\ \A k \in DOMAIN ds : ds[k] \in Dbs
  OBVIOUS
<1>3. \A k \in DOMAIN ds : MaintenanceRequest(ds[k], s.owed[ds[k]]) \in JobRequest
  BY <1>1, <1>2 DEF MaintenanceRequest, JobRequest, JobType, to_metadata, FlagNames
<1>4. rs \in [1 .. Len(ds) -> JobRequest]
  BY <1>2, <1>3
<1>5. rs \in Seq(JobRequest)
  BY <1>2, <1>4, SeqDef
<1>6. DOMAIN rs = DOMAIN ds /\ \A k \in DOMAIN ds : rs[k].db = ds[k]
  BY DEF MaintenanceRequest
<1>7. t = [p EXCEPT !.owed = owed, !.pending_marks = pending]
  BY DEF schedule_maintenance
<1>8. p = [s EXCEPT !.job_counter = p.job_counter, !.queue = p.queue,
                    !.queued_jobs = p.queued_jobs]
  BY <1>1 DEF push_jobs, QueueState
<1> HIDE DEF rs
<1>9. Tidy(p) /\ p.batch_loaded = s.batch_loaded
  <2>1. \A k \in DOMAIN rs, j \in ActiveJobs(s) : ~IsMaintenance(j, rs[k].db)
    BY <1>6 DEF MaintenanceDue, IsMaintenance
  <2>2. \A k, l \in DOMAIN rs : rs[k].db = rs[l].db => k = l
    BY <1>6
  <2> QED
    BY <1>5, <2>1, <2>2, PushTidy
<1> HIDE DEF p, owed, pending
<1>10. SameLog(p, t) /\ t.batch_loaded = p.batch_loaded
  BY <1>1, <1>7, <1>8 DEF SameLog, ActiveJobs, QueueState
<1> HIDE DEF t
<1> QED
  BY <1>9, <1>10, SameLogTidy DEF t

LEMMA MaybeScheduleTidy ==
    ASSUME NEW s, Good(s), Tidy(s), NEW d \in Dbs
    PROVE  LET t == maybe_schedule_maintenance(s, d)
           IN  Tidy(t) /\ t.batch_loaded = s.batch_loaded
<1>1. CASE MaintenanceDue(s, d)
  <2>1. /\ <<d>> \in Seq(Dbs) /\ \A k \in DOMAIN <<d>> : MaintenanceDue(s, <<d>>[k])
        /\ \A k, l \in DOMAIN <<d>> : <<d>>[k] = <<d>>[l] => k = l
    BY <1>1
  <2>2. maybe_schedule_maintenance(s, d) = schedule_maintenance(s, <<d>>)
    BY <1>1 DEF maybe_schedule_maintenance
  <2> QED
    BY <2>1, <2>2, ScheduleTidy
<1>2. CASE ~MaintenanceDue(s, d)
  BY <1>2 DEF maybe_schedule_maintenance
<1> QED
  BY <1>1, <1>2

(* The job that starts was waiting, and one that waits is started.          *)
LEMMA StartTidy ==
    ASSUME NEW s, Good(s), Tidy(s), NEW busy \in BOOLEAN, s.running_job = None => ~busy
    PROVE  LET t == start_next_job(s, busy)
           IN  /\ Tidy(t) /\ t.batch_loaded = s.batch_loaded
               /\ t.shutting_down = s.shutting_down
               /\ s.shutting_down \/ s.running_job # None => t = s
               /\ t.running_job = None => s.queue = {}
<1> DEFINE t == start_next_job(s, busy)
           job == CHOOSE j \in s.queue : IsFront(s.queue, j)
<1>1. CASE s.shutting_down \/ s.running_job # None \/ s.queue = {}
  <2>1. t = s
    BY <1>1, StartNothing
  <2>2. s.shutting_down => s.queue = {}
    BY DEF Good
  <2> QED
    BY <1>1, <2>1, <2>2
<1>2. CASE ~(s.shutting_down \/ s.running_job # None \/ s.queue = {})
  <2>1. s \in QueueState /\ s.queue \in SUBSET Job
    BY DEF Good, QueueState
  <2>2. job \in s.queue
    BY <1>2, <2>1, FrontExists
  <2>3. job \in Job /\ job # None
    BY <2>1, <2>2, NoneAssumption
  <2> HIDE DEF job
  <2>4. t = [s EXCEPT !.queue = s.queue \ {job},
                      !.queued_jobs = {k \in s.queued_jobs : k.id # job.id},
                      !.running_job = job]
    BY <1>2, <2>1 DEF start_next_job, job, QueueState
  <2>5. /\ t.outcomes = s.outcomes /\ t.job_counter = s.job_counter
        /\ t.shutting_down = s.shutting_down /\ t.batch_loaded = s.batch_loaded
        /\ t.queue = s.queue \ {job} /\ t.running_job = job
    BY <2>1, <2>4 DEF QueueState
  <2> HIDE DEF t
  <2>6. ActiveJobs(t) = ActiveJobs(s)
    BY <1>2, <2>2, <2>3, <2>5 DEF ActiveJobs
  <2>7. Tidy(t)
    BY <2>5, <2>6, SameLogTidy DEF SameLog
  <2> QED
    BY <1>2, <2>3, <2>5, <2>7 DEF t
<1> QED
  BY <1>1, <1>2

(* After a boundary the model that stays loaded is that of the next job.    *)
LEMMA BoundaryTidy ==
    ASSUME NEW s, Good(s), Tidy(s), NEW busy \in BOOLEAN, s.running_job = None => ~busy
    PROVE  LET t == start_next_job(maybe_unload_batch_model(s), busy)
           IN  /\ Tidy(t) /\ ModelInUse(t)
               /\ t.shutting_down = s.shutting_down
               /\ s.shutting_down => t.running_job = s.running_job
<1> DEFINE u == maybe_unload_batch_model(s)
           t == start_next_job(u, busy)
<1>1. Good(u) /\ SameLog(s, u) /\ u.queue = s.queue /\ u.running_job = s.running_job
  BY MaybeUnload, LoadSame DEF Grows
<1>2. Tidy(u)
  BY <1>1, SameLogTidy
<1>3. s.running_job = None /\ s.queue = {} => u.batch_loaded = None
  <2> SUFFICES ASSUME s.running_job = None, s.queue = {} PROVE u.batch_loaded = None
    OBVIOUS
  <2>1. next_batch_setter(s.queue) = None
    BY DEF next_batch_setter
  <2>2. s \in QueueState
    BY DEF Good
  <2> QED
    BY <2>1, <2>2 DEF maybe_unload_batch_model, batch_unload_due, QueueState
<1> HIDE DEF u
<1>4. /\ Tidy(t) /\ t.batch_loaded = u.batch_loaded /\ t.shutting_down = u.shutting_down
      /\ u.shutting_down \/ u.running_job # None => t = u
      /\ t.running_job = None => u.queue = {}
  BY <1>1, <1>2, StartTidy
<1> HIDE DEF t
<1>5. ModelInUse(t)
  <2>1. CASE s.running_job # None
    BY <1>1, <1>4, <2>1 DEF ModelInUse
  <2>2. CASE s.running_job = None
    BY <1>1, <1>3, <1>4, <2>2 DEF ModelInUse
  <2> QED
    BY <2>1, <2>2
<1>6. t.shutting_down = s.shutting_down /\ (s.shutting_down => t.running_job = s.running_job)
  BY <1>1, <1>4 DEF SameLog
<1> QED
  BY <1>4, <1>5, <1>6 DEF t, u

(* A job ends with its outcome.                                             *)
LEMMA EndTidy ==
    ASSUME NEW s, Good(s), Tidy(s), s.running_job # None,
           NEW status \in {"Completed", "Failed", "Cancelled"}
    PROVE  LET t == record_outcome([s EXCEPT !.running_job = None], s.running_job.id, status)
           IN  /\ Good(t) /\ Tidy(t) /\ t.running_job = None
               /\ t.shutting_down = s.shutting_down
<1> DEFINE job == s.running_job
           idle == [s EXCEPT !.running_job = None]
           log == <<[id |-> job.id, status |-> status]>>
           t == record_outcomes(idle, log)
<1>1. job \in Job /\ job.id \in Nat \ {0} /\ job \in ActiveJobs(s)
  BY DEF Good, QueueState, Job, ActiveJobs
<1>2. /\ Good(idle) /\ idle.running_job = None /\ idle.queue = s.queue
      /\ idle.job_counter = s.job_counter /\ idle.shutting_down = s.shutting_down
      /\ idle.outcomes = s.outcomes
  BY EndRunning DEF Good, QueueState
<1> HIDE DEF idle
<1>3. ActiveJobs(idle) = s.queue /\ ActiveJobs(s) = s.queue \cup {job}
  BY <1>2 DEF ActiveJobs
<1>4. ~ActiveId(idle, job.id)
  <2>1. \A j \in s.queue : j.id \in Nat /\ job.id < j.id
    BY ActiveFacts DEF Good, ActiveJobs
  <2> QED
    BY <1>1, <1>3, <2>1 DEF ActiveId
<1>5. /\ log \in Seq(Outcome) /\ DOMAIN log = {1} /\ log[1].id = job.id
  BY <1>1 DEF Outcome
<1> HIDE DEF log
<1>6. ActiveId(s, job.id)
  BY <1>1 DEF ActiveId
<1>7. Tidy(t)
  <2>1. ActiveJobs(idle) \subseteq ActiveJobs(s)
    BY <1>3
  <2>2. \A k \in DOMAIN log : ActiveId(s, log[k].id) /\ ~ActiveId(idle, log[k].id)
    BY <1>4, <1>5, <1>6
  <2>3. \A k, l \in DOMAIN log : log[k].id = log[l].id => k = l
    BY <1>5
  <2>4. \A j \in ActiveJobs(s) \ ActiveJobs(idle) : \E k \in DOMAIN log : log[k].id = j.id
    BY <1>3, <1>5
  <2> QED
    BY <1>2, <1>5, <2>1, <2>2, <2>3, <2>4, RecordTidy
<1>8. Good(t) /\ Grows(idle, t)
  BY <1>2, <1>5, RecordOutcomes
<1> HIDE DEF t
<1>9. t.running_job = None /\ t.shutting_down = s.shutting_down
  BY <1>2, <1>8 DEF Grows
<1> QED
  BY <1>7, <1>8, <1>9 DEF t, log, idle, record_outcome

LEMMA CancelTidy ==
    ASSUME NEW s, Good(s), Tidy(s), NEW suppress
    PROVE  LET t == cancel_running_job_inner(s, suppress)
           IN  /\ Good(t) /\ Tidy(t)
               /\ t.shutting_down = s.shutting_down
               /\ CancelAnswered(s) /\ ~s.shutting_down => ModelInUse(t)
               /\ s.shutting_down => t.running_job \in {None, s.running_job}
<1> DEFINE job == s.running_job
           ended == record_outcome([s EXCEPT !.running_job = None], job.id, "Cancelled")
           owing0 == record_owed(ended, job, None)
           owing == record_unreported_batch_load(owing0, job)
           scheduled == IF suppress THEN owing ELSE maybe_schedule_maintenance(owing, job.db)
           t == cancel_running_job_inner(s, suppress)
<1>1. CASE ~CancelAnswered(s)
  BY <1>1, CancelUnanswered
<1>2. CASE CancelAnswered(s)
  <2>1. job # None /\ job \in Job /\ Shaped(job) /\ job.db \in Dbs
    BY <1>2 DEF Good, QueueState, CancelAnswered, Job
  <2>2. t = start_next_job(IF s.shutting_down THEN scheduled
                           ELSE maybe_unload_batch_model(scheduled), FALSE)
    BY <1>2 DEF cancel_running_job_inner
  <2> HIDE DEF t
  <2>3. /\ Good(ended) /\ Tidy(ended) /\ ended.running_job = None
        /\ ended.shutting_down = s.shutting_down
    BY <2>1, EndTidy
  <2> HIDE DEF ended
  <2>4. Good(owing0) /\ Grows(ended, owing0) /\ Tidy(owing0)
    BY <2>1, <2>3, RecordOwedOf, MergeSame, SameLogTidy
  <2> HIDE DEF owing0
  <2>5. Good(owing) /\ Grows(owing0, owing) /\ Tidy(owing)
    BY <2>1, <2>4, UnreportedLoad, LoadSame, SameLogTidy
  <2> HIDE DEF owing
  <2>6. /\ Good(scheduled) /\ Tidy(scheduled) /\ scheduled.running_job = None
        /\ scheduled.shutting_down = s.shutting_down
    <3>1. owing.running_job = None /\ owing.shutting_down = s.shutting_down
      BY <2>3, <2>4, <2>5 DEF Grows
    <3>2. CASE suppress
      BY <2>5, <3>1, <3>2
    <3>3. CASE ~suppress
      <4>1. Good(scheduled) /\ Grows(owing, scheduled) /\ Tidy(scheduled)
        BY <2>1, <2>5, <3>3, MaybeScheduleMaintenance, MaybeScheduleTidy
      <4> QED
        BY <3>1, <4>1 DEF Grows
    <3> QED
      BY <3>2, <3>3
  <2> HIDE DEF scheduled
  <2>7. CASE s.shutting_down
    <3>1. t = scheduled
      BY <2>2, <2>6, <2>7, StartNothing
    <3> QED
      BY <2>6, <2>7, <3>1 DEF t
  <2>8. CASE ~s.shutting_down
    <3>1. t = start_next_job(maybe_unload_batch_model(scheduled), FALSE)
      BY <2>2, <2>8
    <3>2. Tidy(t) /\ ModelInUse(t) /\ t.shutting_down = s.shutting_down
      BY <2>6, <3>1, BoundaryTidy
    <3>3. Good(t)
      <4>1. Good(maybe_unload_batch_model(scheduled))
            /\ Grows(scheduled, maybe_unload_batch_model(scheduled))
        BY <2>6, MaybeUnload
      <4>2. maybe_unload_batch_model(scheduled).running_job = None
        BY <2>6, <4>1 DEF Grows
      <4> QED
        BY <3>1, <4>1, <4>2, StartNextJob
    <3> QED
      BY <2>8, <3>2, <3>3 DEF t
  <2> QED
    BY <2>7, <2>8
<1> QED
  BY <1>1, <1>2

(* The jobs a client lists leave, each with its outcome.                    *)
LEMMA RemoveTidy ==
    ASSUME IInv, Tidy(state), NEW listed \in SUBSET state.queued_jobs,
           NEW order \in SetToSeqs(listed)
    PROVE  Tidy(record_outcomes(
                    [state EXCEPT !.queued_jobs = @ \ listed,
                                  !.queue = {j \in @ : j.id \notin {l.id : l \in listed}}],
                    [k \in DOMAIN order |-> [id |-> order[k].id, status |-> "Cancelled"]]))
<1> DEFINE ids == {l.id : l \in listed}
           e == [state EXCEPT !.queued_jobs = @ \ listed, !.queue = {j \in @ : j.id \notin ids}]
           log == [k \in DOMAIN order |-> [id |-> order[k].id, status |-> "Cancelled"]]
           D == 1 .. Cardinality(listed)
<1>1. listed \subseteq state.queue /\ IsFiniteSet(listed) /\ listed \subseteq Job
  BY StateFacts, FiniteQueue
<1>2. Cardinality(listed) \in Nat
  BY <1>1, FS_CardinalityType
<1>3. /\ order \in [D -> listed] /\ DOMAIN order = D
      /\ \A k, l \in D : order[k] = order[l] => k = l
  BY DEF SetToSeqs
<1>4. \A j \in listed : \E k \in D : order[k] = j
  <2>1. order \in Injection(D, listed)
    BY <1>3 DEF Injection, IsInjective
  <2>2. Cardinality(D) = Cardinality(listed)
    <3>1. Cardinality(1 .. Cardinality(listed)) =
             IF 1 > Cardinality(listed) THEN 0 ELSE Cardinality(listed) - 1 + 1
      BY <1>2, FS_Interval
    <3> QED
      BY <1>2, <3>1
  <2>3. order \in Surjection(D, listed)
    BY <1>1, <2>1, <2>2, FS_Injection
  <2> QED
    BY <2>3 DEF Surjection
<1>5. log \in Seq(Outcome) /\ DOMAIN log = D /\ \A k \in D : log[k].id = order[k].id
  <2>1. \A k \in D : order[k] \in Job
    BY <1>1, <1>3
  <2>2. \A k \in D : [id |-> order[k].id, status |-> "Cancelled"] \in Outcome
    BY <2>1 DEF Outcome, Job
  <2>3. log \in [1 .. Cardinality(listed) -> Outcome]
    BY <1>3, <2>2
  <2>4. log \in Seq(Outcome)
    BY <1>2, <2>3, SeqDef
  <2> QED
    BY <1>3, <2>4
<1> HIDE DEF log
<1>6. {j \in state.queue : j.id \notin ids} = state.queue \ listed
  BY <1>1 DEF IInv, Good
<1>7. e = [state EXCEPT !.queued_jobs = state.queue \ listed, !.queue = state.queue \ listed]
  BY <1>6, StateFacts DEF QueueState
<1> HIDE DEF e
<1>8. /\ e \in QueueState /\ e.queue = state.queue \ listed /\ e.queued_jobs = e.queue
      /\ e.running_job = state.running_job /\ e.outcomes = state.outcomes
      /\ e.job_counter = state.job_counter /\ e.shutting_down = state.shutting_down
  <2>1. state.queue \ listed \in SUBSET Job
    BY StateFacts
  <2> QED
    BY <1>7, <2>1, StateFacts DEF QueueState
<1>9. Good(e)
  BY <1>8, StateFacts DEF Good
<1>10. /\ ActiveJobs(e) \subseteq ActiveJobs(state)
       /\ ActiveJobs(state) \ ActiveJobs(e) \subseteq listed
       /\ \A j \in listed : j \in ActiveJobs(state) /\ j \notin ActiveJobs(e)
  <2>1. state.running_job # None => state.running_job \notin state.queue
    <3>1. state.running_job # None => \A j \in state.queue : state.running_job.id < j.id
      BY StateFacts DEF Good
    <3> QED
      BY <3>1, StateFacts
  <2> QED
    BY <1>1, <1>8, <2>1 DEF ActiveJobs
<1>11. \A k \in DOMAIN log : ActiveId(state, log[k].id) /\ ~ActiveId(e, log[k].id)
  <2> TAKE k \in DOMAIN log
  <2>1. order[k] \in listed /\ log[k].id = order[k].id
    BY <1>3, <1>5
  <2>2. \A j \in ActiveJobs(e) : j.id # order[k].id
    BY <1>10, <2>1, StateFacts, ActiveFacts
  <2> QED
    BY <1>10, <2>1, <2>2 DEF ActiveId
<1>12. \A k, l \in DOMAIN log : log[k].id = log[l].id => k = l
  <2>1. \A k, l \in D : order[k].id = order[l].id => order[k] = order[l]
    BY <1>3, <1>10, StateFacts, ActiveFacts
  <2> QED
    BY <1>3, <1>5, <2>1
<1>13. \A j \in ActiveJobs(state) \ ActiveJobs(e) : \E k \in DOMAIN log : log[k].id = j.id
  BY <1>4, <1>5, <1>10
<1>14. Tidy(record_outcomes(e, log))
  BY <1>5, <1>8, <1>9, <1>10, <1>11, <1>12, <1>13, StateFacts, RecordTidy
<1> QED
  BY <1>14 DEF e, log

LEMMA UpgradeTidy ==
    ASSUME NEW s, Good(s), Tidy(s), NEW d \in Dbs
    PROVE  LET t == UpgradeQueued(s, d)
           IN  Tidy(t) /\ t.batch_loaded = s.batch_loaded
<1> DEFINE U(j) == IF IsMaintenance(j, d) THEN [j EXCEPT !.metadata = to_metadata(Flags)] ELSE j
           t == UpgradeQueued(s, d)
<1>1. s \in QueueState /\ s.queue \subseteq Job
  BY DEF Good, QueueState
<1>2. \A j \in s.queue : U(j).id = j.id /\ U(j).type = j.type /\ U(j).db = j.db
  <2> TAKE j \in s.queue
  <2>1. j \in Job
    BY <1>1
  <2> DEFINE m == to_metadata(Flags)
  <2> HIDE DEF m
  <2>2. CASE IsMaintenance(j, d)
    <3>1. U(j) = [j EXCEPT !.metadata = m]
      BY <2>2 DEF m
    <3> QED
      BY <2>1, <3>1 DEF Job
  <2>3. CASE ~IsMaintenance(j, d)
    BY <2>3
  <2> QED
    BY <2>2, <2>3
<1>3. /\ t.queue = {U(j) : j \in s.queue} /\ t.running_job = s.running_job
      /\ t.outcomes = s.outcomes /\ t.job_counter = s.job_counter
      /\ t.shutting_down = s.shutting_down /\ t.batch_loaded = s.batch_loaded
  BY <1>1 DEF UpgradeQueued, Upgraded, QueueState
<1> HIDE DEF t, U
<1>4. /\ \A j \in ActiveJobs(t) : \E k \in ActiveJobs(s) :
            /\ k.id = j.id /\ k.type = j.type /\ k.db = j.db
            /\ j = k \/ (k \in s.queue /\ j = U(k))
      /\ \A k \in ActiveJobs(s) : \E j \in ActiveJobs(t) : k.id = j.id
  BY <1>2, <1>3 DEF ActiveJobs
<1>5. \A i : ActiveId(t, i) = ActiveId(s, i)
  BY <1>4 DEF ActiveId
<1>6. Logged(t)
  BY <1>3, <1>5 DEF Tidy, Logged, LoggedId
<1>7. Single(t)
  <2> SUFFICES ASSUME NEW j \in ActiveJobs(t), NEW k \in ActiveJobs(t),
                      j.type = "DbMaintenance", k.type = "DbMaintenance", j.db = k.db
               PROVE  j = k
    BY DEF Single
  <2>1. CASE j \in t.queue /\ k \in t.queue
    <3>1. PICK a \in s.queue : j = U(a)
      BY <1>3, <2>1
    <3>2. PICK b \in s.queue : k = U(b)
      BY <1>3, <2>1
    <3>3. a \in ActiveJobs(s) /\ b \in ActiveJobs(s)
      BY DEF ActiveJobs
    <3>4. a = b
      BY <1>2, <3>1, <3>2, <3>3 DEF Tidy, Single
    <3> QED
      BY <3>1, <3>2, <3>4
  <2>2. ASSUME NEW a \in s.queue, s.running_job # None, s.running_job.type = "DbMaintenance",
               U(a).type = "DbMaintenance", s.running_job.db = U(a).db
        PROVE  FALSE
    <3>1. a \in ActiveJobs(s) /\ s.running_job \in ActiveJobs(s)
      BY <2>2 DEF ActiveJobs
    <3>2. a = s.running_job
      BY <1>2, <2>2, <3>1 DEF Tidy, Single
    <3>3. s.running_job.id < a.id /\ a.id \in Nat
      BY <1>1, <2>2 DEF Good, Job
    <3> QED
      BY <3>2, <3>3
  <2>3. \A i \in ActiveJobs(t) :
            \/ \E a \in s.queue : i = U(a)
            \/ s.running_job # None /\ i = s.running_job
    BY <1>3 DEF ActiveJobs
  <2>4. \A i \in ActiveJobs(t) : i \in t.queue \/ (s.running_job # None /\ i = s.running_job)
    BY <1>3 DEF ActiveJobs
  <2> QED
    BY <2>1, <2>2, <2>3, <2>4
<1> QED
  BY <1>3, <1>6, <1>7 DEF Tidy, t

-----------------------------------------------------------------------------
(* Between two messages the actor's state is tidy; no job is started once   *)
(* a shutdown has begun, so there is none whose model could stay loaded.    *)
Settled ==
    /\ Tidy(state)
    /\ BatchLoadedOnlyWhileRunning
    /\ state.shutting_down => runner = 0

Proper(s, run) ==
    /\ Good(s) /\ Tidy(s) /\ ModelInUse(s)
    /\ s.shutting_down => run = 0 /\ s.running_job \in {None, state.running_job}

LEMMA HandlerSettles ==
    ASSUME NEW s, NEW run, NEW ts, Commit(s, run, ts), Proper(s, run)
    PROVE  Settled'
<1>1. s \in QueueState
  BY DEF Proper, Good
<1>2. /\ state' = [s EXCEPT !.pending_marks = {}, !.unloads = {}]
      /\ s.running_job \in {None, state.running_job} => runner' = run
  BY DEF Commit
<1>3. /\ state'.queue = s.queue /\ state'.running_job = s.running_job
      /\ state'.outcomes = s.outcomes /\ state'.job_counter = s.job_counter
      /\ state'.shutting_down = s.shutting_down /\ state'.batch_loaded = s.batch_loaded
  BY <1>1, <1>2 DEF QueueState
<1>4. SameLog(s, state')
  BY <1>3 DEF SameLog, ActiveJobs
<1>5. Tidy(state')
  BY <1>4, SameLogTidy DEF Proper
<1>6. state'.batch_loaded # None => state'.running_job # None
  BY <1>3 DEF Proper, ModelInUse
<1>7. state'.shutting_down => runner' = 0
  BY <1>2, <1>3 DEF Proper
<1>8. Tidy(state)'
  BY <1>5
<1> QED
  BY <1>6, <1>7, <1>8 DEF Settled, BatchLoadedOnlyWhileRunning

LEMMA StateIsProper ==
    ASSUME IInv, Settled
    PROVE  Proper(state, runner)
BY StateFacts DEF Proper, Settled, BatchLoadedOnlyWhileRunning, ModelInUse

LEMMA StartGood ==
    ASSUME NEW s, Good(s), NEW busy \in BOOLEAN, s.running_job = None => ~busy
    PROVE  Good(start_next_job(s, busy))
<1>1. CASE s.running_job = None
  <2>1. busy = FALSE
    BY <1>1
  <2> QED
    BY <1>1, <2>1, StartNextJob
<1>2. CASE s.running_job # None
  BY <1>2, StartNothing
<1> QED
  BY <1>1, <1>2

LEMMA EditedIsProper ==
    ASSUME IInv, Settled, NEW q, Good(q), Tidy(q), q.running_job = state.running_job,
           q.batch_loaded = state.batch_loaded, ~q.shutting_down
    PROVE  Proper(start_next_job(q, runner # 0), runner)
<1> DEFINE s == start_next_job(q, runner # 0)
<1>1. q.running_job = None => ~(runner # 0)
  BY NoJobNoRunner
<1>2. Good(s)
  BY <1>1, StartGood
<1>3. /\ Tidy(s) /\ s.batch_loaded = q.batch_loaded /\ ~s.shutting_down
      /\ q.running_job # None => s = q
  BY <1>1, StartTidy
<1> HIDE DEF s
<1>4. ModelInUse(s)
  BY <1>3 DEF ModelInUse, Settled, BatchLoadedOnlyWhileRunning
<1> QED
  BY <1>2, <1>3, <1>4 DEF Proper, s

LEMMA EnqueueSettles ==
    ASSUME IInv, Settled, NEW r \in Requests, Enqueue(r)
    PROVE  Settled'
<1> DEFINE p == push_jobs(state, <<r>>)
<1>1. r \in JobRequest /\ Shaped(r) /\ r.type # "DbMaintenance"
  BY RequestsAssumption, ClientRequestShape DEF ClientRequest
<1>2. /\ <<r>> \in Seq(JobRequest)
      /\ \A k \in DOMAIN <<r>> : Shaped(<<r>>[k]) /\ <<r>>[k].type # "DbMaintenance"
  BY <1>1
<1>3. Commit(start_next_job(p, runner # 0), runner, tasks) /\ ~state.shutting_down
  BY DEF Enqueue, push_job
<1>4. Good(p) /\ Grows(state, p)
  BY <1>2, <1>3, StateFacts, PushJobs
<1>5. Tidy(p) /\ p.batch_loaded = state.batch_loaded
  BY <1>2, StateFacts, PushTidy DEF Settled
<1> HIDE DEF p
<1>6. Proper(start_next_job(p, runner # 0), runner)
  BY <1>3, <1>4, <1>5, EditedIsProper DEF Grows
<1> QED
  BY <1>3, <1>6, HandlerSettles

LEMMA EnqueueBatchSettles ==
    ASSUME IInv, Settled, NEW b \in Batches, EnqueueBatch(b)
    PROVE  Settled'
<1>1. PICK accepted :
          /\ Admitted(b, accepted)
          /\ \/ Commit(state, runner, tasks)
             \/ Commit(start_next_job(push_jobs(state, accepted), runner # 0), runner, tasks)
  BY BatchAdmits
<1>2. CASE Commit(state, runner, tasks)
  BY <1>2, StateIsProper, HandlerSettles
<1>3. CASE Commit(start_next_job(push_jobs(state, accepted), runner # 0), runner, tasks)
  <2> DEFINE p == push_jobs(state, accepted)
  <2>1. accepted \in Seq(JobRequest) /\ ~state.shutting_down
    BY <1>1 DEF Admitted, EnqueueBatch
  <2>2. \A k \in DOMAIN accepted : Shaped(accepted[k]) /\ accepted[k].type # "DbMaintenance"
    BY <1>1, ClientRequestShape DEF Admitted, ClientRequest
  <2>3. Good(p) /\ Grows(state, p)
    BY <2>1, <2>2, StateFacts, PushJobs
  <2>4. Tidy(p) /\ p.batch_loaded = state.batch_loaded
    BY <2>1, <2>2, StateFacts, PushTidy DEF Settled
  <2>5. Commit(start_next_job(p, runner # 0), runner, tasks)
    BY <1>3
  <2> HIDE DEF p
  <2>6. Proper(start_next_job(p, runner # 0), runner)
    BY <2>1, <2>3, <2>4, EditedIsProper DEF Grows
  <2> QED
    BY <2>5, <2>6, HandlerSettles
<1> QED
  BY <1>1, <1>2, <1>3

(* One maintenance job: the running one absorbs the request, a queued one   *)
(* is upgraded.                                                             *)
LEMMA EnqueueMaintenanceSettles ==
    ASSUME IInv, Settled, NEW d \in Dbs, EnqueueMaintenance(d)
    PROVE  Settled'
<1> DEFINE cleared == [state EXCEPT !.owed[d] = {}]
           upgrade == \E j \in state.queue : IsMaintenance(j, d)
           rs == <<MaintenanceRequest(d, Flags)>>
           u == UpgradeQueued(cleared, d)
           p == push_jobs(cleared, rs)
<1>1. /\ ~state.shutting_down
      /\ ~(state.running_job # None /\ IsMaintenance(state.running_job, d))
      /\ upgrade => Commit(u, runner, tasks)
      /\ ~upgrade => Commit(start_next_job(p, runner # 0), runner, tasks)
  BY DEF EnqueueMaintenance, push_job
<1>2. /\ Good(cleared) /\ SameLog(state, cleared) /\ cleared.queue = state.queue
      /\ cleared.running_job = state.running_job /\ cleared.batch_loaded = state.batch_loaded
  <2>1. [state.owed EXCEPT ![d] = {}] \in [Dbs -> SUBSET Flags]
    BY StateFacts
  <2>2. cleared = [state EXCEPT !.owed = [state.owed EXCEPT ![d] = {}]]
    BY StateFacts DEF QueueState
  <2> HIDE DEF cleared
  <2>3. /\ cleared \in QueueState /\ SameJobs(state, cleared)
        /\ cleared.outcomes = state.outcomes /\ cleared.batch_loaded = state.batch_loaded
    BY <2>1, <2>2, StateFacts DEF QueueState, SameJobs
  <2>4. Good(cleared)
    BY <2>3, StateFacts, SameJobsGood
  <2>5. SameLog(state, cleared)
    BY <2>3 DEF SameLog, SameJobs, ActiveJobs
  <2> QED
    BY <2>3, <2>4, <2>5 DEF SameJobs
<1> HIDE DEF cleared
<1>3. Tidy(cleared) /\ ~cleared.shutting_down
  BY <1>1, <1>2, SameLogTidy DEF Settled, SameLog
<1>4. CASE upgrade
  <2>1. Good(u) /\ Grows(cleared, u) /\ Tidy(u) /\ u.batch_loaded = cleared.batch_loaded
    BY <1>2, <1>3, Upgrading, UpgradeTidy
  <2> HIDE DEF u
  <2>2. Proper(u, runner)
    BY <1>2, <1>3, <2>1 DEF Proper, Grows, ModelInUse, Settled, BatchLoadedOnlyWhileRunning
  <2> QED
    BY <1>1, <1>4, <2>2, HandlerSettles
<1>5. CASE ~upgrade
  <2>1. /\ rs \in Seq(JobRequest) /\ DOMAIN rs = {1}
        /\ \A k \in DOMAIN rs : Shaped(rs[k]) /\ rs[k].db = d
    <3>1. MaintenanceRequest(d, Flags) \in JobRequest /\ Shaped(MaintenanceRequest(d, Flags))
      BY DEF MaintenanceRequest, JobRequest, JobType, to_metadata, FlagNames, Shaped
    <3>2. MaintenanceRequest(d, Flags).db = d
      BY DEF MaintenanceRequest
    <3> HIDE DEF MaintenanceRequest
    <3> QED
      BY <3>1, <3>2
  <2> HIDE DEF rs
  <2>2. Good(p) /\ Grows(cleared, p)
    BY <1>2, <1>3, <2>1, PushJobs
  <2>3. \A j \in ActiveJobs(cleared) : ~IsMaintenance(j, d)
    BY <1>1, <1>2, <1>5 DEF ActiveJobs
  <2>4. Tidy(p) /\ p.batch_loaded = cleared.batch_loaded
    <3>1. \A k \in DOMAIN rs, j \in ActiveJobs(cleared) : ~IsMaintenance(j, rs[k].db)
      BY <2>1, <2>3
    <3>2. \A k, l \in DOMAIN rs : k = l
      BY <2>1
    <3> QED
      BY <1>2, <1>3, <2>1, <3>1, <3>2, PushTidy
  <2> HIDE DEF p
  <2>5. Proper(start_next_job(p, runner # 0), runner)
    BY <1>2, <1>3, <2>2, <2>4, EditedIsProper DEF Grows
  <2> QED
    BY <1>1, <1>5, <2>5, HandlerSettles
<1> QED
  BY <1>4, <1>5

LEMMA CancelRunningSettles ==
    ASSUME IInv, Settled, NEW suppress \in BOOLEAN, CancelRunning(suppress)
    PROVE  Settled'
<1> DEFINE s == cancel_running_job_inner(state, suppress)
<1>1. PICK m \in {"midpoll", "idle"} : Commit(s, 0, AbortTask(tasks, m))
  BY DEF CancelRunning
<1>2. Proper(s, 0)
  <2>1. CASE CancelAnswered(state)
    <3>1. ~state.shutting_down
      BY <2>1, StateFacts DEF CancelAnswered, Settled
    <3>2. Good(s) /\ Tidy(s) /\ s.shutting_down = state.shutting_down /\ ModelInUse(s)
      BY <2>1, <3>1, StateFacts, CancelTidy DEF Settled
    <3> HIDE DEF s
    <3> QED
      BY <3>1, <3>2 DEF Proper
  <2>2. CASE ~CancelAnswered(state)
    <3>1. s = state
      BY <2>2, CancelUnanswered
    <3> QED
      BY <3>1, StateIsProper DEF Proper
  <2> QED
    BY <2>1, <2>2
<1> HIDE DEF s
<1> QED
  BY <1>1, <1>2, HandlerSettles

LEMMA ShutdownSettles ==
    ASSUME IInv, Settled, Shutdown
    PROVE  Settled'
<1> DEFINE dropped == [state EXCEPT !.shutting_down = TRUE, !.queue = {}, !.queued_jobs = {}]
           cancelled == cancel_running_job_inner(dropped, TRUE)
           s == maybe_unload_batch_model(cancelled)
           run == IF state.running_job = None THEN runner ELSE 0
<1>1. \E ts : Commit(s, run, ts)
  BY DEF Shutdown
<1>2. run = 0
  BY NoJobNoRunner
<1>3. /\ dropped \in QueueState /\ dropped.queue = {} /\ dropped.queued_jobs = {}
      /\ dropped.running_job = state.running_job /\ dropped.shutting_down = TRUE
      /\ dropped.job_counter = state.job_counter /\ dropped.outcomes = state.outcomes
  BY StateFacts DEF QueueState
<1> HIDE DEF dropped, run
<1>4. Good(dropped)
  BY <1>3, StateFacts DEF Good
<1>5. Tidy(dropped)
  <2>1. ActiveJobs(dropped) \subseteq ActiveJobs(state)
    BY <1>3 DEF ActiveJobs
  <2>2. Logged(dropped)
    BY <1>3, <2>1 DEF Settled, Tidy, Logged, ActiveId
  <2>3. Single(dropped)
    BY <2>1 DEF Settled, Tidy, Single
  <2> QED
    BY <2>2, <2>3 DEF Tidy
<1>6. /\ Good(cancelled) /\ Tidy(cancelled) /\ cancelled.shutting_down = TRUE
      /\ cancelled.running_job \in {None, state.running_job}
  BY <1>3, <1>4, <1>5, CancelTidy
<1> HIDE DEF cancelled
<1>7. Good(s) /\ SameLog(cancelled, s)
  BY <1>6, MaybeUnload, LoadSame
<1>8. s = start_next_job(s, FALSE)
  BY <1>6, <1>7, StartNothing DEF SameLog
<1>9. Tidy(s) /\ ModelInUse(s) /\ s.running_job = cancelled.running_job
  BY <1>6, <1>8, BoundaryTidy
<1> HIDE DEF s
<1>10. Proper(s, run)
  BY <1>2, <1>6, <1>7, <1>9 DEF Proper
<1> QED
  BY <1>1, <1>10, HandlerSettles

LEMMA RecordOwedSettles ==
    ASSUME IInv, Settled, RecordOwed
    PROVE  Settled'
<1> DEFINE message == Head(inbox)
           s == merge_owed(state, message.db, message.summary)
<1>1. /\ inbox # <<>> /\ message.kind = "RecordOwed"
      /\ Commit(state, runner, tasks) \/ Commit(s, runner, tasks)
  BY DEF RecordOwed
<1>2. message.db \in Dbs /\ message.summary \in SUBSET Flags
  BY <1>1, HeadType DEF Message
<1>3. /\ Good(s) /\ Grows(state, s) /\ SameLog(state, s)
      /\ s.batch_loaded = state.batch_loaded
  <2>1. Good(s) /\ Grows(state, s)
    BY <1>2, StateFacts, MergeOwed
  <2>2. SameLog(state, s) /\ s.batch_loaded = state.batch_loaded
    BY StateFacts, MergeSame
  <2> QED
    BY <2>1, <2>2
<1> HIDE DEF s
<1>4. Tidy(s)
  BY <1>3, SameLogTidy DEF Settled
<1>5. Proper(s, runner)
  BY <1>3, <1>4 DEF Proper, Grows, ModelInUse, Settled, BatchLoadedOnlyWhileRunning
<1> QED
  BY <1>1, <1>5, StateIsProper, HandlerSettles

LEMMA RunnerFinishedSettles ==
    ASSUME IInv, Settled, RunnerFinished
    PROVE  Settled'
<1> DEFINE message == Head(inbox)
           result == message.result
           job == state.running_job
           status == IF result.success THEN "Completed" ELSE "Failed"
           ended == record_outcome([state EXCEPT !.running_job = None], message.id, status)
           owing0 == record_owed(ended, job, result.summary)
           owing == record_batch_load(owing0, job, result)
           scheduled == maybe_schedule_maintenance(owing, job.db)
           s == start_next_job(maybe_unload_batch_model(scheduled), runner # 0)
<1>1. /\ inbox # <<>> /\ message.kind = "RunnerFinished"
      /\ Commit(IF Tracked(job, message) THEN s ELSE state, runner, tasks)
  BY DEF RunnerFinished
<1>2. message.id \in Nat \ {0} /\ result \in JobResult /\ message.id # runner
  BY <1>1, HeadType DEF Message, IInv, InboxInv
<1>3. CASE ~Tracked(job, message)
  BY <1>1, <1>3, StateIsProper, HandlerSettles
<1>4. CASE Tracked(job, message)
  <2>1. /\ job # None /\ job \in Job /\ Shaped(job) /\ job.db \in Dbs
        /\ runner = 0 /\ job.id = message.id
    BY <1>2, <1>4, StateFacts, UnansweredCancel DEF Tracked
  <2>2. Commit(s, runner, tasks)
    BY <1>1, <1>4
  <2>3. status \in {"Completed", "Failed", "Cancelled"} /\ result.summary \in {None} \cup SUBSET Flags
    BY <1>2 DEF JobResult
  <2> HIDE DEF status
  <2>4. Good(ended) /\ Tidy(ended) /\ ended.running_job = None
    BY <2>1, <2>3, StateFacts, EndTidy DEF Settled
  <2> HIDE DEF ended
  <2>5. Good(owing0) /\ Grows(ended, owing0) /\ Tidy(owing0)
    <3>1. Good(owing0) /\ Grows(ended, owing0)
      BY <2>1, <2>3, <2>4, RecordOwedOf
    <3>2. SameLog(ended, owing0)
      BY <2>4, MergeSame
    <3> QED
      BY <2>4, <3>1, <3>2, SameLogTidy
  <2> HIDE DEF owing0
  <2>6. Good(owing) /\ Grows(owing0, owing) /\ Tidy(owing)
    BY <1>2, <2>1, <2>5, RecordLoad, LoadSame, SameLogTidy
  <2> HIDE DEF owing
  <2>7. Good(scheduled) /\ Grows(owing, scheduled) /\ Tidy(scheduled)
    BY <2>1, <2>6, MaybeScheduleMaintenance, MaybeScheduleTidy
  <2> HIDE DEF scheduled
  <2>8. scheduled.running_job = None
    BY <2>4, <2>5, <2>6, <2>7 DEF Grows
  <2>9. /\ Tidy(s) /\ ModelInUse(s)
        /\ s.shutting_down = scheduled.shutting_down
        /\ scheduled.shutting_down => s.running_job = None
    BY <2>1, <2>7, <2>8, BoundaryTidy
  <2>10. Good(s)
    <3>1. Good(maybe_unload_batch_model(scheduled))
      BY <2>7, MaybeUnload
    <3> QED
      BY <2>1, <3>1, StartGood
  <2> HIDE DEF s
  <2>11. Proper(s, runner)
    BY <2>1, <2>9, <2>10 DEF Proper
  <2> QED
    BY <2>2, <2>11, HandlerSettles
<1> QED
  BY <1>3, <1>4

LEMMA CancelQueuedSettles ==
    ASSUME IInv, Settled, NEW listed \in SUBSET state.queued_jobs, NEW with_running \in BOOLEAN,
           NEW suppress \in BOOLEAN, CancelQueued(listed, with_running, suppress)
    PROVE  Settled'
<1> DEFINE Removed(order) ==
             record_outcomes(
                [state EXCEPT !.queued_jobs = @ \ listed,
                              !.queue = {j \in @ : j.id \notin {l.id : l \in listed}}],
                [k \in DOMAIN order |-> [id |-> order[k].id, status |-> "Cancelled"]])
           Cancelled(order) == IF with_running THEN cancel_running_job_inner(Removed(order), suppress)
                               ELSE Removed(order)
           Due(order) == {d \in {j.db : j \in listed} : ~suppress /\ MaintenanceDue(Cancelled(order), d)}
           Final(order, ds) == maybe_unload_batch_model(schedule_maintenance(Cancelled(order), ds))
           run == IF with_running THEN 0 ELSE runner
<1>1. PICK order \in SetToSeqs(listed) : \E ds \in SetToSeqs(Due(order)) : \E ts :
           Commit(start_next_job(Final(order, ds), ~with_running /\ runner # 0), run, ts)
  BY DEF CancelQueued
<1>2. PICK ds \in SetToSeqs(Due(order)) : \E ts :
           Commit(start_next_job(Final(order, ds), ~with_running /\ runner # 0), run, ts)
  BY <1>1
<1> DEFINE removed == Removed(order)
           cancelled == Cancelled(order)
           due == Due(order)
           scheduled == schedule_maintenance(cancelled, ds)
           s == start_next_job(Final(order, ds), ~with_running /\ runner # 0)
<1>3. /\ Good(removed) /\ Tidy(removed) /\ removed.running_job = state.running_job
      /\ removed.shutting_down = state.shutting_down
  BY Removing, RemoveTidy DEF Settled
<1> HIDE DEF Removed
<1>4. /\ Good(cancelled) /\ Tidy(cancelled)
      /\ cancelled.shutting_down = state.shutting_down
      /\ cancelled.shutting_down => cancelled.running_job \in {None, state.running_job}
      /\ ~with_running => cancelled.running_job = state.running_job
  <2>1. CASE with_running
    BY <1>3, <2>1, CancelTidy
  <2>2. CASE ~with_running
    BY <1>3, <2>2
  <2> QED
    BY <2>1, <2>2
<1> HIDE DEF Cancelled
<1>5. /\ ds \in Seq(Dbs) /\ (cancelled.shutting_down => ds = <<>>)
      /\ \A k \in DOMAIN ds : MaintenanceDue(cancelled, ds[k])
      /\ \A k, l \in DOMAIN ds : ds[k] = ds[l] => k = l
  <2>1. due \subseteq Dbs /\ IsFiniteSet(due)
    <3>1. due \subseteq Dbs
      BY StateFacts DEF Job
    <3> QED
      BY <3>1, DbsAssumption, FS_Subset
  <2>2. ds \in Seq(due)
    BY <2>1, SetToSeqsType
  <2>3. \A d \in due : MaintenanceDue(cancelled, d)
    OBVIOUS
  <2>4. cancelled.shutting_down => due = {}
    BY DEF MaintenanceDue
  <2>5. due = {} => ds = <<>>
    BY <2>2
  <2>6. \A k, l \in DOMAIN ds : ds[k] = ds[l] => k = l
    BY DEF SetToSeqs
  <2>7. \A k \in DOMAIN ds : ds[k] \in due
    BY <2>2
  <2> HIDE DEF Due
  <2> QED
    BY <2>1, <2>2, <2>3, <2>4, <2>5, <2>6, <2>7
<1> HIDE DEF Due
<1>6. Good(scheduled) /\ Grows(cancelled, scheduled)
  BY <1>4, <1>5, ScheduleMaintenance
<1>7. Tidy(scheduled)
  BY <1>4, <1>5, ScheduleTidy
<1>8. s = start_next_job(maybe_unload_batch_model(scheduled), ~with_running /\ runner # 0)
  OBVIOUS
<1> HIDE DEF scheduled, Final
<1>9. scheduled.running_job = None => ~(~with_running /\ runner # 0)
  BY <1>4, <1>6, NoJobNoRunner DEF Grows
<1>10. /\ Tidy(s) /\ ModelInUse(s) /\ s.shutting_down = scheduled.shutting_down
       /\ scheduled.shutting_down => s.running_job = scheduled.running_job
  <2>1. (~with_running /\ runner # 0) \in BOOLEAN
    OBVIOUS
  <2> QED
    BY <1>6, <1>7, <1>8, <1>9, <2>1, BoundaryTidy
<1>11. Good(s)
  <2>1. /\ Good(maybe_unload_batch_model(scheduled))
        /\ maybe_unload_batch_model(scheduled).running_job = scheduled.running_job
    BY <1>6, MaybeUnload DEF Grows
  <2>2. (~with_running /\ runner # 0) \in BOOLEAN
    OBVIOUS
  <2> QED
    BY <1>8, <1>9, <2>1, <2>2, StartGood
<1>12. PICK ts : Commit(s, run, ts)
  BY <1>2
<1> HIDE DEF s, cancelled
<1>13. s.shutting_down => run = 0 /\ s.running_job \in {None, state.running_job}
  BY <1>4, <1>6, <1>10 DEF Grows, Settled
<1>14. Proper(s, run)
  BY <1>10, <1>11, <1>13 DEF Proper
<1> HIDE DEF run
<1> QED
  BY <1>12, <1>14, HandlerSettles

(* Tasks and unloads leave the actor's state alone, and can only free the   *)
(* runner.                                                                  *)
LEMMA ActorIdleSettles ==
    ASSUME Settled, state' = state, runner' \in {runner, 0}
    PROVE  Settled'
BY DEF Settled, BatchLoadedOnlyWhileRunning

LEMMA NextSettles ==
    ASSUME IInv, Settled, [Next]_vars
    PROVE  Settled'
<1>1. CASE ClientStep
  BY <1>1, EnqueueSettles, EnqueueBatchSettles, EnqueueMaintenanceSettles,
     CancelRunningSettles, CancelQueuedSettles, ShutdownSettles DEF ClientStep
<1>2. CASE RunnerFinished
  BY <1>2, RunnerFinishedSettles
<1>3. CASE RecordOwed
  BY <1>3, RecordOwedSettles
<1>4. CASE \E t \in tasks : TaskStep(t)
  <2>1. state' = state /\ runner' \in {runner, 0}
    BY <1>4 DEF TaskStep, ReportResync, BeginBatchLoad, BatchLoaded, JobEnds, AbortLands, JobCompleted
  <2> QED
    BY <2>1, ActorIdleSettles
<1>5. CASE \E u \in unloads : UnloadStep(u)
  <2>1. state' = state /\ runner' = runner
    BY <1>5 DEF UnloadStep, UnloadLocks, UnloadEnds, UnloadLost
  <2> QED
    BY <2>1, ActorIdleSettles
<1>6. CASE UNCHANGED vars
  BY <1>6, ActorIdleSettles DEF vars
<1> QED
  BY <1>1, <1>2, <1>3, <1>4, <1>5, <1>6 DEF Next

LEMMA InitSettles ==
    ASSUME Init
    PROVE  Settled
<1>1. /\ state.outcomes = <<>> /\ state.job_counter = 0 /\ state.batch_loaded = None
      /\ state.shutting_down = FALSE /\ ActiveJobs(state) = {}
  BY DEF Init, ActiveJobs
<1>2. Logged(state)
  BY <1>1, BoundsAssumption DEF Logged
<1> QED
  BY <1>1, <1>2 DEF Settled, Tidy, Single, BatchLoadedOnlyWhileRunning

(* The log of a tidy state has one entry per job.                           *)
LEMMA TidyConserves ==
    ASSUME IInv, Settled
    PROVE  JobConservation /\ OneMaintenancePerDb
<1> DEFINE live == {j.id : j \in ActiveJobs(state)}
           n == Len(state.outcomes)
           f == [k \in 1 .. n |-> state.outcomes[k].id]
           ended == {state.outcomes[k].id : k \in DOMAIN state.outcomes}
<1>1. /\ state.outcomes \in Seq(Outcome) /\ n \in Nat /\ DOMAIN state.outcomes = 1 .. n
      /\ \A k \in 1 .. n : state.outcomes[k] \in Outcome
      /\ state.job_counter \in Nat
      /\ \A j \in ActiveJobs(state) : j.id \in Nat \ {0} /\ j.id <= state.job_counter
  BY StateFacts, ActiveFacts
<1>2. Logged(state) /\ Single(state)
  BY DEF Settled, Tidy
<1>3. Cardinality(ended) = n
  <2>1. f \in Surjection(1 .. n, ended)
    BY <1>1 DEF Surjection
  <2>2. f \in Injection(1 .. n, ended)
    BY <1>1, <1>2 DEF Injection, IsInjective, Logged
  <2>3. IsFiniteSet(1 .. n) /\ Cardinality(1 .. n) = n
    BY <1>1, FS_Interval
  <2> HIDE DEF f, ended, n
  <2> QED
    BY <2>1, <2>2, <2>3, FS_Surjection
<1>4. live \cap ended = {}
  BY <1>2 DEF Logged, ActiveId
<1>5. ASSUME n < MaxRecentOutcomes, ~state.shutting_down
      PROVE  live \cup ended = 1 .. state.job_counter
  <2>1. \A i \in 1 .. state.job_counter : i \in live \cup ended
    BY <1>2, <1>5 DEF Logged, ActiveId, LoggedId
  <2>2. \A i \in live : i \in 1 .. state.job_counter
    BY <1>1
  <2>3. \A k \in 1 .. n : state.outcomes[k].id \in 1 .. state.job_counter
    BY <1>1, <1>2 DEF Logged, Outcome
  <2>4. \A i \in ended : i \in 1 .. state.job_counter
    BY <1>1, <2>3
  <2> QED
    BY <2>1, <2>2, <2>4
<1>6. JobConservation
  BY <1>3, <1>4, <1>5 DEF JobConservation
<1> QED
  BY <1>2, <1>6 DEF Single, OneMaintenancePerDb

(* For any clients, crons, cancellations and completions: a job that left   *)
(* is logged once, nothing waits behind an idle queue, a model stays loaded *)
(* only while a job runs, and a database has one maintenance at a time.     *)
THEOREM BoundariesAlwaysSettle == Spec => []BoundariesSettle
<1>1. Init => Settled
  BY InitSettles
<1>2. IInv /\ Settled /\ [Next]_vars => Settled'
  BY NextSettles
<1>3. Spec => []Settled
  BY <1>1, <1>2, Invariance, PTL DEF Spec
<1>4. IInv /\ Settled => BoundariesSettle
  BY TidyConserves DEF IInv, Settled, BoundariesSettle
<1> QED
  BY <1>3, <1>4, Invariance, PTL

=============================================================================
