--------------------------- MODULE TranscodePool ---------------------------
(***************************************************************************)
(* The transcode worker pool (media_tools/transcode/pool.rs): one actor    *)
(* that owns a FIFO queue of encodes, the map that lets a second request   *)
(* for the same bytes join the first, the slots, the ring of finished jobs *)
(* and the shutdown drain.  Every message is one action, except a submit,  *)
(* which awaits the artifact cache twice inside its handler and is two.    *)
(* The encodes run beside the actor: they end, publish into the cache or   *)
(* record a verdict, and report back with a Finished message.              *)
(*                                                                         *)
(* The cache is what the pool sees of it: the keys whose bytes are there   *)
(* and the strikes against a key (TranscodeCache models the rest).         *)
(* Progress messages are left out: they come from the encode itself, so    *)
(* before its Finished message, and change nothing but a percentage.       *)
(***************************************************************************)
EXTENDS Naturals, FiniteSets, Sequences, SequencesExt

CONSTANTS
  Keys,           \* cache keys that clients ask for
  Exclusive,      \* the keys of compositions that need the whole pool
  Compositions,   \* the keys whose failed encode is not a verdict
  MaxConcurrent,  \* [transcode] max_concurrent_jobs
  Capacity,       \* TERMINAL_CAPACITY
  MaxJobs,        \* bound on the jobs a behaviour creates
  MaxEvictions,   \* bound on the artifacts that leave the cache
  CanShutDown     \* whether the process ends in this run

NoKey == "none"

ASSUME PoolAssumption ==
  /\ Exclusive \subseteq Compositions
  /\ Compositions \subseteq Keys
  /\ MaxConcurrent \in Nat \ {0}
  /\ Capacity \in Nat \ {0}
  /\ MaxJobs \in Nat
  /\ MaxEvictions \in Nat
  /\ CanShutDown \in BOOLEAN
  /\ NoKey \notin Keys

StrikeLimit == 2     \* FAILURE_ATTEMPT_LIMIT

VARIABLES
  jobs,        \* the job table; an id without an entry has NoJob
  issued,      \* how many ids were handed out
  queued,      \* the FIFO of ids
  byKey,       \* the dedup map: the job in flight for a key, 0 for none
  terminal,    \* the retention ring, oldest first
  running, exclusiveRunning, shuttingDown,
  drained,     \* the shutdown reply: "none", "held" or "sent"
  submitting,  \* the key of the submit that the actor is in the middle of
  task,        \* the encode tasks and the Finished messages they send
  cached,      \* the keys whose artifact is in the cache
  strikes,     \* the failed attempts recorded against each key
  evictions    \* how many artifacts left the cache

actorVars == <<jobs, issued, queued, byKey, terminal, running,
               exclusiveRunning, shuttingDown, drained, submitting>>
cacheVars == <<cached, strikes, evictions>>
vars == <<actorVars, task, cacheVars>>

Ids == 1..MaxJobs
NoJob == [key |-> NoKey]
Free == 0

Terminal == {"done", "failed", "cancelled"}   \* also what Finished carries
Present(id) == jobs[id] # NoJob
Settled(id) == jobs[id].event \in Terminal
Live(id) == task[id] # "none"       \* the task exists or its message waits

Init ==
  /\ jobs = [id \in Ids |-> NoJob]
  /\ issued = 0
  /\ queued = <<>>
  /\ byKey = [k \in Keys |-> Free]
  /\ terminal = <<>>
  /\ running = 0
  /\ exclusiveRunning = FALSE
  /\ shuttingDown = FALSE
  /\ drained = "none"
  /\ submitting = NoKey
  /\ task = [id \in Ids |-> "none"]
  /\ cached = {}
  /\ strikes = [k \in Keys |-> 0]
  /\ evictions = 0

\* The actor handles one message at a time.
Idle == submitting = NoKey

-----------------------------------------------------------------------------
(* Helpers *)

\* How many jobs at the head of the queue start: each needs a free slot, an
\* exclusive one needs the pool empty, and nothing starts beside one.
Startable(js, q, busy, alone) ==
  LET Fits(i) == /\ busy + i <= MaxConcurrent
                 /\ ~alone
                 /\ \A j \in 1..(i - 1) : js[q[j]].key \notin Exclusive
                 /\ js[q[i]].key \in Exclusive => busy + i = 1
  IN CHOOSE n \in 0..Len(q) :
       /\ \A i \in 1..n : Fits(i)
       /\ n < Len(q) => ~Fits(n + 1)

\* Queued jobs are told their place in the queue.
WithPositions(js, q) ==
  [id \in Ids |->
     IF \E i \in DOMAIN q : q[i] = id
     THEN [js[id] EXCEPT !.position = CHOOSE i \in DOMAIN q : q[i] = id]
     ELSE js[id]]

\* Mutant: light jobs overtake an exclusive one.
MutDispatchOvertakes(js, tasks, waiting, busy, alone) ==
  LET q == SelectSeq(waiting, LAMBDA id : js[id].key \notin Exclusive)
             \o SelectSeq(waiting, LAMBDA id : js[id].key \in Exclusive)
      n == IF shuttingDown THEN 0 ELSE Startable(js, q, busy, alone)
      started == {q[i] : i \in 1..n}
      rest == SelectSeq(waiting, LAMBDA id : id \notin started)
  IN /\ queued' = rest
     /\ jobs' = WithPositions(
                  [id \in Ids |-> IF id \in started
                                  THEN [js[id] EXCEPT !.event = "running"]
                                  ELSE js[id]], rest)
     /\ task' = [id \in Ids |-> IF id \in started THEN "encoding" ELSE tasks[id]]
     /\ running' = busy + n
     /\ exclusiveRunning' = (alone \/ \E id \in started : js[id].key \in Exclusive)

\* dispatch: the head of the queue starts, the rest learn their positions.
Dispatch(js, tasks, q, busy, alone) ==
  LET n == IF shuttingDown THEN 0 ELSE Startable(js, q, busy, alone)
      started == {q[i] : i \in 1..n}
      rest == SubSeq(q, n + 1, Len(q))
  IN /\ queued' = rest
     /\ jobs' = WithPositions(
                  [id \in Ids |-> IF id \in started
                                  THEN [js[id] EXCEPT !.event = "running"]
                                  ELSE js[id]], rest)
     /\ task' = [id \in Ids |-> IF id \in started THEN "encoding" ELSE tasks[id]]
     /\ running' = busy + n
     /\ exclusiveRunning' = (alone \/ \E id \in started : js[id].key \in Exclusive)

\* prune_terminal: what is left of the ring.  Any number of the oldest may
\* have passed their time to live, the newest has not.
Pruned(ring) ==
  {SubSeq(ring, n + 1, Len(ring)) :
     n \in {m \in 0..(Len(ring) - 1) : Len(ring) - m <= Capacity}}

Members(s) == {s[i] : i \in DOMAIN s}

\* The job table without the jobs that were pruned from the ring.
Remembered(js, ring, kept) ==
  [id \in Ids |-> IF id \in Members(ring) \ Members(kept) THEN NoJob ELSE js[id]]

\* Mutant: the key is freed whoever holds it.
MutReleasedAnyone(id) ==
  [k \in Keys |-> IF k = jobs[id].key THEN Free ELSE byKey[k]]

\* The dedup map without job id.
Released(id) ==
  [k \in Keys |-> IF byKey[k] = id THEN Free ELSE byKey[k]]

NewJob(k, event, position) ==
  [key |-> k, event |-> event, cancel |-> FALSE, position |-> position]

-----------------------------------------------------------------------------
(* Submit *)

\* The lookup hits, or the handler goes on with what it saw.
SubmitLookup(k) ==
  /\ Idle
  /\ issued < MaxJobs
  /\ submitting' = IF k \in cached THEN NoKey ELSE k
  /\ UNCHANGED <<jobs, issued, queued, byKey, terminal, running,
                 exclusiveRunning, shuttingDown, drained, task, cacheVars>>

\* A job for the key is in flight: the client follows that one.
SubmitJoin ==
  /\ ~Idle
  /\ byKey[submitting] # Free
  /\ submitting' = NoKey
  /\ UNCHANGED <<jobs, issued, queued, byKey, terminal, running,
                 exclusiveRunning, shuttingDown, drained, task, cacheVars>>

\* The pool is ending, or the file failed twice: a job that is born settled.
SubmitRefused ==
  /\ ~Idle
  /\ byKey[submitting] = Free
  /\ shuttingDown \/ strikes[submitting] >= StrikeLimit
  /\ LET id == issued + 1
         event == IF shuttingDown THEN "cancelled" ELSE "failed"
         ring == Append(terminal, id)
     IN \E kept \in Pruned(ring) :
          /\ terminal' = kept
          /\ jobs' = Remembered([jobs EXCEPT ![id] = NewJob(submitting, event, 0)],
                                ring, kept)
  /\ issued' = issued + 1
  /\ submitting' = NoKey
  /\ UNCHANGED <<queued, byKey, running, exclusiveRunning, shuttingDown, drained,
                 task, cacheVars>>

\* A job of its own joins the queue, and may start at once.
SubmitCreate ==
  /\ ~Idle
  /\ byKey[submitting] = Free
  /\ ~shuttingDown
  /\ strikes[submitting] < StrikeLimit
  /\ LET id == issued + 1
     IN /\ byKey' = [byKey EXCEPT ![submitting] = id]
        /\ Dispatch([jobs EXCEPT ![id] = NewJob(submitting, "queued", Len(queued) + 1)],
                    task, Append(queued, id), running, exclusiveRunning)
  /\ issued' = issued + 1
  /\ submitting' = NoKey
  /\ UNCHANGED <<terminal, shuttingDown, drained, cacheVars>>

-----------------------------------------------------------------------------
(* The encode tasks *)

\* The runner produced the file; the cancel flag is not read after this.
EncodeOk(id) ==
  /\ task[id] = "encoding"
  /\ task' = [task EXCEPT ![id] = "encoded"]
  /\ UNCHANGED <<actorVars, cacheVars>>

\* commit published the artifact, and clears the strikes.
PublishOk(id) ==
  /\ task[id] = "encoded"
  /\ task' = [task EXCEPT ![id] = "done"]
  /\ cached' = cached \cup {jobs[id].key}
  /\ strikes' = [strikes EXCEPT ![jobs[id].key] = 0]
  /\ UNCHANGED <<actorVars, evictions>>

\* The disk refused the artifact: the job fails, without a verdict.
PublishFails(id) ==
  /\ task[id] = "encoded"
  /\ task' = [task EXCEPT ![id] = "failed"]
  /\ UNCHANGED <<actorVars, cacheVars>>

\* ffmpeg refused the file: a strike, except against a composition.  A raised
\* cancel flag wins over the failure.
EncodeFails(id) ==
  /\ task[id] = "encoding"
  /\ ~jobs[id].cancel
  /\ task' = [task EXCEPT ![id] = "failed"]
  /\ strikes' = [strikes EXCEPT ![jobs[id].key] =
                   IF jobs[id].key \in Compositions THEN @
                   ELSE IF @ = StrikeLimit THEN @ ELSE @ + 1]
  /\ UNCHANGED <<actorVars, cached, evictions>>

\* ffmpeg could not be started: a failure that is no verdict on the file.
SpawnFails(id) ==
  /\ task[id] = "encoding"
  /\ task' = [task EXCEPT ![id] = "failed"]
  /\ UNCHANGED <<actorVars, cacheVars>>

\* The watchdog saw the cancel flag and killed the child.
EncodeCancelled(id) ==
  /\ task[id] = "encoding"
  /\ jobs[id].cancel
  /\ task' = [task EXCEPT ![id] = "cancelled"]
  /\ UNCHANGED <<actorVars, cacheVars>>

\* The cache's budget, a clear or a repair removed an artifact.
Evict(k) ==
  /\ evictions < MaxEvictions
  /\ k \in cached
  /\ cached' = cached \ {k}
  /\ evictions' = evictions + 1
  /\ UNCHANGED <<actorVars, task, strikes>>

-----------------------------------------------------------------------------
(* Finished, Cancel and Shutdown *)

\* Mutant: the exclusive slot is not given back.
MutFinishJobKeepsExclusive(id) ==
  /\ Idle
  /\ task[id] \in Terminal
  /\ LET ring == Append(terminal, id)
         settled == [jobs EXCEPT ![id].event = task[id]]
     IN \E kept \in Pruned(ring) :
          /\ terminal' = kept
          /\ Dispatch(Remembered(settled, ring, kept), [task EXCEPT ![id] = "none"],
                      queued, running - 1, exclusiveRunning)
  /\ byKey' = Released(id)
  /\ drained' = IF running = 1 /\ drained = "held" THEN "sent" ELSE drained
  /\ UNCHANGED <<issued, shuttingDown, submitting, cacheVars>>

\* finish_job: the event, the key, the slot, the ring, the drain, the next.
FinishJob(id) ==
  /\ Idle
  /\ task[id] \in Terminal
  /\ LET ring == Append(terminal, id)
         settled == [jobs EXCEPT ![id].event = task[id]]
     IN \E kept \in Pruned(ring) :
          /\ terminal' = kept
          /\ Dispatch(Remembered(settled, ring, kept), [task EXCEPT ![id] = "none"],
                      queued, running - 1, exclusiveRunning /\ jobs[id].key \notin Exclusive)
  /\ byKey' = Released(id)
  /\ drained' = IF running = 1 /\ drained = "held" THEN "sent" ELSE drained
  /\ UNCHANGED <<issued, shuttingDown, submitting, cacheVars>>

\* cancel_job on a job that runs: the flag is up and the key is free.
CancelRunning(id) ==
  /\ Idle
  /\ Present(id)
  /\ ~Settled(id)
  /\ id \notin Members(queued)
  /\ jobs' = [jobs EXCEPT ![id].cancel = TRUE]
  /\ byKey' = Released(id)
  /\ UNCHANGED <<issued, queued, terminal, running, exclusiveRunning, shuttingDown,
                 drained, submitting, task, cacheVars>>

\* cancel_job on a queued one, which settles here; nothing is dispatched.
CancelQueued(id) ==
  /\ Idle
  /\ \E at \in DOMAIN queued :
       /\ queued[at] = id
       /\ LET rest == RemoveAt(queued, at)
              ring == Append(terminal, id)
              settled == [jobs EXCEPT ![id].event = "cancelled", ![id].cancel = TRUE]
          IN \E kept \in Pruned(ring) :
               /\ terminal' = kept
               /\ queued' = rest
               /\ jobs' = WithPositions(Remembered(settled, ring, kept), rest)
  /\ byKey' = Released(id)
  /\ UNCHANGED <<issued, running, exclusiveRunning, shuttingDown, drained,
                 submitting, task, cacheVars>>

\* Queued jobs settle, running ones are told to stop, and the reply is held
\* for the last of them.
Shutdown ==
  /\ Idle
  /\ CanShutDown
  /\ ~shuttingDown
  /\ shuttingDown' = TRUE
  /\ LET ring == terminal \o queued
         flagged == [id \in Ids |->
                       CASE ~Present(id) -> NoJob
                         [] id \in Members(queued) ->
                              [jobs[id] EXCEPT !.event = "cancelled", !.cancel = TRUE]
                         [] OTHER -> [jobs[id] EXCEPT !.cancel = TRUE]]
     IN \E kept \in Pruned(ring) \cup (IF queued = <<>> THEN {terminal} ELSE {}) :
          /\ terminal' = kept
          /\ jobs' = Remembered(flagged, ring, kept)
  /\ queued' = <<>>
  /\ byKey' = [k \in Keys |-> IF byKey[k] \in Members(queued) THEN Free ELSE byKey[k]]
  /\ drained' = IF running = 0 THEN "sent" ELSE "held"
  /\ UNCHANGED <<issued, running, exclusiveRunning, submitting, task, cacheVars>>

-----------------------------------------------------------------------------
Next ==
  \/ \E k \in Keys : SubmitLookup(k) \/ Evict(k)
  \/ SubmitJoin \/ SubmitRefused \/ SubmitCreate
  \/ \E id \in Ids :
       \/ EncodeOk(id) \/ PublishOk(id) \/ PublishFails(id)
       \/ EncodeFails(id) \/ SpawnFails(id) \/ EncodeCancelled(id)
       \/ FinishJob(id) \/ CancelRunning(id) \/ CancelQueued(id)
  \/ Shutdown

EncodeEnds(id) ==
  EncodeOk(id) \/ EncodeFails(id) \/ SpawnFails(id) \/ EncodeCancelled(id)

\* A stalled encode is killed by the watchdog, a submit in progress goes on,
\* and the mailbox is FIFO: a task's report waits for the messages before it,
\* however many clients go on sending theirs.
Fairness ==
  /\ WF_vars(SubmitJoin) /\ WF_vars(SubmitRefused) /\ WF_vars(SubmitCreate)
  /\ \A id \in Ids :
       /\ WF_vars(EncodeEnds(id))
       /\ WF_vars(PublishOk(id) \/ PublishFails(id))
       /\ SF_vars(FinishJob(id))

Spec == Init /\ [][Next]_vars
FairSpec == Spec /\ Fairness

-----------------------------------------------------------------------------
(* Properties *)

\* Types of the state (PoolState and JobEntry of pool.rs).
TypeOK ==
  /\ \A id \in Ids :
       jobs[id] = NoJob \/
       /\ DOMAIN jobs[id] = {"key", "event", "cancel", "position"}
       /\ jobs[id].key \in Keys
       /\ jobs[id].event \in {"queued", "running"} \cup Terminal
       /\ jobs[id].cancel \in BOOLEAN
       /\ jobs[id].position \in 0..MaxJobs
  /\ issued \in 0..MaxJobs
  /\ queued \in Seq(Ids) /\ terminal \in Seq(Ids)
  /\ byKey \in [Keys -> {Free} \cup Ids]
  /\ running \in 0..MaxConcurrent
  /\ exclusiveRunning \in BOOLEAN /\ shuttingDown \in BOOLEAN
  /\ drained \in {"none", "held", "sent"}
  /\ submitting \in Keys \cup {NoKey}
  /\ task \in [Ids -> {"none", "encoding", "encoded"} \cup Terminal]
  /\ cached \subseteq Keys
  /\ strikes \in [Keys -> 0..StrikeLimit]

\* dispatch/finish_job: a slot is held from the start of a task until its
\* message is handled, and an exclusive encode has the pool for itself.
SlotsAreCounted ==
  LET busy == {id \in Ids : Live(id)}
  IN /\ running = Cardinality(busy)
     /\ exclusiveRunning <=> \E id \in busy : jobs[id].key \in Exclusive
     /\ exclusiveRunning => running = 1

\* Every entry is in exactly one place: the queue, a task, or the ring.  A job
\* that is in none of them would hold its key and its client for ever, one in
\* two would be started or settled twice.
JobsAreAccounted ==
  \A id \in Ids :
    /\ id \in Members(queued) <=> Present(id) /\ jobs[id].event = "queued"
    /\ Live(id) <=> Present(id) /\ jobs[id].event = "running"
    /\ id \in Members(terminal) <=> Present(id) /\ Settled(id)
    /\ Cardinality({i \in DOMAIN queued : queued[i] = id}) <= 1
    /\ Cardinality({i \in DOMAIN terminal : terminal[i] = id}) <= 1

\* A client that asks for a key joins at most one job, and that job is still
\* to be done: no map entry outlives its job, none names a cancelled one, and
\* no two jobs that are still wanted encode the same key.
OneWantedJobPerKey ==
  \A k \in Keys :
    LET wanted == {id \in Ids : /\ Present(id) /\ jobs[id].key = k
                                /\ ~Settled(id) /\ ~jobs[id].cancel}
    IN ~shuttingDown => wanted = {byKey[k]} \ {Free}

\* The position a queued client was told is its position in the queue.
PositionsAreTold ==
  \A i \in DOMAIN queued : jobs[queued[i]].position = i

\* The shutdown reply means that no encode is left and none will start.
DrainedMeansStopped ==
  drained = "sent" => running = 0 /\ queued = <<>> /\ \A id \in Ids : ~Live(id)

\* In every state the slots, the entries and the key map tell of the same
\* jobs, and a shutdown that has replied has left none.
BooksBalance ==
  SlotsAreCounted /\ JobsAreAccounted /\ OneWantedJobPerKey /\ DrainedMeansStopped

\* A client's place only gets better, and a verdict it could read is final.
QueueIsAPromise ==
  [][\A id \in Ids : Present(id) /\ Present(id)' =>
       /\ jobs[id].event = "queued" /\ jobs'[id].event = "queued"
            => jobs'[id].position <= jobs[id].position
       /\ Settled(id) => jobs'[id].event = jobs[id].event]_vars

\* The encode that was asked for in this order starts in this order: a job
\* never starts while an earlier one of the queue waits.
StartsInOrder ==
  [][\A id \in Members(queued) : task'[id] = "encoding" =>
       \A other \in Members(queued) : other < id => other \notin Members(queued')]_vars

\* What a queued client is told is kept: its position is the one in the queue,
\* it only gets better, and the queue starts in order.
QueueIsFair == []PositionsAreTold /\ QueueIsAPromise /\ StartsInOrder

\* Comment of cancel_job: a cancelled job is one "whose only remaining outcome
\* is `cancelled`".
CancelledIsNotDone ==
  \A id \in Ids : Present(id) /\ jobs[id].cancel => jobs[id].event # "done"

\* Every job gets a verdict: ffmpeg is bounded by the watchdog, slots come
\* back, and the queue moves.  And a shutdown ends by itself, without the
\* timeout around it.  Jobs are finitely many, so in the end all have settled.
EverythingSettles ==
  <>[](/\ \A id \in Ids : Present(id) => Settled(id)
       /\ shuttingDown => drained = "sent")
=============================================================================
