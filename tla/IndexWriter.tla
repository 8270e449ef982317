---------------------------- MODULE IndexWriter -----------------------------
(***************************************************************************)
(* The writer of one index database (panoptikon/src/db/index_writer.rs),   *)
(* the supervisor that hands it out, the retrying call every client makes  *)
(* (call_index_db_writer), and the clients whose order matters: extraction *)
(* jobs with the cleanup that follows a failed or cancelled one            *)
(* (jobs/extraction.rs), deletion and maintenance jobs, the continuous     *)
(* scan, and the queue's detached marks.                                   *)
(*                                                                         *)
(* One message is one transaction, so one handler is one action: it        *)
(* changes the database, updates the latch and replies.  Receive is a step *)
(* of its own, because the writer can be stopped, or can panic, while a    *)
(* handler runs.  A stopped writer finishes the handler it is in and drops *)
(* the rest of its mailbox, and the name it is registered under stays      *)
(* taken until the actor is gone.                                          *)
(*                                                                         *)
(* Left out: messages that touch neither tags nor extraction rows (they    *)
(* only take a turn in the mailbox), VACUUM/ANALYZE/checkpoint (no data),  *)
(* the opening and idle closing of the connection (a failure to open is    *)
(* TransactionFails), the Flush barrier, progress updates of a row (they   *)
(* change no column modelled here), and a maintenance job that could not   *)
(* pause the scan and runs anyway.  The item tasks of an extraction are    *)
(* one at a time: their writes meet only in the mailbox.                   *)
(*                                                                         *)
(* The operators named Mut... are faulty variants of the definition that   *)
(* follows them; no specification uses them.                               *)
(***************************************************************************)
EXTENDS Integers, Sequences, FiniteSets

CONSTANTS
    Procs,        \* client tasks: each runs one job, scan event or mark
    None,         \* Option::None
    AtomicJobs,   \* the setting jobs.atomic_extraction_jobs
    MaxItems,     \* bound: items an extraction attempts
    MaxCancels,   \* bound: jobs the queue cancels
    MaxFaults     \* bound: failures of the database, the actors, the process

ASSUME ConstantsAssumption ==
    /\ AtomicJobs \in BOOLEAN
    /\ MaxItems \in Nat
    /\ MaxCancels \in Nat
    /\ MaxFaults \in Nat

ASSUME NoneAssumption == None \notin Procs

VARIABLES
    rows,      \* data_jobs.completed of the row each extraction added
    tagged,    \* the extractions that own rows of tags_items
    stale,     \* tags.item_count differs from what tags_items says
    dirty,     \* maintenance_state.tags_dirty
    writer,    \* life of the writer actor
    gen,       \* incarnations of the writer so far
    latch,     \* tags_dirty_marked
    mailbox,   \* messages the writer has not received
    handling,  \* the message whose handler runs
    known,     \* the supervisor has an entry for the database
    call,      \* the call each client task awaits
    phase,     \* where each client task is
    tally,     \* JobCounters: processed, failed and input-failed items
    current,   \* the job the queue runs
    cancels,   \* cancellations so far
    faults     \* failures so far

db == <<rows, tagged, stale, dirty>>
actor == <<writer, gen, latch, mailbox, handling, known>>
clients == <<phase, tally, current>>
vars == <<db, actor, call, clients, cancels, faults>>

-----------------------------------------------------------------------------
(* State.                                                                  *)

Rows == {"absent", "unfinished", "incomplete", "completed"}
Ops == {"RemoveIncompleteJobs", "AddDataLog", "WriteTagsOutput", "UpdateDataLog",
        "DeleteJobData", "DeleteSetterData", "DeleteItems", "RecountTagItems",
        "MarkTagsDirty"}
Extracting == {"prepare", "clean", "log", "work", "finish"}
Ended == {"done", "failed", "cancelled", "dropped", "crashed"}
Phases == {"new", "failing", "read", "skip", "recount", "delete", "scan", "mark"}
              \cup Extracting \cup Ended

(* A task, and the cleanup a failed or cancelled extraction leaves behind. *)
Callers == Procs \X {"body", "cleanup"}

(* The operations on the row of one extraction.                            *)
RowOps == {"AddDataLog", "WriteTagsOutput", "UpdateDataLog", "DeleteJobData"}

Message ==
    {m \in [caller : Callers, op : Ops, target : Procs \cup {None}, flag : BOOLEAN] :
        m.op \in RowOps => m.target \in Procs}

ASSUME NoMessageAssumption == None \notin Message

CallState ==
    {s \in [pc : {"idle", "get", "send", "wait", "ok", "err"}, attempt : 1..2, gen : Nat,
            op : Ops, target : Procs \cup {None}, flag : BOOLEAN] :
        s.op \in RowOps => s.target \in Procs}

TypeOK ==
    /\ rows \in [Procs -> Rows]
    /\ tagged \subseteq Procs
    /\ stale \in BOOLEAN /\ dirty \in BOOLEAN /\ latch \in BOOLEAN /\ known \in BOOLEAN
    /\ writer \in {"none", "up", "stopping", "dying"}
    /\ gen \in Nat
    /\ mailbox \in Seq(Message)
    /\ handling \in Message \cup {None}
    /\ call \in [Callers -> CallState]
    /\ phase \in [Procs -> Phases]
    /\ tally \in [Procs -> [ok : Nat, failed : Nat, input : Nat]]
    /\ current \in Procs \cup {None}
    /\ cancels \in Nat /\ faults \in Nat

NoCall ==
    [pc |-> "idle", attempt |-> 1, gen |-> 0, op |-> "MarkTagsDirty",
     target |-> None, flag |-> FALSE]

(* A new database: the migration seeds the marker.                         *)
Init ==
    /\ rows = [p \in Procs |-> "absent"]
    /\ tagged = {}
    /\ stale \in BOOLEAN
    /\ dirty = TRUE
    /\ writer = "none"
    /\ gen = 0
    /\ latch = FALSE
    /\ mailbox = <<>>
    /\ handling = None
    /\ known = FALSE
    /\ call = [c \in Callers |-> NoCall]
    /\ phase = [p \in Procs |-> "new"]
    /\ tally = [p \in Procs |-> [ok |-> 0, failed |-> 0, input |-> 0]]
    /\ current = None
    /\ cancels = 0
    /\ faults = 0

Body(p) == <<p, "body">>
Cleanup(p) == <<p, "cleanup">>

-----------------------------------------------------------------------------
(* call_index_db_writer: two attempts, each a GetWriter and a send.        *)

Calling(op, target, flag) ==
    [pc |-> "get", attempt |-> 1, gen |-> 0, op |-> op, target |-> target, flag |-> flag]

(* An attempt found the writer dead, or its reply was dropped.             *)
Again(state) ==
    IF state.attempt = 1 THEN [state EXCEPT !.pc = "get", !.attempt = 2]
                         ELSE [state EXCEPT !.pc = "err"]

(* The supervisor returns its entry; a second attempt (force_new) only if  *)
(* that writer still takes messages.                                       *)
HandsOut(c) == known /\ (call[c].attempt = 1 \/ writer = "up")

(* spawn_writer: the actor is named after the database, and a name that is *)
(* still registered is refused.                                            *)
Spawn ==
    /\ writer = "none"
    /\ writer' = "up"
    /\ gen' = gen + 1
    /\ latch' = FALSE
    /\ known' = TRUE

GetWriter(c) ==
    /\ call[c].pc = "get"
    /\ \/ /\ HandsOut(c)
          /\ call' = [call EXCEPT ![c] = [@ EXCEPT !.pc = "send", !.gen = gen]]
          /\ UNCHANGED <<writer, gen, latch, known>>
       \/ /\ ~HandsOut(c)
          /\ Spawn
          /\ call' = [call EXCEPT ![c] = [@ EXCEPT !.pc = "send", !.gen = gen + 1]]
       \/ /\ ~HandsOut(c)
          /\ writer # "none"
          /\ known' = FALSE
          /\ call' = [call EXCEPT ![c] = [@ EXCEPT !.pc = "err"]]
          /\ UNCHANGED <<writer, gen, latch>>
    /\ UNCHANGED <<db, mailbox, handling, clients, cancels, faults>>

(* The writer the caller was given may have stopped or been replaced.      *)
Reachable(c) == call[c].gen = gen /\ writer \in {"up", "stopping"}

SendMessage(c) ==
    /\ call[c].pc = "send"
    /\ IF Reachable(c)
       THEN /\ mailbox' = Append(mailbox,
                   [caller |-> c, op |-> call[c].op, target |-> call[c].target,
                    flag |-> call[c].flag])
            /\ call' = [call EXCEPT ![c] = [@ EXCEPT !.pc = "wait"]]
       ELSE /\ call' = [call EXCEPT ![c] = Again(@)]
            /\ UNCHANGED mailbox
    /\ UNCHANGED <<db, writer, gen, latch, handling, known, clients, cancels, faults>>

-----------------------------------------------------------------------------
(* The writer's handlers.                                                  *)

Receive ==
    /\ writer = "up"
    /\ handling = None
    /\ mailbox # <<>>
    /\ handling' = Head(mailbox)
    /\ mailbox' = Tail(mailbox)
    /\ UNCHANGED <<db, writer, gen, latch, known, call, clients, cancels, faults>>

Handles(op) == handling # None /\ handling.op = op

(* The reply, which an abandoned call does not hear.                       *)
Reply(result) ==
    /\ call' = [call EXCEPT ![handling.caller] =
                   IF @.pc = "wait" THEN [@ EXCEPT !.pc = result] ELSE @]
    /\ handling' = None
    /\ UNCHANGED <<writer, gen, mailbox, known, clients, cancels>>

(* The cascade into tags_items is overlooked: no marker.                   *)
MutDeleteRows(victims) ==
    /\ rows' = [p \in Procs |-> IF p \in victims THEN "absent" ELSE rows[p]]
    /\ tagged' = tagged \ victims
    /\ stale' = (stale \/ victims \cap tagged # {})
    /\ UNCHANGED <<dirty, latch>>

(* data_jobs rows go away; item_data and tags_items follow by ON DELETE    *)
(* CASCADE, and the marker is set if there was a row.                      *)
DeleteRows(victims) ==
    /\ rows' = [p \in Procs |-> IF p \in victims THEN "absent" ELSE rows[p]]
    /\ tagged' = tagged \ victims
    /\ stale' = (stale \/ victims \cap tagged # {})
    /\ dirty' = (dirty \/ victims # {})
    /\ latch' = (latch \/ victims # {})

MarkIncomplete(victims) ==
    /\ rows' = [p \in Procs |-> IF p \in victims THEN "incomplete" ELSE rows[p]]
    /\ UNCHANGED <<tagged, stale, dirty, latch>>

Unfinished == {p \in Procs : rows[p] = "unfinished"}

(* Every unfinished row of the database, whoever added it.                 *)
RemoveIncompleteJobs ==
    /\ Handles("RemoveIncompleteJobs")
    /\ IF AtomicJobs THEN DeleteRows(Unfinished) ELSE MarkIncomplete(Unfinished)
    /\ Reply("ok")
    /\ UNCHANGED faults

AddDataLog ==
    /\ Handles("AddDataLog")
    /\ rows' = [rows EXCEPT ![handling.target] = "unfinished"]
    /\ Reply("ok")
    /\ UNCHANGED <<tagged, stale, dirty, latch, faults>>

(* flag: the output has content.  A placeholder inserts no tags.  With the *)
(* job's row gone the insert fails its foreign key and is rolled back.     *)
WriteTagsOutput ==
    /\ Handles("WriteTagsOutput")
    /\ \/ /\ rows[handling.target] # "absent"
          /\ IF handling.flag
             THEN /\ tagged' = tagged \cup {handling.target}
                  /\ stale' = TRUE
                  /\ dirty' = (dirty \/ ~latch)
                  /\ latch' = TRUE
             ELSE UNCHANGED <<tagged, stale, dirty, latch>>
          /\ Reply("ok")
       \/ /\ rows[handling.target] = "absent"
          /\ Reply("err")
          /\ UNCHANGED <<tagged, stale, dirty, latch>>
    /\ UNCHANGED <<rows, faults>>

(* flag: finished.  An UPDATE of a row that is gone matches nothing.       *)
UpdateDataLog ==
    /\ Handles("UpdateDataLog")
    /\ rows' = IF handling.flag /\ rows[handling.target] # "absent"
               THEN [rows EXCEPT ![handling.target] = "completed"]
               ELSE rows
    /\ Reply("ok")
    /\ UNCHANGED <<tagged, stale, dirty, latch, faults>>

DeleteJobData ==
    /\ Handles("DeleteJobData")
    /\ DeleteRows({handling.target} \ {p \in Procs : rows[p] = "absent"})
    /\ Reply("ok")
    /\ UNCHANGED faults

(* The tags that remain are those of keep; touched: some rows went, with   *)
(* or without leaving their extraction others.                             *)
LoseTags(keep, touched) ==
    /\ keep \subseteq tagged
    /\ keep # tagged => touched
    /\ touched => tagged # {}
    /\ tagged' = keep
    /\ stale' = (stale \/ touched)

(* The setter's item_data cascades into tags_items.                        *)
DeleteSetterData ==
    /\ Handles("DeleteSetterData")
    /\ \E deleted \in BOOLEAN :
          /\ tagged # {} => deleted
          /\ LoseTags({}, tagged # {})
          /\ dirty' = (dirty \/ deleted)
          /\ latch' = (latch \/ deleted)
    /\ Reply("ok")
    /\ UNCHANGED <<rows, faults>>

(* DeleteItemIfOrphan of the continuous scan and DeleteItemsWithoutFiles   *)
(* of a file scan: whatever items are deleted take their tags along.       *)
DeleteItems ==
    /\ Handles("DeleteItems")
    /\ \E keep \in SUBSET tagged, touched \in BOOLEAN, deleted \in BOOLEAN :
          /\ touched => deleted
          /\ LoseTags(keep, touched)
          /\ dirty' = (dirty \/ deleted)
          /\ latch' = (latch \/ deleted)
    /\ Reply("ok")
    /\ UNCHANGED <<rows, faults>>

(* A recount whose handler forgets that the latch has to be released.      *)
MutRecountTagItems ==
    /\ Handles("RecountTagItems")
    /\ stale' = FALSE
    /\ dirty' = FALSE
    /\ Reply("ok")
    /\ UNCHANGED <<rows, tagged, latch, faults>>

RecountTagItems ==
    /\ Handles("RecountTagItems")
    /\ stale' = FALSE
    /\ dirty' = FALSE
    /\ latch' = FALSE
    /\ Reply("ok")
    /\ UNCHANGED <<rows, tagged, faults>>

MarkTagsDirty ==
    /\ Handles("MarkTagsDirty")
    /\ dirty' = TRUE
    /\ latch' = TRUE
    /\ Reply("ok")
    /\ UNCHANGED <<rows, tagged, stale, faults>>

(* with_transaction reports an error: nothing was committed, and the latch *)
(* is as it was.                                                           *)
TransactionFails ==
    /\ handling # None
    /\ faults < MaxFaults
    /\ faults' = faults + 1
    /\ Reply("err")
    /\ UNCHANGED <<db, latch>>

Handle ==
    \/ RemoveIncompleteJobs \/ AddDataLog \/ WriteTagsOutput \/ UpdateDataLog
    \/ DeleteJobData \/ DeleteSetterData \/ DeleteItems
    \/ RecountTagItems \/ MarkTagsDirty

-----------------------------------------------------------------------------
(* The end of a writer, of the supervisor and of the process.              *)

(* The callers keep waiting for a writer that is gone.                     *)
MutDropMailbox ==
    /\ mailbox' = <<>>
    /\ handling' = None
    /\ UNCHANGED call

(* The mailbox is dropped, and the reply channels in it: every caller that *)
(* waits makes its second attempt or gives up.                             *)
DropMailbox ==
    /\ mailbox' = <<>>
    /\ handling' = None
    /\ call' = [c \in Callers |->
                   IF call[c].pc = "wait" THEN Again(call[c]) ELSE call[c]]

(* The supervisor's HealthCheck removes an entry whose files do not answer *)
(* and stops its writer, or removes the entry of a dead writer.            *)
HealthCheck ==
    /\ known
    /\ known' = FALSE
    /\ \/ /\ writer = "up"
          /\ faults < MaxFaults
          /\ faults' = faults + 1
          /\ writer' = "stopping"
       \/ /\ writer # "up"
          /\ UNCHANGED <<writer, faults>>
    /\ UNCHANGED <<db, gen, latch, mailbox, handling, call, clients, cancels>>

WriterStops ==
    /\ writer = "stopping"
    /\ handling = None
    /\ writer' = "dying"
    /\ DropMailbox
    /\ UNCHANGED <<db, gen, latch, known, clients, cancels, faults>>

(* A handler panics; its transaction is rolled back with the connection.   *)
WriterPanics ==
    /\ handling # None
    /\ faults < MaxFaults
    /\ faults' = faults + 1
    /\ writer' = "dying"
    /\ DropMailbox
    /\ UNCHANGED <<db, gen, latch, known, clients, cancels>>

(* ractor unregisters the name.                                            *)
WriterGone ==
    /\ writer = "dying"
    /\ writer' = "none"
    /\ UNCHANGED <<db, gen, latch, mailbox, handling, known, call, clients, cancels, faults>>

(* Requests in the supervisor's mailbox get no answer, which is an error   *)
(* and no retry.  replace_supervisor, which every caller that finds the    *)
(* supervisor dead runs, starts from an empty map; the writer lives on.    *)
SupervisorPanics ==
    /\ known
    /\ faults < MaxFaults
    /\ faults' = faults + 1
    /\ known' = FALSE
    /\ \E lost \in SUBSET {c \in Callers : call[c].pc = "get"} :
          call' = [c \in Callers |->
                      IF c \in lost THEN [call[c] EXCEPT !.pc = "err"] ELSE call[c]]
    /\ UNCHANGED <<db, writer, gen, latch, mailbox, handling, clients, cancels>>

(* The process dies and starts again on the same database.                 *)
Crash ==
    /\ faults < MaxFaults
    /\ faults' = faults + 1
    /\ writer' = "none"
    /\ latch' = FALSE
    /\ mailbox' = <<>>
    /\ handling' = None
    /\ known' = FALSE
    /\ call' = [c \in Callers |-> NoCall]
    /\ phase' = [p \in Procs |->
                    IF phase[p] \in Ended \cup {"new"} THEN phase[p] ELSE "crashed"]
    /\ current' = None
    /\ UNCHANGED <<db, gen, tally, cancels>>

-----------------------------------------------------------------------------
(* The clients.  The queue runs one job at a time.  A job that writes has  *)
(* paused the continuous scan before it calls the writer.                  *)

ScanIdle == \A p \in Procs : phase[p] # "scan"
Replied(c) == call[c].pc \in {"ok", "err"}

StartJob(p, first) ==
    /\ phase[p] = "new"
    /\ current = None
    /\ ScanIdle
    /\ current' = p
    /\ phase' = [phase EXCEPT ![p] = first]
    /\ UNCHANGED <<db, actor, tally, cancels, faults>>

(* run_extraction_job: the cleanup guard is armed, the work is looked up,  *)
StartExtraction(p) == StartJob(p, "prepare") /\ UNCHANGED call

(* older unfinished rows are cleaned up, ...                               *)
Prepared(p) ==
    /\ phase[p] = "prepare"
    /\ phase' = [phase EXCEPT ![p] = "clean"]
    /\ call' = [call EXCEPT ![Body(p)] = Calling("RemoveIncompleteJobs", None, FALSE)]
    /\ UNCHANGED <<db, actor, tally, current, cancels, faults>>

(* ... nothing to do, or the row of this job is added, ...                 *)
Cleaned(p) ==
    /\ phase[p] = "clean"
    /\ call[Body(p)].pc = "ok"
    /\ \/ /\ phase' = [phase EXCEPT ![p] = "done"]
          /\ current' = None
          /\ call' = [call EXCEPT ![Body(p)] = NoCall]
       \/ /\ phase' = [phase EXCEPT ![p] = "log"]
          /\ call' = [call EXCEPT ![Body(p)] = Calling("AddDataLog", p, FALSE)]
          /\ UNCHANGED current
    /\ UNCHANGED <<db, actor, tally, cancels, faults>>

Logged(p) ==
    /\ phase[p] = "log"
    /\ call[Body(p)].pc = "ok"
    /\ phase' = [phase EXCEPT ![p] = "work"]
    /\ call' = [call EXCEPT ![Body(p)] = NoCall]
    /\ UNCHANGED <<db, actor, tally, current, cancels, faults>>

processed(t) == t.ok + t.failed + t.input

(* ... items fail before anything is written, on their own media or not,   *)
ItemFails(p) ==
    /\ phase[p] = "work"
    /\ call[Body(p)].pc = "idle"
    /\ processed(tally[p]) < MaxItems
    /\ \/ tally' = [tally EXCEPT ![p].failed = @ + 1]
       \/ tally' = [tally EXCEPT ![p].input = @ + 1]
    /\ UNCHANGED <<db, actor, call, phase, current, cancels, faults>>

(* or are written, tags or placeholder, ...                                *)
WriteItem(p) ==
    /\ phase[p] = "work"
    /\ call[Body(p)].pc = "idle"
    /\ processed(tally[p]) < MaxItems
    /\ \E content \in BOOLEAN :
          call' = [call EXCEPT ![Body(p)] = Calling("WriteTagsOutput", p, content)]
    /\ UNCHANGED <<db, actor, clients, cancels, faults>>

ItemWritten(p) ==
    /\ phase[p] = "work"
    /\ Replied(Body(p))
    /\ tally' = IF call[Body(p)].pc = "ok" THEN [tally EXCEPT ![p].ok = @ + 1]
                                           ELSE [tally EXCEPT ![p].failed = @ + 1]
    /\ call' = [call EXCEPT ![Body(p)] = NoCall]
    /\ UNCHANGED <<db, actor, phase, current, cancels, faults>>

(* ... and the row is closed unless every item failed for a reason that is *)
(* not its media (classify_extraction_job_failure).                        *)
Systemic(t) == processed(t) > 0 /\ t.ok = 0 /\ t.failed > 0

FinishExtraction(p) ==
    /\ phase[p] = "work"
    /\ call[Body(p)].pc = "idle"
    /\ phase' = [phase EXCEPT ![p] = "finish"]
    /\ call' = [call EXCEPT ![Body(p)] = Calling("UpdateDataLog", p, ~Systemic(tally[p]))]
    /\ UNCHANGED <<db, actor, tally, current, cancels, faults>>

(* The job's own cleanup is called before the job reports its failure.     *)
Fail(p) ==
    /\ phase' = [phase EXCEPT ![p] = "failing"]
    /\ call' = [call EXCEPT ![Body(p)] = NoCall,
                            ![Cleanup(p)] = Calling("RemoveIncompleteJobs", None, FALSE)]
    /\ UNCHANGED current

Finish(p, outcome) ==
    /\ phase' = [phase EXCEPT ![p] = outcome]
    /\ current' = None
    /\ call' = [call EXCEPT ![Body(p)] = NoCall, ![Cleanup(p)] = NoCall]

(* A success whose cleanup guard is not disarmed: dropping it detaches a   *)
(* cleanup.                                                                *)
MutFinished(p) ==
    /\ phase[p] = "finish"
    /\ Replied(Body(p))
    /\ IF Systemic(tally[p])
       THEN Fail(p)
       ELSE /\ phase' = [phase EXCEPT ![p] = "done"]
            /\ current' = None
            /\ call' = [call EXCEPT ![Body(p)] = NoCall,
                   ![Cleanup(p)] = Calling("RemoveIncompleteJobs", None, FALSE)]
    /\ UNCHANGED <<db, actor, tally, cancels, faults>>

(* The answer to the last update is ignored.                               *)
Finished(p) ==
    /\ phase[p] = "finish"
    /\ Replied(Body(p))
    /\ IF Systemic(tally[p]) THEN Fail(p) ELSE Finish(p, "done")
    /\ UNCHANGED <<db, actor, tally, cancels, faults>>

(* A call of the job failed, or one of its queries, or the model's load;   *)
(* in `work' that drops the item tasks and the call one may be waiting on. *)
ExtractionErrs(p) ==
    /\ phase[p] \in {"prepare", "clean", "log", "work"}
    /\ phase[p] \in {"clean", "log"} => Replied(Body(p))
    /\ Fail(p)
    /\ UNCHANGED <<db, actor, tally, cancels, faults>>

(* The cleanup of a failed job is awaited by the job; that of a cancelled  *)
(* one is a detached task.                                                 *)
CleanedUp(p) ==
    /\ Replied(Cleanup(p))
    /\ IF phase[p] = "failing"
       THEN Finish(p, "failed")
       ELSE call' = [call EXCEPT ![Cleanup(p)] = NoCall] /\ UNCHANGED <<phase, current>>
    /\ UNCHANGED <<db, actor, tally, cancels, faults>>

(* JobDataDeletion and DataDeletion jobs, and a file scan's item deletion. *)
StartDeletion(p) ==
    /\ StartJob(p, "delete")
    /\ \/ \E target \in {q \in Procs : rows[q] # "absent"} :
             call' = [call EXCEPT ![Body(p)] = Calling("DeleteJobData", target, FALSE)]
       \/ \E op \in {"DeleteSetterData", "DeleteItems"} :
             call' = [call EXCEPT ![Body(p)] = Calling(op, None, FALSE)]

Deleted(p) ==
    /\ phase[p] = "delete"
    /\ Replied(Body(p))
    /\ Finish(p, IF call[Body(p)].pc = "ok" THEN "done" ELSE "failed")
    /\ UNCHANGED <<db, actor, tally, cancels, faults>>

(* run_post_job_maintenance *)
StartMaintenance(p) == StartJob(p, "read") /\ UNCHANGED call

(* A marker that cannot be read counts as clean.                           *)
MutDecideRecount(p) ==
    /\ phase[p] = "read"
    /\ \E tags_changed \in BOOLEAN, readable \in BOOLEAN :
          IF tags_changed \/ (readable /\ dirty)
          THEN /\ phase' = [phase EXCEPT ![p] = "recount"]
               /\ call' = [call EXCEPT ![Body(p)] = Calling("RecountTagItems", None, FALSE)]
          ELSE /\ phase' = [phase EXCEPT ![p] = "skip"]
               /\ UNCHANGED call
    /\ UNCHANGED <<db, actor, tally, current, cancels, faults>>

(* The owed flag, the marker, or a marker that cannot be read, asks for a  *)
(* recount; the read is not the writer's.                                  *)
DecideRecount(p) ==
    /\ phase[p] = "read"
    /\ \E tags_changed \in BOOLEAN, readable \in BOOLEAN :
          IF tags_changed \/ ~readable \/ dirty
          THEN /\ phase' = [phase EXCEPT ![p] = "recount"]
               /\ call' = [call EXCEPT ![Body(p)] = Calling("RecountTagItems", None, FALSE)]
          ELSE /\ phase' = [phase EXCEPT ![p] = "skip"]
               /\ UNCHANGED call
    /\ UNCHANGED <<db, actor, tally, current, cancels, faults>>

(* A failed recount is not tolerated, and nothing ends the job.            *)
MutMaintained(p) ==
    /\ \/ phase[p] = "skip"
       \/ phase[p] = "recount" /\ call[Body(p)].pc = "ok"
    /\ Finish(p, "done")
    /\ UNCHANGED <<db, actor, tally, cancels, faults>>

(* A failed recount is logged, never an error of the job.                  *)
Maintained(p) ==
    /\ \/ phase[p] = "skip"
       \/ phase[p] = "recount" /\ Replied(Body(p))
    /\ Finish(p, "done")
    /\ UNCHANGED <<db, actor, tally, cancels, faults>>

(* The continuous scan deletes an item whose last file is gone.  It is     *)
(* paused for the job, not for the cleanup after it.                       *)
StartScan(p) ==
    /\ phase[p] = "new"
    /\ ScanIdle
    /\ current # None => phase[current] = "failing"
    /\ phase' = [phase EXCEPT ![p] = "scan"]
    /\ call' = [call EXCEPT ![Body(p)] = Calling("DeleteItems", None, FALSE)]
    /\ UNCHANGED <<db, actor, tally, current, cancels, faults>>

(* After enough deletions the scan runs the maintenance itself, before it  *)
(* takes its next event or a pause.  A marker that cannot be read asks for *)
(* the recount as a dirty one does, so it may happen in any state.         *)
ScanMaintains(p) ==
    /\ phase[p] = "scan"
    /\ call[Body(p)].pc = "ok"
    /\ call[Body(p)].op = "DeleteItems"
    /\ call' = [call EXCEPT ![Body(p)] = Calling("RecountTagItems", None, FALSE)]
    /\ UNCHANGED <<db, actor, clients, cancels, faults>>

(* write_tags_dirty_marker: a detached task of the queue.                  *)
StartMark(p) ==
    /\ phase[p] = "new"
    /\ phase' = [phase EXCEPT ![p] = "mark"]
    /\ call' = [call EXCEPT ![Body(p)] = Calling("MarkTagsDirty", None, FALSE)]
    /\ UNCHANGED <<db, actor, tally, current, cancels, faults>>

TaskEnds(p) ==
    /\ phase[p] \in {"scan", "mark"}
    /\ Replied(Body(p))
    /\ phase' = [phase EXCEPT ![p] = "done"]
    /\ call' = [call EXCEPT ![Body(p)] = NoCall]
    /\ UNCHANGED <<db, actor, tally, current, cancels, faults>>

(* The queue aborts the job's task, which drops what it awaits; a message  *)
(* it has sent stays in the mailbox.  The armed guard of an extraction     *)
(* detaches the cleanup; once run() has taken the guard's name there is    *)
(* nothing left for Drop to do.                                            *)
Cancel(p) ==
    /\ current = p
    /\ cancels < MaxCancels
    /\ cancels' = cancels + 1
    /\ current' = None
    /\ phase' = [phase EXCEPT ![p] = IF @ = "failing" THEN "dropped" ELSE "cancelled"]
    /\ call' = [call EXCEPT
          ![Body(p)] = NoCall,
          ![Cleanup(p)] = IF phase[p] \in Extracting
                          THEN Calling("RemoveIncompleteJobs", None, FALSE)
                          ELSE NoCall]
    /\ UNCHANGED <<db, actor, tally, faults>>

-----------------------------------------------------------------------------

JobStep(p) ==
    \/ Prepared(p) \/ Cleaned(p) \/ Logged(p) \/ ItemWritten(p) \/ FinishExtraction(p)
    \/ Finished(p) \/ CleanedUp(p) \/ Deleted(p) \/ DecideRecount(p) \/ Maintained(p) \/ TaskEnds(p)

Next ==
    \/ \E c \in Callers : GetWriter(c) \/ SendMessage(c)
    \/ Receive \/ Handle \/ TransactionFails
    \/ HealthCheck \/ WriterStops \/ WriterPanics \/ WriterGone
    \/ SupervisorPanics \/ Crash
    \/ \E p \in Procs :
          \/ StartExtraction(p) \/ StartDeletion(p) \/ StartMaintenance(p)
          \/ StartScan(p) \/ ScanMaintains(p) \/ StartMark(p)
          \/ ItemFails(p) \/ WriteItem(p) \/ ExtractionErrs(p)
          \/ JobStep(p) \/ Cancel(p)

Spec == Init /\ [][Next]_vars

CallErrs(p) ==
    /\ phase[p] # "work"
    /\ call[Body(p)].pc = "err"
    /\ ExtractionErrs(p)

(* The actors and the tasks are scheduled.  A job whose call has failed    *)
(* goes on to fail.  Nothing makes a client start, an item be attempted or *)
(* an extraction fail at its work.                                         *)
Fairness ==
    /\ \A c \in Callers : WF_vars(GetWriter(c)) /\ WF_vars(SendMessage(c))
    /\ WF_vars(Receive) /\ WF_vars(Handle)
    /\ WF_vars(WriterStops) /\ WF_vars(WriterGone)
    /\ \A p \in Procs : WF_vars(JobStep(p)) /\ WF_vars(CallErrs(p))

FairSpec == Spec /\ Fairness

-----------------------------------------------------------------------------
(* Properties.                                                             *)

(* Counts that are out of date are marked, durably, whatever was latched,  *)
(* respawned, rolled back or crashed since: the promise of the header of   *)
(* maintenance_state.rs, kept by the handlers that skip the marker write.  *)
StaleIsMarked == stale => dirty

(* The latch never says "marked" of a marker a recount has cleared, which  *)
(* is why a write may skip the marker (the comment on tags_dirty_marked).  *)
LatchIsHonest == latch => dirty

(* No change of a tag is lost on the next recount: the marker is durable,   *)
(* and whoever skips writing it is right to.                                *)
MarkerHolds == StaleIsMarked /\ LatchIsHonest

(* The writer and everything around it implement the abstract debt.        *)
Debt == INSTANCE TagDebt WITH stale <- stale, dirty <- dirty
DebtSpec == Debt!Spec

Quiet ==
    /\ current = None
    /\ mailbox = <<>> /\ handling = None
    /\ \A c \in Callers : call[c].pc = "idle"

(* Without failures, once nothing runs and nothing is in flight no row is  *)
(* left unfinished: every failed or cancelled extraction got its cleanup   *)
(* (IncompleteJobCleanup), except one that is cancelled while it awaits    *)
(* its own cleanup.                                                        *)
HistoryIsSettled ==
    Quiet /\ faults = 0 =>
        \A p \in Procs : rows[p] = "unfinished" => phase[p] = "dropped"

(* The row of an extraction at work is there and unfinished: no cleanup of *)
(* another job touches it (the comment on IncompleteJobCleanup says it     *)
(* marks "this job's" row).                                                *)
LiveJobHasItsRow ==
    \A p \in Procs :
        current = p /\ phase[p] = "work" => rows[p] = "unfinished"

(* The row of an extraction follows it: unfinished while the extraction is  *)
(* at work, settled when it is over.  The cleanup that a cancelled job      *)
(* leaves behind may take the row of the next one, so the first half is     *)
(* only kept while nothing has been cancelled.                              *)
RowsFollowJobs == HistoryIsSettled /\ (cancels = 0 => LiveJobHasItsRow)

(* A maintenance pass that skipped the recount leaves no stale counts      *)
(* behind: nothing raced its read of the marker (tags_are_dirty).          *)
SkipIsSafe == \A p \in Procs : current = p /\ phase[p] = "skip" => ~stale

(* That is so while nothing fails and nothing is cancelled: the detached   *)
(* cleanup of a cancelled job does race the read.                          *)
CalmSkipIsSafe == cancels = 0 /\ faults = 0 => SkipIsSafe

(* Whoever awaits a reply has its message with the writer, once.           *)
Heard(c) ==
    Cardinality({i \in DOMAIN mailbox : mailbox[i].caller = c})
        + (IF handling # None /\ handling.caller = c THEN 1 ELSE 0)
WaitersAreHeard ==
    \A c \in Callers :
        /\ call[c].pc = "wait" => Heard(c) = 1
        /\ writer \in {"none", "dying"} => Heard(c) = 0

(* Every call returns, through writer deaths, name clashes and retries,    *)
(* and every job, event and mark ends, which is what the queue's own       *)
(* progress rests on.  The clients are finitely many and each runs once,   *)
(* so this is that all is at rest in the end.                              *)
AtRest ==
    /\ \A p \in Procs : phase[p] \in {"new"} \cup Ended
    /\ \A c \in Callers : call[c].pc = "idle"
EverythingEnds == <>[]AtRest

=============================================================================
