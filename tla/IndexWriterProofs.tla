------------------------- MODULE IndexWriterProofs --------------------------
(***************************************************************************)
(* Proofs about module IndexWriter, for every set of clients and every     *)
(* bound: the state is well typed, the latch and the marker are honest,    *)
(* the writer implements the abstract debt of module TagDebt, who waits is *)
(* heard once, the row of an extraction follows it, and a maintenance pass *)
(* that skips its recount is right to.                                     *)
(***************************************************************************)
EXTENDS IndexWriter, SequenceTheorems, FiniteSetTheorems, TLAPS

(* What is inductive.  StaleIsMarked alone is not: a write that finds the  *)
(* latch set leaves the marker alone, so the latch has to be honest too.   *)
IInv == TypeOK /\ LatchIsHonest /\ StaleIsMarked

-----------------------------------------------------------------------------
(* The states of a call.                                                   *)

(* A call moves on without changing what it asks for.                      *)
LEMMA CallMoves ==
    ASSUME NEW s \in CallState,
           NEW pc \in {"idle", "get", "send", "wait", "ok", "err"},
           NEW n \in Nat
    PROVE  /\ [s EXCEPT !.pc = pc] \in CallState
           /\ [s EXCEPT !.pc = pc, !.gen = n] \in CallState
           /\ [s EXCEPT !.pc = pc, !.attempt = 2] \in CallState
<1> DEFINE R == [pc : {"idle", "get", "send", "wait", "ok", "err"}, attempt : 1..2,
                gen : Nat, op : Ops, target : Procs \cup {None}, flag : BOOLEAN]
           t == [s EXCEPT !.pc = pc]
           u == [s EXCEPT !.pc = pc, !.gen = n]
           v == [s EXCEPT !.pc = pc, !.attempt = 2]
<1>1. s \in R /\ (s.op \in RowOps => s.target \in Procs)
  BY DEF CallState
<1>2. t \in R /\ t.op = s.op /\ t.target = s.target
  BY <1>1
<1>3. u \in R /\ u.op = s.op /\ u.target = s.target
  BY <1>1
<1>4. v \in R /\ v.op = s.op /\ v.target = s.target
  BY <1>1, 2 \in 1..2
<1> HIDE DEF t, u, v
<1>5. t \in CallState /\ u \in CallState /\ v \in CallState
  BY <1>1, <1>2, <1>3, <1>4 DEF CallState
<1> QED
  BY <1>5 DEF t, u, v

(* A second attempt, or giving up.                                         *)
LEMMA AgainType ==
    ASSUME NEW s \in CallState
    PROVE  Again(s) \in CallState
BY CallMoves, 0 \in Nat DEF Again

(* A new call is well formed if an operation on a row names one.           *)
LEMMA CallingType ==
    ASSUME NEW op \in Ops, NEW target \in Procs \cup {None}, NEW flag \in BOOLEAN,
           op \in RowOps => target \in Procs
    PROVE  Calling(op, target, flag) \in CallState
BY DEF Calling, CallState

(* No call at all.                                                         *)
LEMMA NoCallType == NoCall \in CallState
BY DEF NoCall, CallState, Ops, RowOps

(* Both callers of a task are callers.                                     *)
LEMMA CallersOf ==
    ASSUME NEW p \in Procs
    PROVE  Body(p) \in Callers /\ Cleanup(p) \in Callers
BY DEF Body, Cleanup, Callers

(* The cleanup calls need no row.                                          *)
LEMMA CleanupCallType == Calling("RemoveIncompleteJobs", None, FALSE) \in CallState
BY CallingType DEF Ops, RowOps

-----------------------------------------------------------------------------
(* The initial states are well typed and honest.                           *)
LEMMA InitIInv == Init => IInv
<1> SUFFICES ASSUME Init PROVE IInv
  OBVIOUS
<1>1. mailbox \in Seq(Message)
  BY DEF Init
<1>2. call \in [Callers -> CallState]
  BY NoCallType DEF Init
<1> QED
  BY <1>1, <1>2 DEF Init, IInv, TypeOK, LatchIsHonest, StaleIsMarked, Rows, Phases

(* A step that leaves the database and the latch alone keeps them honest.  *)
LEMMA HonestyKept ==
    ASSUME IInv, stale' = stale, dirty' = dirty, latch' => latch
    PROVE  LatchIsHonest' /\ StaleIsMarked'
BY DEF IInv, LatchIsHonest, StaleIsMarked

-----------------------------------------------------------------------------
(* The call.                                                               *)
LEMMA CallSteps ==
    ASSUME IInv, NEW c \in Callers, GetWriter(c) \/ SendMessage(c)
    PROVE  IInv'
<1> USE DEF IInv
<1>1. call[c] \in CallState
  BY DEF TypeOK
<1>2. CASE GetWriter(c)
  <2>1. gen + 1 \in Nat /\ gen \in Nat
    BY DEF TypeOK
  <2>2. call' \in [Callers -> CallState]
    <3>1. \E s \in CallState : call' = [call EXCEPT ![c] = s]
      BY <1>1, <1>2, <2>1, CallMoves DEF GetWriter
    <3> QED
      BY <3>1 DEF TypeOK
  <2>3. LatchIsHonest' /\ StaleIsMarked'
    <3>1. stale' = stale /\ dirty' = dirty /\ (latch' => latch)
      BY <1>2 DEF GetWriter, Spawn, db
    <3> QED
      BY <3>1, HonestyKept
  <2> QED
    BY <1>2, <2>1, <2>2, <2>3 DEF GetWriter, Spawn, TypeOK, db, clients
<1>3. CASE SendMessage(c)
  <2>1. call' \in [Callers -> CallState]
    BY <1>1, <1>3, CallMoves, AgainType, 0 \in Nat DEF SendMessage, TypeOK
  <2>2. [caller |-> c, op |-> call[c].op, target |-> call[c].target,
         flag |-> call[c].flag] \in Message
    BY <1>1 DEF CallState, Message
  <2>3. mailbox' \in Seq(Message)
    <3>1. mailbox' = mailbox \/ \E m \in Message : mailbox' = Append(mailbox, m)
      BY <1>3, <2>2 DEF SendMessage
    <3>2. mailbox \in Seq(Message)
      BY DEF TypeOK
    <3>3. \A m \in Message : Append(mailbox, m) \in Seq(Message)
      BY <3>2
    <3> QED
      BY <3>1, <3>2, <3>3
  <2>4. LatchIsHonest' /\ StaleIsMarked'
    <3>1. stale' = stale /\ dirty' = dirty /\ (latch' => latch)
      BY <1>3 DEF SendMessage, db
    <3> QED
      BY <3>1, HonestyKept
  <2> QED
    BY <1>3, <2>1, <2>3, <2>4 DEF SendMessage, TypeOK, db, clients
<1> QED
  BY <1>2, <1>3

-----------------------------------------------------------------------------
(* The writer's handlers.                                                  *)

(* What a reply leaves well typed.                                         *)
LEMMA ReplyType ==
    ASSUME TypeOK, handling # None, NEW result \in {"ok", "err"}, Reply(result)
    PROVE  /\ handling \in Message
           /\ call' \in [Callers -> CallState]
           /\ handling' = None
           /\ UNCHANGED <<writer, gen, mailbox, known, clients, cancels>>
<1>1. handling \in Message
  BY DEF TypeOK
<1>2. handling.caller \in Callers
  BY <1>1 DEF Message
<1>3. call[handling.caller] \in CallState
  BY <1>2 DEF TypeOK
<1>4. [call[handling.caller] EXCEPT !.pc = result] \in CallState
  BY <1>3, CallMoves, 0 \in Nat
<1>5. call' \in [Callers -> CallState]
  BY <1>3, <1>4 DEF Reply, TypeOK
<1> QED
  BY <1>1, <1>5 DEF Reply

(* A handler that changes the database to well-typed, honest values.       *)
LEMMA HandlerType ==
    ASSUME IInv, handling # None, NEW result \in {"ok", "err"}, Reply(result),
           rows' \in [Procs -> Rows], tagged' \subseteq Procs,
           stale' \in BOOLEAN, dirty' \in BOOLEAN, latch' \in BOOLEAN,
           faults' \in Nat, latch' => dirty', stale' => dirty'
    PROVE  IInv'
<1>1. /\ call' \in [Callers -> CallState]
      /\ handling' = None
      /\ UNCHANGED <<writer, gen, mailbox, known, clients, cancels>>
  BY ReplyType DEF IInv
<1> QED
  BY <1>1 DEF IInv, TypeOK, LatchIsHonest, StaleIsMarked, clients

(* Deleting rows keeps the database well typed and honest.                 *)
LEMMA DeleteRowsType ==
    ASSUME IInv, NEW victims \in SUBSET Procs, DeleteRows(victims)
    PROVE  /\ rows' \in [Procs -> Rows]
           /\ tagged' \subseteq Procs
           /\ stale' \in BOOLEAN /\ dirty' \in BOOLEAN /\ latch' \in BOOLEAN
           /\ latch' => dirty'
           /\ stale' => dirty'
BY DEF IInv, TypeOK, LatchIsHonest, StaleIsMarked, DeleteRows, Rows

(* A handler, or a transaction that fails, keeps the invariant.            *)
LEMMA HandleSteps ==
    ASSUME IInv, Handle \/ TransactionFails
    PROVE  IInv'
<1> USE DEF Handles
<1>0. TypeOK /\ (latch => dirty) /\ (stale => dirty)
  BY DEF IInv, LatchIsHonest, StaleIsMarked
<1>h. handling # None => handling \in Message
  BY <1>0 DEF TypeOK
<1>f. faults \in Nat
  BY <1>0 DEF TypeOK
<1>1. CASE RemoveIncompleteJobs
  <2>1. CASE AtomicJobs
    BY <1>1, <2>1, <1>f, DeleteRowsType, HandlerType DEF RemoveIncompleteJobs, Unfinished
  <2>2. CASE ~AtomicJobs
    <3>1. MarkIncomplete(Unfinished)
      BY <1>1, <2>2 DEF RemoveIncompleteJobs
    <3>2. rows' \in [Procs -> Rows]
      BY <1>0, <3>1 DEF MarkIncomplete, TypeOK, Rows
    <3> QED
      BY <1>1, <1>0, <1>f, <3>1, <3>2, HandlerType
      DEF RemoveIncompleteJobs, MarkIncomplete, TypeOK
  <2> QED
    BY <2>1, <2>2
<1>2. CASE AddDataLog
  <2>1. rows' \in [Procs -> Rows]
    BY <1>2, <1>0 DEF AddDataLog, TypeOK, Rows
  <2> QED
    BY <1>2, <1>0, <1>f, <2>1, HandlerType DEF AddDataLog, TypeOK
<1>3. CASE WriteTagsOutput
  <2>1. handling.target \in Procs
    BY <1>3, <1>h DEF WriteTagsOutput, Message, RowOps
  <2>2. CASE rows[handling.target] # "absent" /\ handling.flag
    BY <1>3, <1>0, <1>f, <2>1, <2>2, HandlerType DEF WriteTagsOutput, TypeOK
  <2>3. CASE ~(rows[handling.target] # "absent" /\ handling.flag)
    <3>1. UNCHANGED <<rows, tagged, stale, dirty, latch, faults>>
      BY <1>3, <2>3 DEF WriteTagsOutput
    <3>2. Reply("ok") \/ Reply("err")
      BY <1>3 DEF WriteTagsOutput
    <3> QED
      BY <1>3, <1>0, <1>f, <3>1, <3>2, HandlerType DEF WriteTagsOutput, TypeOK
  <2> QED
    BY <2>2, <2>3
<1>4. CASE UpdateDataLog
  <2>1. rows' \in [Procs -> Rows]
    BY <1>4, <1>0 DEF UpdateDataLog, TypeOK, Rows
  <2> QED
    BY <1>4, <1>0, <1>f, <2>1, HandlerType DEF UpdateDataLog, TypeOK
<1>5. CASE DeleteJobData
  <2>1. handling.target \in Procs
    BY <1>5, <1>h DEF DeleteJobData, Message, RowOps
  <2> QED
    BY <1>5, <1>f, <2>1, DeleteRowsType, HandlerType DEF DeleteJobData
<1>6. CASE DeleteSetterData
  BY <1>6, <1>0, <1>f, HandlerType DEF DeleteSetterData, LoseTags, TypeOK
<1>7. CASE DeleteItems
  BY <1>7, <1>0, <1>f, HandlerType DEF DeleteItems, LoseTags, TypeOK
<1>8. CASE RecountTagItems
  BY <1>8, <1>0, <1>f, HandlerType DEF RecountTagItems, TypeOK
<1>9. CASE MarkTagsDirty
  BY <1>9, <1>0, <1>f, HandlerType DEF MarkTagsDirty, TypeOK
<1>10. CASE TransactionFails
  BY <1>10, <1>0, <1>f, HandlerType DEF TransactionFails, TypeOK, db
<1> QED
  BY <1>1, <1>2, <1>3, <1>4, <1>5, <1>6, <1>7, <1>8, <1>9, <1>10 DEF Handle

(* The message whose handler starts.                                       *)
LEMMA ReceiveStep ==
    ASSUME IInv, Receive
    PROVE  IInv'
<1>1. Head(mailbox) \in Message /\ Tail(mailbox) \in Seq(Message)
  BY DEF Receive, IInv, TypeOK
<1>2. LatchIsHonest' /\ StaleIsMarked'
  <2>1. stale' = stale /\ dirty' = dirty /\ (latch' => latch)
    BY DEF Receive, db
  <2> QED
    BY <2>1, HonestyKept
<1> QED
  BY <1>1, <1>2 DEF Receive, IInv, TypeOK, db, clients

-----------------------------------------------------------------------------
(* The end of a writer, of the supervisor and of the process.              *)

(* Dropping the mailbox leaves every call well formed.                     *)
LEMMA DropMailboxType ==
    ASSUME TypeOK, DropMailbox
    PROVE  /\ call' \in [Callers -> CallState]
           /\ mailbox' = <<>> /\ mailbox' \in Seq(Message)
           /\ handling' = None
<1>1. \A c \in Callers : call[c] \in CallState
  BY DEF TypeOK
<1>2. \A c \in Callers :
          (IF call[c].pc = "wait" THEN Again(call[c]) ELSE call[c]) \in CallState
  BY <1>1, AgainType
<1> QED
  BY <1>2 DEF DropMailbox

(* Only the process's end touches the latch, and releases it.              *)
LEMMA EndSteps ==
    ASSUME IInv,
           HealthCheck \/ WriterStops \/ WriterPanics \/ WriterGone
               \/ SupervisorPanics \/ Crash
    PROVE  IInv'
<1>1. LatchIsHonest' /\ StaleIsMarked'
  <2>1. stale' = stale /\ dirty' = dirty /\ (latch' => latch)
    BY DEF HealthCheck, WriterStops, WriterPanics, WriterGone, SupervisorPanics, Crash, db
  <2> QED
    BY <2>1, HonestyKept
<1>2. TypeOK'
  <2> USE DEF IInv
  <2>0. faults + 1 \in Nat /\ TRUE \in BOOLEAN /\ FALSE \in BOOLEAN
    BY DEF TypeOK
  <2>1. CASE HealthCheck
    <3>1. known' \in BOOLEAN
      BY <2>0, <2>1 DEF HealthCheck
    <3>2. faults' \in Nat /\ writer' \in {"none", "up", "stopping", "dying"}
      BY <2>0, <2>1 DEF HealthCheck, TypeOK
    <3>3. UNCHANGED <<db, gen, latch, mailbox, handling, call, clients, cancels>>
      BY <2>1 DEF HealthCheck
    <3> QED
      BY <3>1, <3>2, <3>3 DEF TypeOK, db, clients
  <2>2. CASE WriterStops
    BY <2>2, DropMailboxType DEF WriterStops, TypeOK, db, clients
  <2>3. CASE WriterPanics
    BY <2>3, DropMailboxType DEF WriterPanics, TypeOK, db, clients
  <2>4. CASE WriterGone
    BY <2>4 DEF WriterGone, TypeOK, db, clients
  <2>5. CASE SupervisorPanics
    <3>1. known' \in BOOLEAN /\ faults' \in Nat
      BY <2>0, <2>5 DEF SupervisorPanics
    <3>2. UNCHANGED <<db, writer, gen, latch, mailbox, handling, clients, cancels>>
      BY <2>5 DEF SupervisorPanics
    <3>3. PICK lost \in SUBSET Callers :
              call' = [c \in Callers |->
                          IF c \in lost THEN [call[c] EXCEPT !.pc = "err"] ELSE call[c]]
      BY <2>5 DEF SupervisorPanics
    <3>4. \A c \in Callers :
              call[c] \in CallState /\ [call[c] EXCEPT !.pc = "err"] \in CallState
      BY CallMoves, 0 \in Nat DEF TypeOK
    <3>5. call' \in [Callers -> CallState]
      BY <3>3, <3>4
    <3> QED
      BY <3>1, <3>2, <3>5 DEF TypeOK, db, clients
  <2>6. CASE Crash
    <3>1. call' \in [Callers -> CallState]
      BY <2>6, NoCallType DEF Crash
    <3>2. phase' \in [Procs -> Phases]
      BY <2>6 DEF Crash, TypeOK, Phases, Ended
    <3>3. mailbox' \in Seq(Message)
      BY <2>6 DEF Crash
    <3>4. known' \in BOOLEAN /\ latch' \in BOOLEAN /\ faults' \in Nat
      BY <2>0, <2>6 DEF Crash
    <3>5. writer' = "none" /\ handling' = None /\ current' = None
      BY <2>6 DEF Crash
    <3>6. UNCHANGED <<db, gen, tally, cancels>>
      BY <2>6 DEF Crash
    <3> QED
      BY <3>1, <3>2, <3>3, <3>4, <3>5, <3>6 DEF TypeOK, db
  <2> QED
    BY <2>1, <2>2, <2>3, <2>4, <2>5, <2>6
<1> QED
  BY <1>1, <1>2 DEF IInv

-----------------------------------------------------------------------------
(* The clients.                                                            *)

(* A client step touches neither the database nor the actors.              *)
LEMMA ClientType ==
    ASSUME IInv, UNCHANGED <<db, actor, faults>>, cancels' \in Nat,
           call' \in [Callers -> CallState], phase' \in [Procs -> Phases],
           tally' \in [Procs -> [ok : Nat, failed : Nat, input : Nat]],
           current' \in Procs \cup {None}
    PROVE  IInv'
<1>1. LatchIsHonest' /\ StaleIsMarked'
  <2>1. stale' = stale /\ dirty' = dirty /\ (latch' => latch)
    BY DEF db, actor
  <2> QED
    BY <2>1, HonestyKept
<1> QED
  BY <1>1 DEF IInv, TypeOK, db, actor

(* One call, or the two calls of a task, replaced by well-formed ones.     *)
LEMMA CallUpdate ==
    ASSUME TypeOK, NEW p \in Procs, NEW s \in CallState, NEW t \in CallState
    PROVE  /\ [call EXCEPT ![Body(p)] = s] \in [Callers -> CallState]
           /\ [call EXCEPT ![Cleanup(p)] = s] \in [Callers -> CallState]
           /\ [call EXCEPT ![Body(p)] = s, ![Cleanup(p)] = t] \in [Callers -> CallState]
BY CallersOf DEF TypeOK

(* The phase of a task moves on.                                           *)
LEMMA PhaseUpdate ==
    ASSUME TypeOK, NEW p \in Procs, NEW f \in Phases
    PROVE  [phase EXCEPT ![p] = f] \in [Procs -> Phases]
BY DEF TypeOK

(* A job fails, or ends.                                                   *)
LEMMA FailOrFinish ==
    ASSUME IInv, NEW p \in Procs, NEW outcome \in Phases,
           Fail(p) \/ Finish(p, outcome)
    PROVE  /\ call' \in [Callers -> CallState]
           /\ phase' \in [Procs -> Phases]
           /\ current' \in Procs \cup {None}
<1>1. "failing" \in Phases
  BY DEF Phases
<1>2. call' \in [Callers -> CallState]
  <2>1. TypeOK
    BY DEF IInv
  <2>2. CASE Fail(p)
    BY <2>1, <2>2, NoCallType, CleanupCallType, CallUpdate DEF Fail
  <2>3. CASE Finish(p, outcome)
    BY <2>1, <2>3, NoCallType, CallUpdate DEF Finish
  <2> QED
    BY <2>2, <2>3
<1>3. phase' \in [Procs -> Phases]
  BY <1>1, PhaseUpdate DEF Fail, Finish, IInv
<1>4. current' \in Procs \cup {None}
  BY DEF Fail, Finish, IInv, TypeOK
<1> QED
  BY <1>2, <1>3, <1>4

(* Jobs, scan events and marks start well formed.                          *)
LEMMA StartSteps ==
    ASSUME IInv, NEW p \in Procs,
           StartExtraction(p) \/ StartDeletion(p) \/ StartMaintenance(p)
               \/ StartScan(p) \/ ScanMaintains(p) \/ StartMark(p)
    PROVE  IInv'
<1>0. TypeOK /\ cancels \in Nat /\ call \in [Callers -> CallState]
         /\ tally \in [Procs -> [ok : Nat, failed : Nat, input : Nat]]
         /\ current \in Procs \cup {None}
         /\ phase \in [Procs -> Phases]
  BY DEF IInv, TypeOK
<1>1. \A op \in Ops \ RowOps : Calling(op, None, FALSE) \in CallState
  BY CallingType
<1>2. \A q \in Procs : Calling("DeleteJobData", q, FALSE) \in CallState
  BY CallingType DEF Ops
<1>3. {"prepare", "delete", "read", "scan", "mark"} \subseteq Phases
  BY DEF Phases, Extracting
<1>4. {"DeleteSetterData", "DeleteItems", "RecountTagItems", "MarkTagsDirty"}
          \subseteq Ops \ RowOps
  BY DEF Ops, RowOps
<1>5. \A q \in Procs, f \in Phases :
          StartJob(q, f) =>
              /\ phase' \in [Procs -> Phases]
              /\ current' \in Procs \cup {None}
              /\ UNCHANGED <<db, actor, tally, cancels, faults>>
  BY <1>0, PhaseUpdate DEF StartJob
<1>6. call' \in [Callers -> CallState]
  <2>1. call' = call \/ \E s \in CallState : call' = [call EXCEPT ![Body(p)] = s]
    BY <1>0, <1>1, <1>2, <1>4
    DEF StartExtraction, StartDeletion, StartMaintenance, StartScan, ScanMaintains, StartMark
  <2> QED
    BY <1>0, <2>1, CallUpdate
<1>7. phase' \in [Procs -> Phases] /\ current' \in Procs \cup {None}
  <2>1. CASE StartExtraction(p) \/ StartDeletion(p) \/ StartMaintenance(p)
    BY <2>1, <1>3, <1>5 DEF StartExtraction, StartDeletion, StartMaintenance
  <2>2. CASE StartScan(p) \/ StartMark(p)
    <3>1. current' = current
      BY <2>2 DEF StartScan, StartMark
    <3>2. \E f \in Phases : phase' = [phase EXCEPT ![p] = f]
      BY <2>2, <1>3 DEF StartScan, StartMark
    <3> QED
      BY <3>1, <3>2, <1>0, PhaseUpdate
  <2>3. CASE ScanMaintains(p)
    BY <2>3, <1>0 DEF ScanMaintains, clients
  <2> QED
    BY <2>1, <2>2, <2>3
<1>8. UNCHANGED <<db, actor, tally, cancels, faults>>
  BY <1>3, <1>5
  DEF StartExtraction, StartDeletion, StartMaintenance, StartScan, ScanMaintains, StartMark, clients
<1> QED
  BY <1>0, <1>6, <1>7, <1>8, ClientType

(* The steps of an extraction and of the other jobs, and cancellation.     *)
LEMMA JobSteps ==
    ASSUME IInv, NEW p \in Procs,
           ItemFails(p) \/ WriteItem(p) \/ ExtractionErrs(p) \/ JobStep(p) \/ Cancel(p)
    PROVE  IInv'
<1>0. TypeOK
  BY DEF IInv
<1>1. /\ cancels \in Nat /\ call \in [Callers -> CallState]
      /\ phase \in [Procs -> Phases]
      /\ tally \in [Procs -> [ok : Nat, failed : Nat, input : Nat]]
      /\ current \in Procs \cup {None}
  BY <1>0 DEF TypeOK
<1>2. /\ Calling("AddDataLog", p, FALSE) \in CallState
      /\ \A b \in BOOLEAN : /\ Calling("WriteTagsOutput", p, b) \in CallState
                            /\ Calling("UpdateDataLog", p, b) \in CallState
      /\ Calling("RecountTagItems", None, FALSE) \in CallState
  BY CallingType DEF Ops, RowOps
<1>3. Extracting \cup Ended \cup {"recount", "skip"} \subseteq Phases
  BY DEF Phases
<1>4. {"done", "failed", "cancelled", "dropped"} \subseteq Phases
         /\ {"clean", "log", "work", "finish"} \subseteq Phases
  BY DEF Phases, Extracting, Ended
<1> USE <1>0, <1>1
<1>5. CASE ItemFails(p)
  <2>1. tally' \in [Procs -> [ok : Nat, failed : Nat, input : Nat]]
    BY <1>5 DEF ItemFails
  <2> QED
    BY <1>5, <2>1, ClientType DEF ItemFails
<1>6. CASE WriteItem(p)
  <2>1. call' \in [Callers -> CallState]
    BY <1>6, <1>2, CallUpdate DEF WriteItem
  <2> QED
    BY <1>6, <2>1, ClientType DEF WriteItem, clients
<1>7. CASE ExtractionErrs(p)
  BY <1>7, <1>4, FailOrFinish, ClientType DEF ExtractionErrs
<1>19. CASE Prepared(p)
  BY <1>19, <1>4, CleanupCallType, CallUpdate, PhaseUpdate, ClientType DEF Prepared
<1>8. CASE Cleaned(p)
  <2>1. call' \in [Callers -> CallState]
    BY <1>8, <1>2, NoCallType, CallUpdate DEF Cleaned
  <2>2. phase' \in [Procs -> Phases] /\ current' \in Procs \cup {None}
    BY <1>8, <1>4, PhaseUpdate DEF Cleaned
  <2> QED
    BY <1>8, <2>1, <2>2, ClientType DEF Cleaned
<1>9. CASE Logged(p)
  BY <1>9, <1>4, NoCallType, CallUpdate, PhaseUpdate, ClientType DEF Logged
<1>10. CASE ItemWritten(p)
  <2>1. tally' \in [Procs -> [ok : Nat, failed : Nat, input : Nat]]
    BY <1>10 DEF ItemWritten
  <2>2. call' \in [Callers -> CallState]
    BY <1>10, NoCallType, CallUpdate DEF ItemWritten
  <2> QED
    BY <1>10, <2>1, <2>2, ClientType DEF ItemWritten
<1>11. CASE FinishExtraction(p)
  <2>1. Calling("UpdateDataLog", p, ~Systemic(tally[p])) \in CallState
    BY <1>2 DEF Systemic
  <2> QED
    BY <1>11, <2>1, <1>4, CallUpdate, PhaseUpdate, ClientType DEF FinishExtraction
<1>12. CASE Finished(p)
  BY <1>12, <1>4, FailOrFinish, ClientType DEF Finished
<1>13. CASE CleanedUp(p)
  <2>1. CASE Finish(p, "failed")
    BY <1>13, <2>1, <1>4, FailOrFinish, ClientType DEF CleanedUp
  <2>2. CASE ~Finish(p, "failed")
    <3>1. call' \in [Callers -> CallState]
      BY <1>13, <2>2, NoCallType, CallUpdate DEF CleanedUp
    <3> QED
      BY <1>13, <2>2, <3>1, ClientType DEF CleanedUp
  <2> QED
    BY <2>1, <2>2
<1>14. CASE Deleted(p)
  BY <1>14, <1>4, FailOrFinish, ClientType DEF Deleted
<1>15. CASE DecideRecount(p)
  <2>1. call' \in [Callers -> CallState]
    BY <1>15, <1>2, CallUpdate DEF DecideRecount
  <2>2. phase' \in [Procs -> Phases]
    BY <1>15, <1>3, PhaseUpdate DEF DecideRecount
  <2> QED
    BY <1>15, <2>1, <2>2, ClientType DEF DecideRecount
<1>16. CASE Maintained(p)
  BY <1>16, <1>4, FailOrFinish, ClientType DEF Maintained
<1>17. CASE TaskEnds(p)
  BY <1>17, <1>4, NoCallType, CallUpdate, PhaseUpdate, ClientType DEF TaskEnds
<1>18. CASE Cancel(p)
  <2>1. call' \in [Callers -> CallState]
    BY <1>18, NoCallType, CleanupCallType, CallUpdate DEF Cancel
  <2>2. phase' \in [Procs -> Phases]
    BY <1>18, <1>4, PhaseUpdate DEF Cancel
  <2>3. cancels' \in Nat
    BY <1>18 DEF Cancel
  <2> QED
    BY <1>18, <2>1, <2>2, <2>3, ClientType DEF Cancel
<1> QED
  BY <1>5, <1>6, <1>7, <1>8, <1>9, <1>10, <1>11, <1>12, <1>13, <1>14, <1>15, <1>16,
     <1>17, <1>18, <1>19 DEF JobStep

-----------------------------------------------------------------------------

(* The invariant is inductive.                                             *)
LEMMA StepIInv == IInv /\ [Next]_vars => IInv'
<1> SUFFICES ASSUME IInv, [Next]_vars PROVE IInv'
  OBVIOUS
<1>1. CASE \E c \in Callers : GetWriter(c) \/ SendMessage(c)
  BY <1>1, CallSteps
<1>2. CASE Receive
  BY <1>2, ReceiveStep
<1>3. CASE Handle \/ TransactionFails
  BY <1>3, HandleSteps
<1>4. CASE HealthCheck \/ WriterStops \/ WriterPanics \/ WriterGone
              \/ SupervisorPanics \/ Crash
  BY <1>4, EndSteps
<1>5. ASSUME NEW p \in Procs,
             StartExtraction(p) \/ StartDeletion(p) \/ StartMaintenance(p)
                 \/ StartScan(p) \/ ScanMaintains(p) \/ StartMark(p)
      PROVE  IInv'
  BY <1>5, StartSteps
<1>6. ASSUME NEW p \in Procs,
             ItemFails(p) \/ WriteItem(p) \/ ExtractionErrs(p) \/ JobStep(p) \/ Cancel(p)
      PROVE  IInv'
  BY <1>6, JobSteps
<1>7. CASE UNCHANGED vars
  BY <1>7 DEF IInv, TypeOK, LatchIsHonest, StaleIsMarked, vars, db, actor, clients
<1> QED
  BY <1>1, <1>2, <1>3, <1>4, <1>5, <1>6, <1>7 DEF Next

(* Every reachable state satisfies the inductive invariant.                *)
LEMMA Invariance == Spec => []IInv
<1> QED
  BY InitIInv, StepIInv, PTL DEF Spec

(* The state of the writer, the supervisor, the calls and the clients is   *)
(* always well typed; among others a call makes at most two attempts and a *)
(* write names the row of an extraction.                                   *)
THEOREM TypeCorrect == Spec => []TypeOK
<1>1. IInv => TypeOK
  BY DEF IInv
<1> QED
  BY <1>1, Invariance, PTL

(* Stale tag counts are always marked, durably, for any number of clients, *)
(* cancellations, failed transactions, writer deaths and crashes.          *)
THEOREM StaleAlwaysMarked == Spec => []StaleIsMarked
<1>1. IInv => StaleIsMarked
  BY DEF IInv
<1> QED
  BY <1>1, Invariance, PTL

(* The latch never vouches for a marker that has been cleared.             *)
THEOREM LatchAlwaysHonest == Spec => []LatchIsHonest
<1>1. IInv => LatchIsHonest
  BY DEF IInv
<1> QED
  BY <1>1, Invariance, PTL

(* Both together, for any number of clients, failures and incarnations of  *)
(* the writer.                                                             *)
THEOREM MarkerAlwaysHolds == Spec => []MarkerHolds
<1>1. StaleIsMarked /\ LatchIsHonest => MarkerHolds
  BY DEF MarkerHolds
<1> QED
  BY <1>1, StaleAlwaysMarked, LatchAlwaysHonest, PTL

-----------------------------------------------------------------------------
(* Refinement.                                                             *)

(* A handler's effect on the counts and the marker is a step of the        *)
(* abstract debt, or none.                                                 *)
LEMMA HandleRefines ==
    ASSUME IInv, Handle
    PROVE  [Debt!Next]_<<stale, dirty>>
<1>0. /\ stale \in BOOLEAN /\ dirty \in BOOLEAN /\ latch \in BOOLEAN
      /\ (latch => dirty) /\ (stale => dirty)
  BY DEF IInv, TypeOK, LatchIsHonest, StaleIsMarked
<1> USE DEF Debt!Next, Debt!Change, Debt!Mark, Debt!Recount
<1>1. \A victims : DeleteRows(victims) => [Debt!Next]_<<stale, dirty>>
  BY <1>0 DEF DeleteRows
<1>2. CASE RemoveIncompleteJobs
  BY <1>1, <1>2 DEF RemoveIncompleteJobs, MarkIncomplete
<1>3. CASE AddDataLog
  BY <1>3 DEF AddDataLog
<1>4. CASE WriteTagsOutput
  BY <1>0, <1>4 DEF WriteTagsOutput
<1>5. CASE UpdateDataLog
  BY <1>5 DEF UpdateDataLog
<1>6. CASE DeleteJobData
  BY <1>1, <1>6 DEF DeleteJobData
<1>7. CASE DeleteSetterData
  BY <1>0, <1>7 DEF DeleteSetterData, LoseTags
<1>8. CASE DeleteItems
  BY <1>0, <1>8 DEF DeleteItems, LoseTags
<1>9. CASE RecountTagItems
  BY <1>9 DEF RecountTagItems
<1>10. CASE MarkTagsDirty
  BY <1>10 DEF MarkTagsDirty
<1> QED
  BY <1>2, <1>3, <1>4, <1>5, <1>6, <1>7, <1>8, <1>9, <1>10 DEF Handle

(* No step but a handler's touches the database.                           *)
LEMMA OthersStutter ==
    ASSUME [Next]_vars, ~Handle
    PROVE  UNCHANGED <<stale, dirty>>
<1>1. CASE \E c \in Callers : GetWriter(c) \/ SendMessage(c)
  BY <1>1 DEF GetWriter, SendMessage, db
<1>2. CASE Receive \/ TransactionFails
  BY <1>2 DEF Receive, TransactionFails, db
<1>3. CASE HealthCheck \/ WriterStops \/ WriterPanics \/ WriterGone
              \/ SupervisorPanics \/ Crash
  BY <1>3
  DEF HealthCheck, WriterStops, WriterPanics, WriterGone, SupervisorPanics, Crash, db
<1>4. ASSUME NEW p \in Procs,
             StartExtraction(p) \/ StartDeletion(p) \/ StartMaintenance(p)
                 \/ StartScan(p) \/ ScanMaintains(p) \/ StartMark(p)
      PROVE  UNCHANGED <<stale, dirty>>
  BY <1>4
  DEF StartExtraction, StartDeletion, StartMaintenance, StartScan, ScanMaintains, StartMark,
      StartJob, db
<1>5. ASSUME NEW p \in Procs,
             ItemFails(p) \/ WriteItem(p) \/ ExtractionErrs(p) \/ JobStep(p) \/ Cancel(p)
      PROVE  UNCHANGED <<stale, dirty>>
  BY <1>5
  DEF ItemFails, WriteItem, ExtractionErrs, JobStep, Cancel, Prepared, Cleaned, Logged, ItemWritten,
      FinishExtraction, Finished, CleanedUp, Deleted, DecideRecount, Maintained, TaskEnds, db
<1>6. CASE UNCHANGED vars
  BY <1>6 DEF vars, db
<1> QED
  BY <1>1, <1>2, <1>3, <1>4, <1>5, <1>6 DEF Next

(* The writer with its latch, its respawns and everything around it        *)
(* implements the abstract debt: whatever changes tags_items sets the      *)
(* marker in the same step, and only a recount clears it.                  *)
THEOREM ImplementsDebt == Spec => DebtSpec
<1>1. Init => Debt!Init
  BY DEF Init, Debt!Init
<1>2. IInv /\ [Next]_vars => [Debt!Next]_Debt!vars
  BY HandleRefines, OthersStutter DEF Debt!vars
<1> QED
  BY <1>1, <1>2, Invariance, PTL DEF Spec, DebtSpec, Debt!Spec

-----------------------------------------------------------------------------
(* Messages and rows.                                                      *)

(* The messages the writer has not answered.                               *)
Post == {mailbox[i] : i \in 1..Len(mailbox)}
            \cup (IF handling = None THEN {} ELSE {handling})
InBox(c) == \E m \in Post : m.caller = c

Over == {"failing"} \cup Ended
Pending(c) == call[c].pc \in {"get", "send", "wait"}

(* Each caller has one message at most, and who waits has one.  A caller   *)
(* that gave up on its message never calls again.                          *)
Mail ==
    /\ \A i, j \in 1..Len(mailbox) : mailbox[i].caller = mailbox[j].caller => i = j
    /\ handling # None => \A i \in 1..Len(mailbox) : mailbox[i].caller # handling.caller
    /\ \A c \in Callers : call[c].pc = "wait" => InBox(c)
    /\ \A m \in Post : call[m.caller].pc = "wait" =>
           /\ call[m.caller].op = m.op
           /\ call[m.caller].target = m.target
           /\ call[m.caller].flag = m.flag
    /\ \A p \in Procs :
           /\ InBox(Body(p)) => \/ call[Body(p)].pc = "wait"
                                \/ call[Body(p)].pc = "idle" /\ phase[p] \in Over
           /\ InBox(Cleanup(p)) => \/ call[Cleanup(p)].pc = "wait"
                                   \/ call[Cleanup(p)].pc = "idle" /\ phase[p] \in Ended
    /\ writer \in {"none", "dying"} => mailbox = <<>> /\ handling = None

(* What a task may be asking for where it is.                              *)
Asks(p, s) ==
    \/ phase[p] = "clean" /\ s.op = "RemoveIncompleteJobs"
    \/ phase[p] = "log" /\ s.op = "AddDataLog" /\ s.target = p
    \/ phase[p] = "work" /\ s.op = "WriteTagsOutput" /\ s.target = p
    \/ phase[p] = "finish" /\ s.op = "UpdateDataLog" /\ s.target = p
           /\ s.flag = ~Systemic(tally[p])
    \/ phase[p] = "recount" /\ s.op = "RecountTagItems"
    \/ phase[p] = "delete" /\ s.op \in {"DeleteJobData", "DeleteSetterData", "DeleteItems"}
    \/ phase[p] = "scan" /\ s.op \in {"DeleteItems", "RecountTagItems"}
    \/ phase[p] = "mark" /\ s.op = "MarkTagsDirty"

Desk ==
    \A p \in Procs :
        /\ call[Body(p)].pc # "idle" => Asks(p, call[Body(p)])
        /\ call[Cleanup(p)].pc # "idle" =>
               phase[p] \in {"failing", "cancelled"} /\ call[Cleanup(p)].op = "RemoveIncompleteJobs"

JobPhases == Extracting \cup {"failing", "read", "skip", "recount", "delete"}

Turns ==
    /\ \A p \in Procs : phase[p] \in JobPhases <=> current = p
    /\ cancels = 0 => \A p \in Procs : phase[p] \notin {"cancelled", "dropped"}
    /\ \A p, q \in Procs : phase[p] \in JobPhases \ {"failing"} => phase[q] # "scan"

Letters ==
    /\ \A m \in Post, p \in Procs :
           /\ m.caller = Cleanup(p) => m.op = "RemoveIncompleteJobs"
           /\ m.caller = Body(p) /\ m.op \in {"AddDataLog", "WriteTagsOutput", "UpdateDataLog"}
                  => m.target = p
           /\ cancels = 0 /\ m.caller = Cleanup(p) => call[m.caller].pc = "wait"
           /\ cancels = 0 /\ m.caller = Body(p) =>
                  call[m.caller].pc = "wait" \/ m.op = "WriteTagsOutput"
    /\ \A p \in Procs :
        /\ \A i, j \in 1..Len(mailbox) :
              mailbox[i].caller = Cleanup(p) /\ mailbox[j].caller = Body(p) => j < i
        /\ handling # None /\ handling.caller = Cleanup(p) =>
              \A j \in 1..Len(mailbox) : mailbox[j].caller # Body(p)

(* Without failures. *)
Healthy ==
    faults = 0 =>
      /\ writer \in {"none", "up"}
      /\ known <=> writer = "up"
      /\ \A c \in Callers : /\ call[c].pc = "send" => Reachable(c)
                            /\ call[c].pc = "err" => call[c].op = "WriteTagsOutput"

Abandoned ==
    faults = 0 =>
      \A m \in Post, p \in Procs :
        m.caller = Body(p) /\ m.op \in {"AddDataLog", "WriteTagsOutput"} =>
            phase[p] \in Extracting \cup {"dropped"} \/ Pending(Cleanup(p))

RowsHeld ==
    /\ cancels = 0 => \A p \in Procs :
          phase[p] = "work" \/ (phase[p] = "log" /\ call[Body(p)].pc = "ok") =>
              rows[p] = "unfinished"
    /\ faults = 0 => \A p \in Procs :
          /\ rows[p] = "unfinished" =>
                 phase[p] \in {"log", "work", "finish", "dropped"} \/ Pending(Cleanup(p))
          /\ phase[p] = "finish" /\ Replied(Body(p)) /\ ~Systemic(tally[p]) =>
                 rows[p] # "unfinished"

(* The strengthened invariant: a skip is safe only because no message in   *)
(* flight changes tags (Letters, Abandoned), which takes the places of the *)
(* tasks (Desk, Turns) and of their messages (Mail).                       *)
JInv == /\ IInv /\ Mail /\ Desk /\ Turns /\ Letters /\ Healthy /\ Abandoned /\ RowsHeld
        /\ CalmSkipIsSafe

(* A caller is the body or the cleanup of one task.                        *)
LEMMA CallerKinds ==
    /\ \A c \in Callers : \E p \in Procs : c = Body(p) \/ c = Cleanup(p)
    /\ \A p, q \in Procs : /\ Body(p) # Cleanup(q)
                           /\ Body(p) = Body(q) => p = q
                           /\ Cleanup(p) = Cleanup(q) => p = q
BY DEF Callers, Body, Cleanup

(* Every message the writer has not answered is one, of a caller.          *)
LEMMA PostTyped ==
    ASSUME TypeOK
    PROVE  /\ \A i \in 1..Len(mailbox) : mailbox[i] \in Message
           /\ \A m \in Post : m \in Message /\ m.caller \in Callers
           /\ handling # None => handling \in Message /\ handling.caller \in Callers
<1>1. mailbox \in Seq(Message) /\ handling \in Message \cup {None}
  BY DEF TypeOK
<1>2. \A i \in 1..Len(mailbox) : mailbox[i] \in Message
  BY <1>1, ElementOfSeq
<1>3. \A m \in Message : m.caller \in Callers
  BY DEF Message
<1>4. \A m \in Post : m \in Message
  BY <1>1, <1>2 DEF Post
<1> QED
  BY <1>1, <1>2, <1>3, <1>4

-----------------------------------------------------------------------------
(* The clients, by what a step of task p may do.                           *)

Stays(p) == phase[p] \in {"log", "work", "finish", "dropped"} \/ Pending(Cleanup(p))
Covered(p) == phase[p] \in Extracting \cup {"dropped"} \/ Pending(Cleanup(p))
AtWork(p) == phase[p] = "work" \/ (phase[p] = "log" /\ call[Body(p)].pc = "ok")
Busy == JobPhases \ {"failing"}

Others(p) ==
    /\ UNCHANGED <<db, actor, faults>>
    /\ \A c \in Callers : c # Body(p) /\ c # Cleanup(p) => call'[c] = call[c]
    /\ \A q \in Procs : q # p => phase'[q] = phase[q] /\ tally'[q] = tally[q]

Calls(p) ==
    /\ \/ call'[Body(p)] = call[Body(p)]
       \/ call'[Body(p)].pc = "get" /\ call[Body(p)].pc # "wait" /\ phase[p] \notin Over
       \/ /\ call'[Body(p)].pc = "idle"
          /\ call[Body(p)].pc = "wait" =>
                 phase'[p] \in Over /\ (cancels' # 0 \/ phase[p] = "work")
    /\ \/ call'[Cleanup(p)] = call[Cleanup(p)]
       \/ call'[Cleanup(p)].pc = "get" /\ phase[p] \in Extracting
       \/ /\ call'[Cleanup(p)].pc = "idle"
          /\ call[Cleanup(p)].pc = "wait" => phase'[p] \in Ended /\ cancels' # 0
    /\ phase[p] \in Over => phase'[p] \in Over
    /\ phase[p] \in Ended => phase'[p] \in Ended
    /\ call'[Body(p)].pc # "idle" => Asks(p, call[Body(p)])'
    /\ call'[Cleanup(p)].pc # "idle" =>
           phase'[p] \in {"failing", "cancelled"}
           /\ call'[Cleanup(p)].op = "RemoveIncompleteJobs"

Place(p) ==
    /\ phase'[p] \in JobPhases <=> current' = p
    /\ \/ current' = current
       \/ current = None /\ current' = p
       \/ current = p /\ current' = None
    /\ cancels' = 0 => cancels = 0 /\ phase'[p] \notin {"cancelled", "dropped"}
    /\ phase'[p] \in Busy => phase[p] \in Busy \/ \A q \in Procs : phase[q] # "scan"
    /\ phase'[p] = "scan" => phase[p] = "scan" \/ \A q \in Procs : phase[q] \notin Busy

Rest(p) ==
    /\ Covered(p) => Covered(p)' \/ (phase[p] \notin Over /\ call[Body(p)].pc # "wait")
    /\ cancels' = 0 /\ AtWork(p)' => AtWork(p)
    /\ Stays(p) => Stays(p)' \/ (phase[p] = "finish" /\ Replied(Body(p)) /\ ~Systemic(tally[p]))
    /\ phase'[p] = "finish" /\ Replied(Body(p))' /\ ~Systemic(tally'[p])
           => phase[p] = "finish" /\ Replied(Body(p)) /\ ~Systemic(tally[p])
    /\ phase'[p] = "skip" => phase[p] = "skip" \/ ~dirty

ClientStep(p) == Others(p) /\ Calls(p) /\ Place(p) /\ Rest(p)

(* A step of one task, in its place, keeps the strengthened invariant.     *)
LEMMA ClientKeeps ==
    ASSUME JInv, TypeOK', IInv', NEW p \in Procs, ClientStep(p)
    PROVE  JInv'
<1> USE DEF JInv
<1>0. /\ mailbox' = mailbox /\ handling' = handling /\ writer' = writer /\ gen' = gen
      /\ known' = known /\ rows' = rows /\ stale' = stale /\ faults' = faults
      /\ Post' = Post
  BY DEF ClientStep, Others, actor, db, Post
<1>1. /\ \A c \in Callers : c # Body(p) /\ c # Cleanup(p) => call'[c] = call[c]
      /\ \A q \in Procs : q # p => /\ phase'[q] = phase[q] /\ tally'[q] = tally[q]
                                   /\ call'[Body(q)] = call[Body(q)]
                                   /\ call'[Cleanup(q)] = call[Cleanup(q)]
  BY CallerKinds, CallersOf DEF ClientStep, Others
<1>2. /\ Body(p) \in Callers /\ Cleanup(p) \in Callers /\ Body(p) # Cleanup(p)
      /\ \A m \in Post : m.caller \in Callers
  BY CallerKinds, CallersOf, PostTyped DEF IInv
<1>3. Mail'
  <2>1. \A c \in Callers : call'[c].pc = "wait" => call[c].pc = "wait" /\ call'[c] = call[c]
    BY <1>1 DEF ClientStep, Calls
  <2>2. \A c \in Callers : call'[c].pc = "wait" => InBox(c)
    BY <2>1 DEF Mail
  <2>3. \A m \in Post : call'[m.caller].pc = "wait" =>
            /\ call'[m.caller].op = m.op /\ call'[m.caller].target = m.target
            /\ call'[m.caller].flag = m.flag
    BY <1>2, <2>1 DEF Mail
  <2>4. ASSUME NEW q \in Procs
        PROVE  /\ InBox(Body(q)) => \/ call'[Body(q)].pc = "wait"
                                    \/ call'[Body(q)].pc = "idle" /\ phase'[q] \in Over
               /\ InBox(Cleanup(q)) => \/ call'[Cleanup(q)].pc = "wait"
                                       \/ call'[Cleanup(q)].pc = "idle" /\ phase'[q] \in Ended
    <3>1. CASE q # p
      BY <1>1, <3>1 DEF Mail
    <3>2. CASE q = p
      <4>1. ASSUME InBox(Body(p))
            PROVE  \/ call'[Body(p)].pc = "wait"
                   \/ call'[Body(p)].pc = "idle" /\ phase'[p] \in Over
        BY <4>1 DEF Mail, ClientStep, Calls
      <4>2. ASSUME InBox(Cleanup(p))
            PROVE  \/ call'[Cleanup(p)].pc = "wait"
                   \/ call'[Cleanup(p)].pc = "idle" /\ phase'[p] \in Ended
        <5>1. phase[p] \in Ended => phase[p] \notin Extracting
          BY DEF Ended, Extracting
        <5>2. call[Cleanup(p)].pc = "wait" => phase[p] \notin Extracting
          BY DEF Desk, Extracting
        <5> QED
          BY <4>2, <5>1, <5>2 DEF Mail, ClientStep, Calls
      <4> QED
        BY <3>2, <4>1, <4>2
    <3> QED
      BY <3>1, <3>2
  <2>5. \A c : InBox(c)' <=> InBox(c)
    BY <1>0 DEF InBox
  <2> QED
    BY <1>0, <2>2, <2>3, <2>4, <2>5 DEF Mail
<1>4. Desk'
  <2>1. ASSUME NEW q \in Procs, q # p PROVE Asks(q, call[Body(q)])' <=> Asks(q, call[Body(q)])
    BY <1>1, <2>1 DEF Asks
  <2>2. ASSUME NEW q \in Procs
        PROVE  /\ call'[Body(q)].pc # "idle" => Asks(q, call[Body(q)])'
               /\ call'[Cleanup(q)].pc # "idle" =>
                      phase'[q] \in {"failing", "cancelled"}
                      /\ call'[Cleanup(q)].op = "RemoveIncompleteJobs"
    <3>1. CASE q # p
      BY <1>1, <2>1, <3>1 DEF Desk
    <3>2. CASE q = p
      BY <3>2 DEF ClientStep, Calls
    <3> QED
      BY <3>1, <3>2
  <2> QED
    BY <2>2 DEF Desk
<1>5. Turns'
  <2>1. ASSUME NEW q \in Procs PROVE phase'[q] \in JobPhases <=> current' = q
    <3>1. CASE q # p
      <4>1. q # None
        BY NoneAssumption
      <4> QED
        BY <1>1, <3>1, <4>1 DEF ClientStep, Place, Turns
    <3>2. CASE q = p
      BY <3>2 DEF ClientStep, Place
    <3> QED
      BY <3>1, <3>2
  <2>2. cancels' = 0 => \A q \in Procs : phase'[q] \notin {"cancelled", "dropped"}
    BY <1>1 DEF ClientStep, Place, Turns
  <2>3. ASSUME NEW q \in Procs, NEW r \in Procs, phase'[q] \in Busy
        PROVE  phase'[r] # "scan"
    <3>1. phase'[q] # "scan"
      BY <2>3 DEF Busy, JobPhases, Extracting
    <3> QED
      BY <1>1, <2>3, <3>1 DEF ClientStep, Place, Turns, Busy
  <2> QED
    BY <2>1, <2>2, <2>3 DEF Turns, Busy
<1>6. Letters'
  <2>1. ASSUME NEW m \in Post, NEW q \in Procs, cancels' = 0
        PROVE  /\ m.caller = Cleanup(q) => call'[m.caller].pc = "wait"
               /\ m.caller = Body(q) => call'[m.caller].pc = "wait" \/ m.op = "WriteTagsOutput"
    <3>0. cancels = 0
      BY <2>1 DEF ClientStep, Place
    <3>1. CASE q # p
      BY <1>1, <3>0, <3>1 DEF Letters
    <3>2. CASE q = p
      <4>1. ASSUME m.caller = Cleanup(p) PROVE call'[m.caller].pc = "wait"
        <5>1. call[Cleanup(p)].pc = "wait"
          BY <3>0, <4>1 DEF Letters
        <5>2. phase[p] \notin Extracting
          BY <5>1 DEF Desk, Extracting
        <5> QED
          BY <2>1, <4>1, <5>1, <5>2 DEF ClientStep, Calls
      <4>2. ASSUME m.caller = Body(p)
            PROVE  call'[m.caller].pc = "wait" \/ m.op = "WriteTagsOutput"
        <5>1. CASE call[Body(p)].pc = "wait" /\ call'[Body(p)].pc # "wait"
          <6>1. phase[p] = "work"
            BY <2>1, <5>1 DEF ClientStep, Calls
          <6>2. call[Body(p)].op = "WriteTagsOutput"
            BY <5>1, <6>1 DEF Desk, Asks
          <6> QED
            BY <4>2, <5>1, <6>2 DEF Mail
        <5>2. CASE call[Body(p)].pc # "wait"
          BY <3>0, <4>2, <5>2 DEF Letters
        <5> QED
          BY <4>2, <5>1, <5>2
      <4> QED
        BY <3>2, <4>1, <4>2
    <3> QED
      BY <3>1, <3>2
  <2>2. \A m \in Post, q \in Procs :
            /\ m.caller = Cleanup(q) => m.op = "RemoveIncompleteJobs"
            /\ m.caller = Body(q) /\ m.op \in {"AddDataLog", "WriteTagsOutput", "UpdateDataLog"}
                   => m.target = q
    BY DEF Letters
  <2>3. \A q \in Procs :
            /\ \A i, j \in 1..Len(mailbox) :
                  mailbox[i].caller = Cleanup(q) /\ mailbox[j].caller = Body(q) => j < i
            /\ handling # None /\ handling.caller = Cleanup(q) =>
                  \A j \in 1..Len(mailbox) : mailbox[j].caller # Body(q)
    BY DEF Letters
  <2> QED
    BY <1>0, <2>1, <2>2, <2>3 DEF Letters
<1>7. Healthy'
  <2>1. ASSUME faults = 0, NEW c \in Callers
        PROVE  /\ call'[c].pc = "send" => call'[c] = call[c]
               /\ call'[c].pc = "err" => call'[c] = call[c]
    BY <1>1 DEF ClientStep, Calls
  <2>2. \A c \in Callers : call'[c] = call[c] => (Reachable(c)' <=> Reachable(c))
    BY <1>0 DEF Reachable
  <2> QED
    BY <1>0, <2>1, <2>2 DEF Healthy
<1>8. Abandoned'
  <2>1. ASSUME faults = 0, NEW m \in Post, NEW q \in Procs,
               m.caller = Body(q), m.op \in {"AddDataLog", "WriteTagsOutput"}
        PROVE  Covered(q)'
    <3>1. Covered(q)
      BY <2>1 DEF Abandoned, Covered
    <3>2. CASE q # p
      BY <1>1, <3>1, <3>2 DEF Covered, Pending
    <3>3. CASE q = p
      <4>1. phase[p] \in Over \/ call[Body(p)].pc = "wait"
        BY <2>1, <3>3 DEF Mail, InBox
      <4> QED
        BY <3>1, <3>3, <4>1 DEF ClientStep, Rest
    <3> QED
      BY <3>2, <3>3
  <2> QED
    BY <1>0, <2>1 DEF Abandoned, Covered
<1>9. RowsHeld'
  <2>1. ASSUME cancels' = 0, NEW q \in Procs, AtWork(q)' PROVE rows[q] = "unfinished"
    <3>1. AtWork(q) /\ cancels = 0
      BY <1>1, <2>1 DEF ClientStep, Rest, Place, AtWork
    <3> QED
      BY <3>1 DEF RowsHeld, AtWork
  <2>2. ASSUME faults = 0, NEW q \in Procs, rows[q] = "unfinished" PROVE Stays(q)'
    <3>1. Stays(q)
      BY <2>2 DEF RowsHeld, Stays
    <3>2. ~(phase[q] = "finish" /\ Replied(Body(q)) /\ ~Systemic(tally[q]))
      BY <2>2 DEF RowsHeld
    <3>3. CASE q # p
      BY <1>1, <3>1, <3>3 DEF Stays, Pending
    <3>4. CASE q = p
      BY <3>1, <3>2, <3>4 DEF ClientStep, Rest
    <3> QED
      BY <3>3, <3>4
  <2>3. ASSUME faults = 0, NEW q \in Procs,
               phase'[q] = "finish", Replied(Body(q))', ~Systemic(tally'[q])
        PROVE  rows[q] # "unfinished"
    <3>1. phase[q] = "finish" /\ Replied(Body(q)) /\ ~Systemic(tally[q])
      BY <1>1, <2>3 DEF ClientStep, Rest, Replied
    <3> QED
      BY <2>3, <3>1 DEF RowsHeld
  <2> QED
    BY <1>0, <2>1, <2>2, <2>3 DEF RowsHeld, AtWork, Stays
<1>10. CalmSkipIsSafe'
  <2>1. ASSUME cancels' = 0, faults = 0, NEW q \in Procs, current' = q, phase'[q] = "skip"
        PROVE  ~stale
    <3>1. CASE q = p /\ phase[p] # "skip"
      BY <2>1, <3>1 DEF ClientStep, Rest, IInv, StaleIsMarked
    <3>2. CASE q # p \/ phase[p] = "skip"
      <4>1. phase[q] = "skip" /\ cancels = 0
        BY <1>1, <2>1, <3>2 DEF ClientStep, Place
      <4>2. current = q
        BY <4>1 DEF Turns, JobPhases
      <4> QED
        BY <2>1, <4>1, <4>2 DEF CalmSkipIsSafe, SkipIsSafe
    <3> QED
      BY <3>1, <3>2
  <2> QED
    BY <1>0, <2>1 DEF CalmSkipIsSafe, SkipIsSafe
<1> QED
  BY <1>3, <1>4, <1>5, <1>6, <1>7, <1>8, <1>9, <1>10

(* What replaces the calls of one task leaves those of the others alone.   *)
LEMMA CallsSet ==
    ASSUME TypeOK, NEW p \in Procs, NEW s
    PROVE  /\ call' = [call EXCEPT ![Body(p)] = s] =>
                  /\ call'[Body(p)] = s /\ call'[Cleanup(p)] = call[Cleanup(p)]
                  /\ \A c \in Callers : c # Body(p) => call'[c] = call[c]
           /\ call' = [call EXCEPT ![Cleanup(p)] = s] =>
                  /\ call'[Cleanup(p)] = s /\ call'[Body(p)] = call[Body(p)]
                  /\ \A c \in Callers : c # Cleanup(p) => call'[c] = call[c]
<1>1. Body(p) \in Callers /\ Cleanup(p) \in Callers /\ Body(p) # Cleanup(p)
  BY CallersOf, CallerKinds
<1>2. call \in [Callers -> CallState]
  BY DEF TypeOK
<1> QED
  BY <1>1, <1>2

(* The same for both calls of a task at once.                              *)
LEMMA BothSet ==
    ASSUME TypeOK, NEW p \in Procs, NEW s, NEW t,
           call' = [call EXCEPT ![Body(p)] = s, ![Cleanup(p)] = t]
    PROVE  /\ call'[Body(p)] = s /\ call'[Cleanup(p)] = t
           /\ \A c \in Callers : c # Body(p) /\ c # Cleanup(p) => call'[c] = call[c]
<1>1. Body(p) \in Callers /\ Cleanup(p) \in Callers /\ Body(p) # Cleanup(p)
  BY CallersOf, CallerKinds
<1>2. call \in [Callers -> CallState]
  BY DEF TypeOK
<1> QED
  BY <1>1, <1>2

(* A task moves on and the others stay.                                    *)
LEMMA PhaseSet ==
    ASSUME TypeOK, NEW p \in Procs, NEW f, phase' = [phase EXCEPT ![p] = f]
    PROVE  phase'[p] = f /\ \A q \in Procs : q # p => phase'[q] = phase[q]
BY DEF TypeOK

(* Where a task is, it has no call but the one it makes there.             *)
LEMMA AtHome ==
    ASSUME JInv, NEW p \in Procs
    PROVE  /\ phase[p] \notin {"failing", "cancelled"} => call[Cleanup(p)].pc = "idle"
           /\ phase[p] \in {"new", "prepare", "read", "skip", "failing"} \cup Ended =>
                  call[Body(p)].pc = "idle"
           /\ phase[p] = "work" /\ call[Body(p)].pc # "idle" =>
                  call[Body(p)].op = "WriteTagsOutput"
           /\ phase[p] \in JobPhases <=> current = p
           /\ cancels \in Nat
           /\ cancels = 0 => phase[p] \notin {"cancelled", "dropped"}
           /\ current = None => \A q \in Procs : phase[q] \notin JobPhases
           /\ phase[p] \in Phases
           /\ p # None
<1>1. cancels \in Nat /\ phase[p] \in Phases
  BY DEF JInv, IInv, TypeOK
<1>2. None \notin Procs
  BY NoneAssumption
<1> QED
  BY <1>1, <1>2 DEF JInv, Desk, Turns, Asks, JobPhases, Extracting, Ended

(* The calls of task p, and its place, after a step.                       *)
Now(p, b, k, f) ==
    /\ call'[Body(p)] = b /\ call'[Cleanup(p)] = k /\ phase'[p] = f
    /\ \A c \in Callers : c # Body(p) /\ c # Cleanup(p) => call'[c] = call[c]
    /\ \A q \in Procs : q # p => phase'[q] = phase[q]

(* A job starts when none runs and no scan event is handled.               *)
LEMMA DoStart ==
    ASSUME JInv, NEW p \in Procs,
           StartExtraction(p) \/ StartDeletion(p) \/ StartMaintenance(p)
    PROVE  ClientStep(p)
<1>0. TypeOK
  BY DEF JInv, IInv
<1>1. \E f \in {"prepare", "read", "delete"} : StartJob(p, f)
  BY DEF StartExtraction, StartMaintenance, StartDeletion
<1>2. PICK f \in {"prepare", "read", "delete"} : StartJob(p, f)
  BY <1>1
<1>3. /\ phase[p] = "new" /\ phase'[p] = f /\ current = None /\ current' = p
      /\ \A q \in Procs : q # p => phase'[q] = phase[q]
      /\ UNCHANGED <<db, actor, tally, cancels, faults>>
      /\ ScanIdle
  BY <1>0, <1>2, PhaseSet DEF StartJob
<1>4. \/ call' = call
      \/ /\ phase'[p] = "delete"
         /\ \E op \in {"DeleteJobData", "DeleteSetterData", "DeleteItems"},
               t \in Procs \cup {None} :
              call' = [call EXCEPT ![Body(p)] = Calling(op, t, FALSE)]
  BY <1>0, <1>3, PhaseSet DEF StartJob, StartExtraction, StartMaintenance, StartDeletion
<1>5. \E b : /\ Now(p, b, call[Cleanup(p)], f)
             /\ \/ b = call[Body(p)]
                \/ f = "delete" /\ b.pc = "get"
                       /\ b.op \in {"DeleteJobData", "DeleteSetterData", "DeleteItems"}
  BY <1>0, <1>3, <1>4, CallsSet DEF Now, Calling
<1>6. PICK b : /\ Now(p, b, call[Cleanup(p)], f)
               /\ \/ b = call[Body(p)]
                  \/ f = "delete" /\ b.pc = "get"
                         /\ b.op \in {"DeleteJobData", "DeleteSetterData", "DeleteItems"}
  BY <1>5
<1>7. Others(p)
  BY <1>3, <1>6 DEF Others, Now
<1>8. Calls(p)
  BY <1>3, <1>6, AtHome DEF Calls, Now, Asks, Over, Ended, Extracting
<1>9. Place(p)
  BY <1>3, <1>6, AtHome DEF Place, Now, JobPhases, Busy, Extracting, ScanIdle
<1>10. Rest(p)
  BY <1>3, <1>6, AtHome DEF Rest, Now, Covered, Stays, AtWork, Pending, Extracting, Replied
<1> QED
  BY <1>7, <1>8, <1>9, <1>10 DEF ClientStep

(* A scan event starts, or has its maintenance; a mark starts.             *)
LEMMA DoScan ==
    ASSUME JInv, NEW p \in Procs, StartScan(p) \/ ScanMaintains(p) \/ StartMark(p)
    PROVE  ClientStep(p)
<1>0. TypeOK
  BY DEF JInv, IInv
<1>1. UNCHANGED <<db, actor, tally, current, cancels, faults>>
  BY DEF StartScan, ScanMaintains, StartMark, clients
<1>2. CASE StartScan(p)
  <2>1. /\ Now(p, Calling("DeleteItems", None, FALSE), call[Cleanup(p)], "scan")
        /\ phase[p] = "new"
    BY <1>0, <1>2, PhaseSet, CallsSet DEF StartScan, Now
  <2>2. \A q \in Procs : phase[q] \notin Busy
    <3>1. ASSUME NEW q \in Procs, phase[q] \in Busy PROVE FALSE
      <4>1. current = q
        BY <3>1, AtHome DEF Busy
      <4> QED
        BY <1>2, <3>1, <4>1, AtHome DEF StartScan, Busy
    <3> QED
      BY <3>1
  <2>7. Others(p)
    BY <1>1, <2>1 DEF Others, Now
  <2>8. Calls(p)
    BY <1>1, <2>1, AtHome DEF Calls, Now, Asks, Over, Ended, Extracting, Calling
  <2>9. Place(p)
    BY <1>1, <2>1, <2>2, AtHome DEF Place, Now, JobPhases, Busy, Extracting
  <2>10. Rest(p)
    BY <1>1, <2>1, AtHome
    DEF Rest, Now, Covered, Stays, AtWork, Pending, Extracting, Replied, Calling
  <2> QED
    BY <2>7, <2>8, <2>9, <2>10 DEF ClientStep
<1>3. CASE ScanMaintains(p)
  <2>1. /\ Now(p, Calling("RecountTagItems", None, FALSE), call[Cleanup(p)], "scan")
        /\ phase[p] = "scan" /\ call[Body(p)].pc = "ok"
    BY <1>0, <1>3, PhaseSet, CallsSet DEF ScanMaintains, Now, clients
  <2>7. Others(p)
    BY <1>1, <2>1 DEF Others, Now
  <2>8. Calls(p)
    BY <1>1, <2>1, AtHome DEF Calls, Now, Asks, Over, Ended, Extracting, Calling
  <2>9. Place(p)
    BY <1>1, <2>1, AtHome DEF Place, Now, JobPhases, Busy, Extracting
  <2>10. Rest(p)
    BY <1>1, <2>1, AtHome
    DEF Rest, Now, Covered, Stays, AtWork, Pending, Extracting, Replied, Calling
  <2> QED
    BY <2>7, <2>8, <2>9, <2>10 DEF ClientStep
<1>4. CASE StartMark(p)
  <2>1. /\ Now(p, Calling("MarkTagsDirty", None, FALSE), call[Cleanup(p)], "mark")
        /\ phase[p] = "new"
    BY <1>0, <1>4, PhaseSet, CallsSet DEF StartMark, Now
  <2>7. Others(p)
    BY <1>1, <2>1 DEF Others, Now
  <2>8. Calls(p)
    BY <1>1, <2>1, AtHome DEF Calls, Now, Asks, Over, Ended, Extracting, Calling
  <2>9. Place(p)
    BY <1>1, <2>1, AtHome DEF Place, Now, JobPhases, Busy, Extracting
  <2>10. Rest(p)
    BY <1>1, <2>1, AtHome
    DEF Rest, Now, Covered, Stays, AtWork, Pending, Extracting, Replied, Calling
  <2> QED
    BY <2>7, <2>8, <2>9, <2>10 DEF ClientStep
<1> QED
  BY <1>2, <1>3, <1>4

(* The stale rows are cleaned up first.                                    *)
LEMMA DoPrepared ==
    ASSUME JInv, NEW p \in Procs, Prepared(p)
    PROVE  ClientStep(p)
<1>0. TypeOK
  BY DEF JInv, IInv
<1>1. UNCHANGED <<db, actor, faults, cancels, current>>
  BY DEF Prepared, clients
<1>2. Now(p, Calling("RemoveIncompleteJobs", None, FALSE), call[Cleanup(p)], "clean")
  BY <1>0, PhaseSet, CallsSet DEF Prepared, Now, Fail, clients
<1>3. phase[p] = "prepare"
  BY DEF Prepared, Fail
<1>4. tally' = tally
  BY <1>0 DEF Prepared, clients
<1>5. Others(p)
  BY <1>1, <1>2, <1>4 DEF Others, Now
<1>6. Calls(p)
  BY <1>1, <1>2, <1>3, <1>4, AtHome
  DEF Calls, Now, Asks, Over, Ended, Extracting, Calling, NoCall, Replied
<1>7. Place(p)
  BY <1>1, <1>2, <1>3, AtHome DEF Place, Now, JobPhases, Busy, Extracting
<1>8. Rest(p)
  BY <1>1, <1>2, <1>3, <1>4, AtHome
  DEF Rest, Now, Covered, Stays, AtWork, Pending, Extracting, Ended, Over, Replied, Calling, NoCall
<1> QED
  BY <1>5, <1>6, <1>7, <1>8 DEF ClientStep

(* The row is there, and the items follow.                                 *)
LEMMA DoLogged ==
    ASSUME JInv, NEW p \in Procs, Logged(p)
    PROVE  ClientStep(p)
<1>0. TypeOK
  BY DEF JInv, IInv
<1>1. UNCHANGED <<db, actor, faults, cancels, current>>
  BY DEF Logged, clients
<1>2. Now(p, NoCall, call[Cleanup(p)], "work")
  BY <1>0, PhaseSet, CallsSet DEF Logged, Now, Fail, clients
<1>3. phase[p] = "log" /\ call[Body(p)].pc = "ok"
  BY DEF Logged, Fail
<1>4. tally' = tally
  BY <1>0 DEF Logged, clients
<1>5. Others(p)
  BY <1>1, <1>2, <1>4 DEF Others, Now
<1>6. Calls(p)
  BY <1>1, <1>2, <1>3, <1>4, AtHome
  DEF Calls, Now, Asks, Over, Ended, Extracting, Calling, NoCall, Replied
<1>7. Place(p)
  BY <1>1, <1>2, <1>3, AtHome DEF Place, Now, JobPhases, Busy, Extracting
<1>8. Rest(p)
  BY <1>1, <1>2, <1>3, <1>4, AtHome
  DEF Rest, Now, Covered, Stays, AtWork, Pending, Extracting, Ended, Over, Replied, Calling, NoCall
<1> QED
  BY <1>5, <1>6, <1>7, <1>8 DEF ClientStep

(* An item is attempted.                                                   *)
LEMMA DoItemFails ==
    ASSUME JInv, NEW p \in Procs, ItemFails(p)
    PROVE  ClientStep(p)
<1>0. TypeOK
  BY DEF JInv, IInv
<1>1. UNCHANGED <<db, actor, faults, cancels, current>>
  BY DEF ItemFails, clients
<1>2. Now(p, call[Body(p)], call[Cleanup(p)], "work")
  BY <1>0, PhaseSet, CallsSet DEF ItemFails, Now, Fail, clients
<1>3. phase[p] = "work" /\ call[Body(p)].pc = "idle"
  BY DEF ItemFails, Fail
<1>4. \A q \in Procs : q # p => tally'[q] = tally[q]
  BY <1>0 DEF ItemFails, clients, TypeOK
<1>5. Others(p)
  BY <1>1, <1>2, <1>4 DEF Others, Now
<1>6. Calls(p)
  BY <1>1, <1>2, <1>3, <1>4, AtHome
  DEF Calls, Now, Asks, Over, Ended, Extracting, Calling, NoCall, Replied
<1>7. Place(p)
  BY <1>1, <1>2, <1>3, AtHome DEF Place, Now, JobPhases, Busy, Extracting
<1>8. Rest(p)
  BY <1>1, <1>2, <1>3, <1>4, AtHome
  DEF Rest, Now, Covered, Stays, AtWork, Pending, Extracting, Ended, Over, Replied, Calling, NoCall
<1> QED
  BY <1>5, <1>6, <1>7, <1>8 DEF ClientStep

(* An item is written, or not.                                             *)
LEMMA DoItemWritten ==
    ASSUME JInv, NEW p \in Procs, ItemWritten(p)
    PROVE  ClientStep(p)
<1>0. TypeOK
  BY DEF JInv, IInv
<1>1. UNCHANGED <<db, actor, faults, cancels, current>>
  BY DEF ItemWritten, clients
<1>2. Now(p, NoCall, call[Cleanup(p)], "work")
  BY <1>0, PhaseSet, CallsSet DEF ItemWritten, Now, Fail, clients
<1>3. phase[p] = "work" /\ Replied(Body(p))
  BY DEF ItemWritten, Fail
<1>4. \A q \in Procs : q # p => tally'[q] = tally[q]
  BY <1>0 DEF ItemWritten, clients, TypeOK
<1>5. Others(p)
  BY <1>1, <1>2, <1>4 DEF Others, Now
<1>6. Calls(p)
  BY <1>1, <1>2, <1>3, <1>4, AtHome
  DEF Calls, Now, Asks, Over, Ended, Extracting, Calling, NoCall, Replied
<1>7. Place(p)
  BY <1>1, <1>2, <1>3, AtHome DEF Place, Now, JobPhases, Busy, Extracting
<1>8. Rest(p)
  BY <1>1, <1>2, <1>3, <1>4, AtHome
  DEF Rest, Now, Covered, Stays, AtWork, Pending, Extracting, Ended, Over, Replied, Calling, NoCall
<1> QED
  BY <1>5, <1>6, <1>7, <1>8 DEF ClientStep

(* The row is closed.                                                      *)
LEMMA DoFinishExtraction ==
    ASSUME JInv, NEW p \in Procs, FinishExtraction(p)
    PROVE  ClientStep(p)
<1>0. TypeOK
  BY DEF JInv, IInv
<1>1. UNCHANGED <<db, actor, faults, cancels, current>>
  BY DEF FinishExtraction, clients
<1>2. Now(p, Calling("UpdateDataLog", p, ~Systemic(tally[p])), call[Cleanup(p)], "finish")
  BY <1>0, PhaseSet, CallsSet DEF FinishExtraction, Now, Fail, clients
<1>3. phase[p] = "work" /\ call[Body(p)].pc = "idle"
  BY DEF FinishExtraction, Fail
<1>4. tally' = tally
  BY <1>0 DEF FinishExtraction, clients
<1>5. Others(p)
  BY <1>1, <1>2, <1>4 DEF Others, Now
<1>6. Calls(p)
  BY <1>1, <1>2, <1>3, <1>4, AtHome
  DEF Calls, Now, Asks, Over, Ended, Extracting, Calling, NoCall, Replied
<1>7. Place(p)
  BY <1>1, <1>2, <1>3, AtHome DEF Place, Now, JobPhases, Busy, Extracting
<1>8. Rest(p)
  BY <1>1, <1>2, <1>3, <1>4, AtHome
  DEF Rest, Now, Covered, Stays, AtWork, Pending, Extracting, Ended, Over, Replied, Calling, NoCall
<1> QED
  BY <1>5, <1>6, <1>7, <1>8 DEF ClientStep

(* A job that fails calls its cleanup; one that ends has no call.          *)
LEMMA Endings ==
    ASSUME TypeOK, NEW p \in Procs, NEW outcome
    PROVE  /\ Fail(p) => /\ Now(p, NoCall, Calling("RemoveIncompleteJobs", None, FALSE), "failing")
                         /\ current' = current
           /\ Finish(p, outcome) => Now(p, NoCall, NoCall, outcome) /\ current' = None
<1>1. ASSUME Fail(p)
      PROVE  Now(p, NoCall, Calling("RemoveIncompleteJobs", None, FALSE), "failing")
             /\ current' = current
  <2>1. phase' = [phase EXCEPT ![p] = "failing"] /\ current' = current
    BY <1>1 DEF Fail
  <2>2. call' = [call EXCEPT ![Body(p)] = NoCall,
                            ![Cleanup(p)] = Calling("RemoveIncompleteJobs", None, FALSE)]
    BY <1>1 DEF Fail
  <2>3. phase'[p] = "failing" /\ \A q \in Procs : q # p => phase'[q] = phase[q]
    BY <2>1, PhaseSet
  <2>4. /\ call'[Body(p)] = NoCall
        /\ call'[Cleanup(p)] = Calling("RemoveIncompleteJobs", None, FALSE)
        /\ \A c \in Callers : c # Body(p) /\ c # Cleanup(p) => call'[c] = call[c]
    BY <2>2, BothSet
  <2> QED
    BY <2>1, <2>3, <2>4 DEF Now
<1>2. ASSUME Finish(p, outcome)
      PROVE  Now(p, NoCall, NoCall, outcome) /\ current' = None
  <2>1. phase' = [phase EXCEPT ![p] = outcome] /\ current' = None
    BY <1>2 DEF Finish
  <2>2. call' = [call EXCEPT ![Body(p)] = NoCall, ![Cleanup(p)] = NoCall]
    BY <1>2 DEF Finish
  <2>3. phase'[p] = outcome /\ \A q \in Procs : q # p => phase'[q] = phase[q]
    BY <2>1, PhaseSet
  <2>4. /\ call'[Body(p)] = NoCall /\ call'[Cleanup(p)] = NoCall
        /\ \A c \in Callers : c # Body(p) /\ c # Cleanup(p) => call'[c] = call[c]
    BY <2>2, BothSet
  <2> QED
    BY <2>1, <2>3, <2>4 DEF Now
<1> QED
  BY <1>1, <1>2

(* The extraction fails, and its cleanup is called.                        *)
LEMMA DoErrs ==
    ASSUME JInv, NEW p \in Procs, ExtractionErrs(p)
    PROVE  ClientStep(p)
<1>0. TypeOK /\ Fail(p)
  BY DEF JInv, IInv, ExtractionErrs
<1>1. UNCHANGED <<db, actor, tally, faults, cancels, current>>
  BY <1>0, Endings DEF ExtractionErrs
<1>2. Now(p, NoCall, Calling("RemoveIncompleteJobs", None, FALSE), "failing")
  BY <1>0, Endings
<1>3. /\ phase[p] \in {"prepare", "clean", "log", "work"}
      /\ phase[p] \in {"clean", "log"} => Replied(Body(p))
  BY DEF ExtractionErrs
<1>5. Others(p)
  BY <1>1, <1>2, <1>3 DEF Others, Now
<1>6. Calls(p)
  BY <1>1, <1>2, <1>3, AtHome
  DEF Calls, Now, Asks, Over, Ended, Extracting, Calling, NoCall, Replied
<1>7. Place(p)
  BY <1>1, <1>2, <1>3, AtHome DEF Place, Now, JobPhases, Busy, Extracting, Ended
<1>8. Rest(p)
  BY <1>1, <1>2, <1>3, AtHome
  DEF Rest, Now, Covered, Stays, AtWork, Pending, Extracting, Ended, Over, Replied, Calling,
      NoCall, JobPhases
<1> QED
  BY <1>5, <1>6, <1>7, <1>8 DEF ClientStep

(* An item is written.                                                     *)
LEMMA DoWriteItem ==
    ASSUME JInv, NEW p \in Procs, WriteItem(p)
    PROVE  ClientStep(p)
<1>0. TypeOK
  BY DEF JInv, IInv
<1>1. UNCHANGED <<db, actor, clients, faults, cancels>>
  BY DEF WriteItem
<1>9. PICK content \in BOOLEAN :
          call' = [call EXCEPT ![Body(p)] = Calling("WriteTagsOutput", p, content)]
  BY DEF WriteItem
<1>2. Now(p, Calling("WriteTagsOutput", p, content), call[Cleanup(p)], "work")
         /\ current' = current /\ tally' = tally
  BY <1>0, <1>1, <1>9, CallsSet DEF Now, WriteItem, clients
<1>3. phase[p] = "work" /\ call[Body(p)].pc = "idle"
  BY DEF WriteItem
<1>5. Others(p)
  BY <1>1, <1>2, <1>3 DEF Others, Now
<1>6. Calls(p)
  BY <1>1, <1>2, <1>3, AtHome
  DEF Calls, Now, Asks, Over, Ended, Extracting, Calling, NoCall, Replied
<1>7. Place(p)
  BY <1>1, <1>2, <1>3, AtHome DEF Place, Now, JobPhases, Busy, Extracting, Ended
<1>8. Rest(p)
  BY <1>1, <1>2, <1>3, AtHome
  DEF Rest, Now, Covered, Stays, AtWork, Pending, Extracting, Ended, Over, Replied, Calling,
      NoCall, JobPhases
<1> QED
  BY <1>5, <1>6, <1>7, <1>8 DEF ClientStep

(* Nothing to do, or the row is added.                                     *)
LEMMA DoCleaned ==
    ASSUME JInv, NEW p \in Procs, Cleaned(p)
    PROVE  ClientStep(p)
<1>0. TypeOK
  BY DEF JInv, IInv
<1>a. CASE /\ phase' = [phase EXCEPT ![p] = "done"]
           /\ current' = None
           /\ call' = [call EXCEPT ![Body(p)] = NoCall]
  <2>1. UNCHANGED <<db, actor, tally, faults, cancels>> /\ current' = None
    BY <1>a DEF Cleaned
  <2>2. Now(p, NoCall, call[Cleanup(p)], "done")
    BY <1>0, <1>a, PhaseSet, CallsSet DEF Now
  <2>3. phase[p] = "clean" /\ call[Body(p)].pc = "ok"
    BY DEF Cleaned
  <2>5. Others(p)
    BY <2>1, <2>2, <2>3 DEF Others, Now
  <2>6. Calls(p)
    BY <2>1, <2>2, <2>3, AtHome
    DEF Calls, Now, Asks, Over, Ended, Extracting, Calling, NoCall, Replied
  <2>7. Place(p)
    BY <2>1, <2>2, <2>3, AtHome DEF Place, Now, JobPhases, Busy, Extracting, Ended
  <2>8. Rest(p)
    BY <2>1, <2>2, <2>3, AtHome
    DEF Rest, Now, Covered, Stays, AtWork, Pending, Extracting, Ended, Over, Replied, Calling,
        NoCall, JobPhases
  <2> QED
    BY <2>5, <2>6, <2>7, <2>8 DEF ClientStep
<1>b. CASE /\ phase' = [phase EXCEPT ![p] = "log"]
           /\ call' = [call EXCEPT ![Body(p)] = Calling("AddDataLog", p, FALSE)]
           /\ UNCHANGED current
  <2>1. UNCHANGED <<db, actor, tally, faults, cancels, current>>
    BY <1>b DEF Cleaned
  <2>2. Now(p, Calling("AddDataLog", p, FALSE), call[Cleanup(p)], "log")
    BY <1>0, <1>b, PhaseSet, CallsSet DEF Now
  <2>3. phase[p] = "clean" /\ call[Body(p)].pc = "ok"
    BY DEF Cleaned
  <2>5. Others(p)
    BY <2>1, <2>2, <2>3 DEF Others, Now
  <2>6. Calls(p)
    BY <2>1, <2>2, <2>3, AtHome
    DEF Calls, Now, Asks, Over, Ended, Extracting, Calling, NoCall, Replied
  <2>7. Place(p)
    BY <2>1, <2>2, <2>3, AtHome DEF Place, Now, JobPhases, Busy, Extracting, Ended
  <2>8. Rest(p)
    BY <2>1, <2>2, <2>3, AtHome
    DEF Rest, Now, Covered, Stays, AtWork, Pending, Extracting, Ended, Over, Replied, Calling,
        NoCall, JobPhases
  <2> QED
    BY <2>5, <2>6, <2>7, <2>8 DEF ClientStep
<1> QED
  BY <1>a, <1>b DEF Cleaned

(* The end of an extraction: all items failed, or it is done.              *)
LEMMA DoFinished ==
    ASSUME JInv, NEW p \in Procs, Finished(p)
    PROVE  ClientStep(p)
<1>0. TypeOK
  BY DEF JInv, IInv
<1>a. CASE Fail(p)
  <2>1. UNCHANGED <<db, actor, tally, faults, cancels>> /\ current' = current
    BY <1>0, <1>a, Endings DEF Finished
  <2>2. Now(p, NoCall, Calling("RemoveIncompleteJobs", None, FALSE), "failing")
    BY <1>0, <1>a, Endings
  <2>3. phase[p] = "finish" /\ Replied(Body(p))
    BY DEF Finished
  <2>5. Others(p)
    BY <2>1, <2>2, <2>3 DEF Others, Now
  <2>6. Calls(p)
    BY <2>1, <2>2, <2>3, AtHome
    DEF Calls, Now, Asks, Over, Ended, Extracting, Calling, NoCall, Replied
  <2>7. Place(p)
    BY <2>1, <2>2, <2>3, AtHome DEF Place, Now, JobPhases, Busy, Extracting, Ended
  <2>8. Rest(p)
    BY <2>1, <2>2, <2>3, AtHome
    DEF Rest, Now, Covered, Stays, AtWork, Pending, Extracting, Ended, Over, Replied, Calling,
        NoCall, JobPhases
  <2> QED
    BY <2>5, <2>6, <2>7, <2>8 DEF ClientStep
<1>b. CASE ~Systemic(tally[p]) /\ Finish(p, "done")
  <2>1. UNCHANGED <<db, actor, tally, faults, cancels>> /\ current' = None
    BY <1>0, <1>b, Endings DEF Finished
  <2>2. Now(p, NoCall, NoCall, "done")
    BY <1>0, <1>b, Endings
  <2>3. phase[p] = "finish" /\ Replied(Body(p)) /\ ~Systemic(tally[p])
    BY <1>b DEF Finished
  <2>5. Others(p)
    BY <2>1, <2>2, <2>3 DEF Others, Now
  <2>6. Calls(p)
    BY <2>1, <2>2, <2>3, AtHome
    DEF Calls, Now, Asks, Over, Ended, Extracting, Calling, NoCall, Replied
  <2>7. Place(p)
    BY <2>1, <2>2, <2>3, AtHome DEF Place, Now, JobPhases, Busy, Extracting, Ended
  <2>8. Rest(p)
    BY <2>1, <2>2, <2>3, AtHome
    DEF Rest, Now, Covered, Stays, AtWork, Pending, Extracting, Ended, Over, Replied, Calling,
        NoCall, JobPhases
  <2> QED
    BY <2>5, <2>6, <2>7, <2>8 DEF ClientStep
<1> QED
  BY <1>a, <1>b DEF Finished

(* A cleanup has been answered.                                            *)
LEMMA DoCleanedUp ==
    ASSUME JInv, NEW p \in Procs, CleanedUp(p)
    PROVE  ClientStep(p)
<1>0. TypeOK /\ UNCHANGED <<db, actor, tally, faults, cancels>>
         /\ phase[p] \in {"failing", "cancelled"}
  BY AtHome DEF JInv, IInv, CleanedUp, Replied
<1>a. CASE phase[p] = "failing"
  <2>1. UNCHANGED <<db, actor, tally, faults, cancels>> /\ current' = None
    BY <1>0, <1>a, Endings DEF CleanedUp
  <2>2. Now(p, NoCall, NoCall, "failed")
    BY <1>0, <1>a, Endings DEF CleanedUp
  <2>3. phase[p] = "failing" /\ Replied(Cleanup(p))
    BY <1>a DEF CleanedUp
  <2>5. Others(p)
    BY <2>1, <2>2, <2>3 DEF Others, Now
  <2>6. Calls(p)
    BY <2>1, <2>2, <2>3, AtHome
    DEF Calls, Now, Asks, Over, Ended, Extracting, Calling, NoCall, Replied
  <2>7. Place(p)
    BY <2>1, <2>2, <2>3, AtHome DEF Place, Now, JobPhases, Busy, Extracting, Ended
  <2>8. Rest(p)
    BY <2>1, <2>2, <2>3, AtHome
    DEF Rest, Now, Covered, Stays, AtWork, Pending, Extracting, Ended, Over, Replied, Calling,
        NoCall, JobPhases
  <2> QED
    BY <2>5, <2>6, <2>7, <2>8 DEF ClientStep
<1>b. CASE phase[p] = "cancelled"
  <2>1. UNCHANGED <<db, actor, tally, faults, cancels, current>>
    BY <1>0, <1>b DEF CleanedUp
  <2>2. Now(p, call[Body(p)], NoCall, "cancelled")
    BY <1>0, <1>b, CallsSet DEF CleanedUp, Now
  <2>3. phase[p] = "cancelled" /\ Replied(Cleanup(p))
    BY <1>b DEF CleanedUp
  <2>5. Others(p)
    BY <2>1, <2>2, <2>3 DEF Others, Now
  <2>6. Calls(p)
    BY <2>1, <2>2, <2>3, AtHome
    DEF Calls, Now, Asks, Over, Ended, Extracting, Calling, NoCall, Replied
  <2>7. Place(p)
    BY <2>1, <2>2, <2>3, AtHome DEF Place, Now, JobPhases, Busy, Extracting, Ended
  <2>8. Rest(p)
    BY <2>1, <2>2, <2>3, AtHome
    DEF Rest, Now, Covered, Stays, AtWork, Pending, Extracting, Ended, Over, Replied, Calling,
        NoCall, JobPhases
  <2> QED
    BY <2>5, <2>6, <2>7, <2>8 DEF ClientStep
<1> QED
  BY <1>0, <1>a, <1>b

(* A deletion ends.                                                        *)
LEMMA DoDeleted ==
    ASSUME JInv, NEW p \in Procs, Deleted(p)
    PROVE  ClientStep(p)
<1>0. TypeOK
  BY DEF JInv, IInv
<1>9. PICK outcome \in {"done", "failed"} : Finish(p, outcome)
  BY DEF Deleted
<1>1. UNCHANGED <<db, actor, tally, faults, cancels>> /\ current' = None
  BY <1>0, <1>9, Endings DEF Deleted
<1>2. Now(p, NoCall, NoCall, outcome)
  BY <1>0, <1>9, Endings
<1>3. phase[p] = "delete" /\ Replied(Body(p))
  BY DEF Deleted
<1>5. Others(p)
  BY <1>1, <1>2, <1>3 DEF Others, Now
<1>6. Calls(p)
  BY <1>1, <1>2, <1>3, AtHome
  DEF Calls, Now, Asks, Over, Ended, Extracting, Calling, NoCall, Replied
<1>7. Place(p)
  BY <1>1, <1>2, <1>3, AtHome DEF Place, Now, JobPhases, Busy, Extracting, Ended
<1>8. Rest(p)
  BY <1>1, <1>2, <1>3, AtHome
  DEF Rest, Now, Covered, Stays, AtWork, Pending, Extracting, Ended, Over, Replied, Calling,
      NoCall, JobPhases
<1> QED
  BY <1>5, <1>6, <1>7, <1>8 DEF ClientStep

(* Maintenance reads the marker.                                           *)
LEMMA DoDecideRecount ==
    ASSUME JInv, NEW p \in Procs, DecideRecount(p)
    PROVE  ClientStep(p)
<1>0. TypeOK
  BY DEF JInv, IInv
<1>a. CASE /\ phase' = [phase EXCEPT ![p] = "recount"]
           /\ call' = [call EXCEPT ![Body(p)] = Calling("RecountTagItems", None, FALSE)]
  <2>1. UNCHANGED <<db, actor, tally, faults, cancels, current>>
    BY DEF DecideRecount
  <2>2. Now(p, Calling("RecountTagItems", None, FALSE), call[Cleanup(p)], "recount")
    BY <1>0, <1>a, PhaseSet, CallsSet DEF Now
  <2>3. phase[p] = "read"
    BY DEF DecideRecount
  <2>5. Others(p)
    BY <2>1, <2>2, <2>3 DEF Others, Now
  <2>6. Calls(p)
    BY <2>1, <2>2, <2>3, AtHome
    DEF Calls, Now, Asks, Over, Ended, Extracting, Calling, NoCall, Replied
  <2>7. Place(p)
    BY <2>1, <2>2, <2>3, AtHome DEF Place, Now, JobPhases, Busy, Extracting, Ended
  <2>8. Rest(p)
    BY <2>1, <2>2, <2>3, AtHome
    DEF Rest, Now, Covered, Stays, AtWork, Pending, Extracting, Ended, Over, Replied, Calling,
        NoCall, JobPhases
  <2> QED
    BY <2>5, <2>6, <2>7, <2>8 DEF ClientStep
<1>b. CASE ~dirty /\ phase' = [phase EXCEPT ![p] = "skip"] /\ UNCHANGED call
  <2>1. UNCHANGED <<db, actor, tally, faults, cancels, current>>
    BY DEF DecideRecount
  <2>2. Now(p, call[Body(p)], call[Cleanup(p)], "skip")
    BY <1>0, <1>b, PhaseSet DEF Now
  <2>3. phase[p] = "read" /\ ~dirty
    BY <1>b DEF DecideRecount
  <2>5. Others(p)
    BY <2>1, <2>2, <2>3 DEF Others, Now
  <2>6. Calls(p)
    BY <2>1, <2>2, <2>3, AtHome
    DEF Calls, Now, Asks, Over, Ended, Extracting, Calling, NoCall, Replied
  <2>7. Place(p)
    BY <2>1, <2>2, <2>3, AtHome DEF Place, Now, JobPhases, Busy, Extracting, Ended
  <2>8. Rest(p)
    BY <2>1, <2>2, <2>3, AtHome
    DEF Rest, Now, Covered, Stays, AtWork, Pending, Extracting, Ended, Over, Replied, Calling,
        NoCall, JobPhases
  <2> QED
    BY <2>5, <2>6, <2>7, <2>8 DEF ClientStep
<1> QED
  BY <1>a, <1>b DEF DecideRecount

(* Maintenance ends.                                                       *)
LEMMA DoMaintained ==
    ASSUME JInv, NEW p \in Procs, Maintained(p)
    PROVE  ClientStep(p)
<1>0. TypeOK /\ Finish(p, "done")
  BY DEF JInv, IInv, Maintained
<1>1. UNCHANGED <<db, actor, tally, faults, cancels>> /\ current' = None
  BY <1>0, Endings DEF Maintained
<1>2. Now(p, NoCall, NoCall, "done")
  BY <1>0, Endings
<1>3. phase[p] = "skip" \/ (phase[p] = "recount" /\ Replied(Body(p)))
  BY DEF Maintained
<1>5. Others(p)
  BY <1>1, <1>2, <1>3 DEF Others, Now
<1>6. Calls(p)
  BY <1>1, <1>2, <1>3, AtHome
  DEF Calls, Now, Asks, Over, Ended, Extracting, Calling, NoCall, Replied
<1>7. Place(p)
  BY <1>1, <1>2, <1>3, AtHome DEF Place, Now, JobPhases, Busy, Extracting, Ended
<1>8. Rest(p)
  BY <1>1, <1>2, <1>3, AtHome
  DEF Rest, Now, Covered, Stays, AtWork, Pending, Extracting, Ended, Over, Replied, Calling,
      NoCall, JobPhases
<1> QED
  BY <1>5, <1>6, <1>7, <1>8 DEF ClientStep

(* A scan event or a mark ends.                                            *)
LEMMA DoTaskEnds ==
    ASSUME JInv, NEW p \in Procs, TaskEnds(p)
    PROVE  ClientStep(p)
<1>0. TypeOK
  BY DEF JInv, IInv
<1>1. UNCHANGED <<db, actor, tally, faults, cancels, current>>
  BY DEF TaskEnds
<1>2. Now(p, NoCall, call[Cleanup(p)], "done")
  BY <1>0, PhaseSet, CallsSet DEF TaskEnds, Now
<1>3. phase[p] \in {"scan", "mark"} /\ Replied(Body(p))
  BY DEF TaskEnds
<1>5. Others(p)
  BY <1>1, <1>2, <1>3 DEF Others, Now
<1>6. Calls(p)
  BY <1>1, <1>2, <1>3, AtHome
  DEF Calls, Now, Asks, Over, Ended, Extracting, Calling, NoCall, Replied
<1>7. Place(p)
  BY <1>1, <1>2, <1>3, AtHome DEF Place, Now, JobPhases, Busy, Extracting, Ended
<1>8. Rest(p)
  BY <1>1, <1>2, <1>3, AtHome
  DEF Rest, Now, Covered, Stays, AtWork, Pending, Extracting, Ended, Over, Replied, Calling,
      NoCall, JobPhases
<1> QED
  BY <1>5, <1>6, <1>7, <1>8 DEF ClientStep

(* A job is cancelled.                                                     *)
LEMMA DoCancel ==
    ASSUME JInv, NEW p \in Procs, Cancel(p)
    PROVE  ClientStep(p)
<1>0. TypeOK /\ phase[p] \in JobPhases
  BY AtHome DEF JInv, IInv, Cancel
<1>1. UNCHANGED <<db, actor, tally, faults>> /\ current' = None /\ current = p /\ cancels' # 0
  BY AtHome DEF Cancel
<1>a. CASE phase[p] = "failing"
  <2>1. UNCHANGED <<db, actor, tally, faults>> /\ current' = None /\ current = p /\ cancels' # 0
    BY <1>1
  <2>2. Now(p, NoCall, NoCall, "dropped")
    <3>1. phase' = [phase EXCEPT ![p] = "dropped"]
      BY <1>0, <1>a DEF Cancel, TypeOK
    <3>2. call' = [call EXCEPT ![Body(p)] = NoCall, ![Cleanup(p)] = NoCall]
      BY <1>a DEF Cancel, Extracting
    <3>3. phase'[p] = "dropped" /\ \A q \in Procs : q # p => phase'[q] = phase[q]
      BY <1>0, <3>1, PhaseSet
    <3>4. /\ call'[Body(p)] = NoCall /\ call'[Cleanup(p)] = NoCall
          /\ \A c \in Callers : c # Body(p) /\ c # Cleanup(p) => call'[c] = call[c]
      BY <1>0, <3>2, BothSet
    <3> QED
      BY <3>3, <3>4 DEF Now
  <2>3. phase[p] = "failing"
    BY <1>a
  <2>5. Others(p)
    BY <2>1, <2>2, <2>3 DEF Others, Now
  <2>6. Calls(p)
    BY <2>1, <2>2, <2>3, AtHome
    DEF Calls, Now, Asks, Over, Ended, Extracting, Calling, NoCall, Replied
  <2>7. Place(p)
    BY <2>1, <2>2, <2>3, AtHome DEF Place, Now, JobPhases, Busy, Extracting, Ended
  <2>8. Rest(p)
    BY <2>1, <2>2, <2>3, AtHome
    DEF Rest, Now, Covered, Stays, AtWork, Pending, Extracting, Ended, Over, Replied, Calling,
        NoCall, JobPhases
  <2> QED
    BY <2>5, <2>6, <2>7, <2>8 DEF ClientStep
<1>b. CASE phase[p] # "failing"
  <2>1. UNCHANGED <<db, actor, tally, faults>> /\ current' = None /\ current = p /\ cancels' # 0
    BY <1>1
  <2>4. PICK k : /\ k = IF phase[p] \in Extracting
                           THEN Calling("RemoveIncompleteJobs", None, FALSE)
                           ELSE NoCall
                 /\ Now(p, NoCall, k, "cancelled")
    <3>1. phase' = [phase EXCEPT ![p] = "cancelled"]
      BY <1>0, <1>b DEF Cancel, TypeOK
    <3>2. PICK k : /\ k = IF phase[p] \in Extracting
                             THEN Calling("RemoveIncompleteJobs", None, FALSE)
                             ELSE NoCall
                   /\ call' = [call EXCEPT ![Body(p)] = NoCall, ![Cleanup(p)] = k]
      BY DEF Cancel
    <3>3. phase'[p] = "cancelled" /\ \A q \in Procs : q # p => phase'[q] = phase[q]
      BY <1>0, <3>1, PhaseSet
    <3>4. /\ call'[Body(p)] = NoCall /\ call'[Cleanup(p)] = k
          /\ \A c \in Callers : c # Body(p) /\ c # Cleanup(p) => call'[c] = call[c]
      BY <1>0, <3>2, BothSet
    <3>5. Now(p, NoCall, k, "cancelled")
      BY <3>3, <3>4 DEF Now
    <3> QED
      BY <3>2, <3>5
  <2>2. Now(p, NoCall, k, "cancelled")
    BY <2>4
  <2>3. phase[p] \in JobPhases \ {"failing"}
        /\ k = IF phase[p] \in Extracting
                  THEN Calling("RemoveIncompleteJobs", None, FALSE)
                  ELSE NoCall
    BY <1>0, <1>b, <2>4
  <2>5. Others(p)
    BY <2>1, <2>2, <2>3 DEF Others, Now
  <2>6. Calls(p)
    BY <2>1, <2>2, <2>3, AtHome
    DEF Calls, Now, Asks, Over, Ended, Extracting, Calling, NoCall, Replied
  <2>7. Place(p)
    BY <2>1, <2>2, <2>3, AtHome DEF Place, Now, JobPhases, Busy, Extracting, Ended
  <2>8. Rest(p)
    BY <2>1, <2>2, <2>3, AtHome
    DEF Rest, Now, Covered, Stays, AtWork, Pending, Extracting, Ended, Over, Replied, Calling,
        NoCall, JobPhases
  <2> QED
    BY <2>5, <2>6, <2>7, <2>8 DEF ClientStep
<1> QED
  BY <1>a, <1>b

-----------------------------------------------------------------------------
(* The calls.                                                              *)

(* A call that nobody answers goes on, or fails, and asks for the same.    *)
GoesOn(c) ==
    \/ call'[c] = call[c]
    \/ /\ call[c].pc \in {"get", "send"}
       /\ call'[c].pc \in {"get", "send", "err"}
       /\ call'[c].op = call[c].op /\ call'[c].target = call[c].target
       /\ call'[c].flag = call[c].flag

(* Whatever only moves calls on keeps the strengthened invariant.          *)
LEMMA GoingOnKeeps ==
    ASSUME JInv, TypeOK', IInv', Healthy',
           UNCHANGED <<db, mailbox, handling, clients, cancels>>,
           faults' = 0 => faults = 0,
           writer' \in {"none", "dying"} => mailbox = <<>> /\ handling = None,
           \A c \in Callers : GoesOn(c)
    PROVE  JInv'
<1> USE DEF JInv
<1>0. /\ mailbox' = mailbox /\ handling' = handling /\ rows' = rows /\ stale' = stale
      /\ phase' = phase /\ tally' = tally /\ current' = current /\ cancels' = cancels
      /\ Post' = Post
  BY DEF db, clients, Post
<1>1. \A p \in Procs : Body(p) \in Callers /\ Cleanup(p) \in Callers
  BY CallersOf
<1>2. \A m \in Post : m.caller \in Callers
  BY PostTyped DEF IInv
<1>3. \A c \in Callers : /\ call[c].pc = "wait" => call'[c] = call[c]
                         /\ call'[c].pc = "wait" => call'[c] = call[c]
                         /\ call[c].pc = "idle" => call'[c] = call[c]
                         /\ call'[c].pc = "idle" => call'[c] = call[c]
                         /\ call'[c].pc = "ok" => call'[c] = call[c]
                         /\ call'[c].op = call[c].op /\ call'[c].target = call[c].target
                         /\ call'[c].flag = call[c].flag
  BY DEF GoesOn
<1>4. Mail'
  <2>1. \A c : InBox(c)' <=> InBox(c)
    BY <1>0 DEF InBox
  <2>2. \A c \in Callers : call'[c].pc = "wait" => InBox(c)
    BY <1>3 DEF Mail
  <2>3. \A m \in Post : call'[m.caller].pc = "wait" =>
            /\ call'[m.caller].op = m.op /\ call'[m.caller].target = m.target
            /\ call'[m.caller].flag = m.flag
    BY <1>2, <1>3 DEF Mail
  <2>4. \A p \in Procs :
            /\ InBox(Body(p)) => \/ call'[Body(p)].pc = "wait"
                                 \/ call'[Body(p)].pc = "idle" /\ phase[p] \in Over
            /\ InBox(Cleanup(p)) => \/ call'[Cleanup(p)].pc = "wait"
                                    \/ call'[Cleanup(p)].pc = "idle" /\ phase[p] \in Ended
    BY <1>1, <1>3 DEF Mail
  <2> QED
    BY <1>0, <2>1, <2>2, <2>3, <2>4 DEF Mail
<1>5. Desk'
  BY <1>0, <1>1, <1>3 DEF Desk, Asks
<1>6. Turns'
  BY <1>0 DEF Turns
<1>7. Letters'
  BY <1>0, <1>1, <1>2, <1>3 DEF Letters
<1>8. ASSUME NEW p \in Procs, faults' = 0, Pending(Cleanup(p)) PROVE Pending(Cleanup(p))'
  <2>1. call'[Cleanup(p)] = call[Cleanup(p)] \/ call'[Cleanup(p)].pc \in {"get", "send", "err"}
    BY <1>1 DEF GoesOn
  <2>2. CASE call'[Cleanup(p)].pc = "err"
    <3>1. call'[Cleanup(p)].op = "WriteTagsOutput"
      BY <1>1, <1>8, <2>2 DEF Healthy
    <3>2. call'[Cleanup(p)].op = "RemoveIncompleteJobs"
      BY <1>5, <2>2 DEF Desk
    <3> QED
      BY <3>1, <3>2
  <2> QED
    BY <1>8, <2>1, <2>2 DEF Pending
<1>9. Abandoned'
  BY <1>0, <1>8 DEF Abandoned
<1>10. RowsHeld'
  <2>1. ASSUME cancels = 0, NEW p \in Procs, AtWork(p)' PROVE rows[p] = "unfinished"
    <3>1. AtWork(p)
      BY <1>0, <1>1, <1>3, <2>1 DEF AtWork
    <3> QED
      BY <2>1, <3>1 DEF RowsHeld, AtWork
  <2>2. ASSUME faults' = 0, NEW p \in Procs, rows[p] = "unfinished" PROVE Stays(p)'
    BY <1>0, <1>8, <2>2 DEF RowsHeld, Stays
  <2>3. ASSUME faults' = 0, NEW p \in Procs,
               phase[p] = "finish", Replied(Body(p))', ~Systemic(tally[p])
        PROVE  rows[p] # "unfinished"
    <3>1. CASE call'[Body(p)] = call[Body(p)]
      BY <2>3, <3>1 DEF RowsHeld, Replied
    <3>2. CASE call'[Body(p)].pc = "err"
      <4>1. call'[Body(p)].op = "WriteTagsOutput"
        BY <1>1, <2>3, <3>2 DEF Healthy
      <4>2. call'[Body(p)].op = "UpdateDataLog"
        BY <1>0, <1>5, <2>3, <3>2 DEF Desk, Asks
      <4> QED
        BY <4>1, <4>2
    <3> QED
      BY <1>1, <2>3, <3>1, <3>2 DEF GoesOn, Replied
  <2> QED
    BY <1>0, <2>1, <2>2, <2>3 DEF RowsHeld, AtWork, Stays
<1>11. CalmSkipIsSafe'
  BY <1>0 DEF CalmSkipIsSafe, SkipIsSafe
<1> QED
  BY <1>4, <1>5, <1>6, <1>7, <1>9, <1>10, <1>11

(* The supervisor answers a call.                                          *)
LEMMA GetWriterKeeps ==
    ASSUME JInv, TypeOK', IInv', NEW c \in Callers, GetWriter(c)
    PROVE  JInv'
<1>1. UNCHANGED <<db, mailbox, handling, clients, cancels, faults>> /\ call[c].pc = "get"
  BY DEF GetWriter
<1>2. call \in [Callers -> CallState] /\ call[c] \in CallState /\ gen \in Nat
  BY DEF JInv, IInv, TypeOK
<1>3. /\ call'[c].pc \in {"send", "err"}
      /\ call'[c].op = call[c].op /\ call'[c].target = call[c].target
      /\ call'[c].flag = call[c].flag
      /\ \A d \in Callers : d # c => call'[d] = call[d]
  <2>1. \E s : /\ call' = [call EXCEPT ![c] = s]
               /\ \/ s = [call[c] EXCEPT !.pc = "send", !.gen = gen]
                  \/ s = [call[c] EXCEPT !.pc = "send", !.gen = gen + 1]
                  \/ s = [call[c] EXCEPT !.pc = "err"]
    BY DEF GetWriter
  <2>2. PICK s : /\ call' = [call EXCEPT ![c] = s]
                 /\ \/ s = [call[c] EXCEPT !.pc = "send", !.gen = gen]
                    \/ s = [call[c] EXCEPT !.pc = "send", !.gen = gen + 1]
                    \/ s = [call[c] EXCEPT !.pc = "err"]
    BY <2>1
  <2>3. call'[c] = s /\ \A d \in Callers : d # c => call'[d] = call[d]
    BY <1>2, <2>2
  <2>4. s.pc \in {"send", "err"} /\ s.op = call[c].op /\ s.target = call[c].target
           /\ s.flag = call[c].flag
    BY <1>2, <2>2 DEF CallState
  <2> QED
    BY <2>3, <2>4
<1>4. \A d \in Callers : GoesOn(d)
  BY <1>1, <1>3 DEF GoesOn
<1>5. writer' \in {"none", "dying"} => mailbox = <<>> /\ handling = None
  BY DEF GetWriter, Spawn, JInv, Mail
<1>6. Healthy'
  <2> SUFFICES ASSUME faults = 0 PROVE Healthy'
    BY <1>1 DEF Healthy
  <2>1. /\ writer \in {"none", "up"}
        /\ known <=> writer = "up"
        /\ \A d \in Callers : /\ call[d].pc = "send" => Reachable(d)
                              /\ call[d].pc = "err" => call[d].op = "WriteTagsOutput"
    BY DEF JInv, Healthy
  <2>2. CASE HandsOut(c)
    <3>1. /\ writer = "up" /\ known
          /\ UNCHANGED <<writer, gen, latch, known>>
          /\ call' = [call EXCEPT ![c] = [@ EXCEPT !.pc = "send", !.gen = gen]]
      BY <2>1, <2>2 DEF HandsOut, GetWriter
    <3>2. call'[c].pc = "send" /\ call'[c].gen = gen
      BY <1>2, <3>1 DEF CallState
    <3>3. \A d \in Callers : call'[d].pc = "send" => Reachable(d)'
      BY <1>3, <2>1, <3>1, <3>2 DEF Reachable
    <3>4. \A d \in Callers : call'[d].pc = "err" => call'[d].op = "WriteTagsOutput"
      BY <1>3, <2>1, <3>2
    <3> QED
      BY <1>1, <2>1, <3>1, <3>3, <3>4 DEF Healthy
  <2>3. CASE ~HandsOut(c)
    <3>1. writer = "none"
      BY <2>1, <2>3 DEF HandsOut
    <3>2. /\ writer' = "up" /\ gen' = gen + 1 /\ known'
          /\ call' = [call EXCEPT ![c] = [@ EXCEPT !.pc = "send", !.gen = gen + 1]]
      BY <2>3, <3>1 DEF GetWriter, Spawn
    <3>3. call'[c].pc = "send" /\ call'[c].gen = gen + 1
      BY <1>2, <3>2 DEF CallState
    <3>4. \A d \in Callers : d # c => call[d].pc # "send"
      BY <2>1, <3>1 DEF Reachable
    <3>5. \A d \in Callers : call'[d].pc = "send" => Reachable(d)'
      BY <1>3, <3>2, <3>3, <3>4 DEF Reachable
    <3>6. \A d \in Callers : call'[d].pc = "err" => call'[d].op = "WriteTagsOutput"
      BY <1>3, <2>1, <3>3
    <3> QED
      BY <1>1, <3>2, <3>5, <3>6 DEF Healthy
  <2> QED
    BY <2>2, <2>3
<1> QED
  BY <1>1, <1>4, <1>5, <1>6, GoingOnKeeps

(* The supervisor's own steps, and the writer's unregistering.             *)
LEMMA SupervisionKeeps ==
    ASSUME JInv, TypeOK', IInv', HealthCheck \/ WriterGone \/ SupervisorPanics
    PROVE  JInv'
<1>1. UNCHANGED <<db, mailbox, handling, clients, cancels>>
  BY DEF HealthCheck, WriterGone, SupervisorPanics
<1>2. faults \in Nat /\ call \in [Callers -> CallState]
  BY DEF JInv, IInv, TypeOK
<1>3. faults' # 0
  <2>1. faults + 1 # 0
    BY <1>2
  <2>2. \/ faults' = faults + 1
        \/ faults' = faults /\ (writer = "dying" \/ (known /\ writer # "up"))
    BY DEF HealthCheck, WriterGone, SupervisorPanics
  <2>3. faults = 0 => writer \in {"none", "up"} /\ (known <=> writer = "up")
    BY DEF JInv, Healthy
  <2> QED
    BY <2>1, <2>2, <2>3
<1>4. writer' \in {"none", "dying"} => mailbox = <<>> /\ handling = None
  BY DEF HealthCheck, WriterGone, SupervisorPanics, JInv, Mail
<1>5. \A c \in Callers : GoesOn(c)
  <2>1. CASE call' = call
    BY <2>1 DEF GoesOn
  <2>2. CASE SupervisorPanics
    <3>1. PICK lost \in SUBSET {c \in Callers : call[c].pc = "get"} :
              call' = [c \in Callers |->
                          IF c \in lost THEN [call[c] EXCEPT !.pc = "err"] ELSE call[c]]
      BY <2>2 DEF SupervisorPanics
    <3>2. \A c \in Callers : c \in lost => call[c].pc = "get"
      BY <3>1
    <3>3. ASSUME NEW c \in Callers PROVE GoesOn(c)
      <4>1. call[c] \in CallState
        BY <1>2
      <4>2. call'[c] = IF c \in lost THEN [call[c] EXCEPT !.pc = "err"] ELSE call[c]
        BY <3>1
      <4> QED
        BY <3>2, <4>1, <4>2 DEF GoesOn, CallState
    <3> QED
      BY <3>3
  <2> QED
    BY <2>1, <2>2 DEF HealthCheck, WriterGone
<1>6. Healthy'
  BY <1>3 DEF Healthy
<1> QED
  BY <1>1, <1>3, <1>4, <1>5, <1>6, GoingOnKeeps

(* An attempt that finds the writer dead starts over, or fails.            *)
LEMMA LostSendKeeps ==
    ASSUME JInv, TypeOK', IInv', NEW c \in Callers, SendMessage(c), ~Reachable(c)
    PROVE  JInv'
<1>1. /\ UNCHANGED <<db, mailbox, handling, clients, cancels, faults, writer>>
      /\ call[c].pc = "send" /\ call' = [call EXCEPT ![c] = Again(@)]
  BY DEF SendMessage
<1>2. call \in [Callers -> CallState] /\ call[c] \in CallState
  BY DEF JInv, IInv, TypeOK
<1>3. faults' # 0
  BY <1>1 DEF JInv, Healthy
<1>4. writer' \in {"none", "dying"} => mailbox = <<>> /\ handling = None
  BY <1>1 DEF JInv, Mail
<1>5. /\ call'[c] = Again(call[c])
      /\ \A d \in Callers : d # c => call'[d] = call[d]
  BY <1>1, <1>2
<1>6. /\ Again(call[c]).pc \in {"get", "err"} /\ Again(call[c]).op = call[c].op
      /\ Again(call[c]).target = call[c].target /\ Again(call[c]).flag = call[c].flag
  BY <1>2 DEF Again, CallState
<1>7. \A d \in Callers : GoesOn(d)
  BY <1>1, <1>5, <1>6 DEF GoesOn
<1>8. Healthy'
  BY <1>3 DEF Healthy
<1> QED
  BY <1>1, <1>3, <1>4, <1>7, <1>8, GoingOnKeeps

(* A message that reaches the mailbox is the caller's only one.            *)
LEMMA SendKeeps ==
    ASSUME JInv, TypeOK', IInv', NEW c \in Callers, SendMessage(c), Reachable(c)
    PROVE  JInv'
<1> DEFINE msg == [caller |-> c, op |-> call[c].op, target |-> call[c].target,
                   flag |-> call[c].flag]
           n == Len(mailbox)
<1> USE DEF JInv
<1>0. TypeOK /\ mailbox \in Seq(Message) /\ call \in [Callers -> CallState]
  BY DEF IInv, TypeOK
<1>1. /\ mailbox' = Append(mailbox, msg)
      /\ call[c].pc = "send" /\ call' = [call EXCEPT ![c] = [@ EXCEPT !.pc = "wait"]]
      /\ writer' = writer /\ gen' = gen /\ known' = known /\ handling' = handling
      /\ rows' = rows /\ stale' = stale /\ phase' = phase /\ tally' = tally
      /\ current' = current /\ cancels' = cancels /\ faults' = faults
  BY DEF SendMessage, db, clients
<1>2. msg.caller = c /\ msg.op = call[c].op /\ msg.target = call[c].target
         /\ msg.flag = call[c].flag
  OBVIOUS
<1>3. /\ n \in Nat /\ Len(mailbox') = n + 1
      /\ \A i \in 1..n : mailbox'[i] = mailbox[i]
      /\ mailbox'[n + 1] = msg
      /\ \A i \in 1..Len(mailbox') : i \in 1..n \/ i = n + 1
  BY <1>0, <1>1
<1> HIDE DEF msg, n
<1>4. Post' = Post \cup {msg}
  <2>1. {mailbox'[i] : i \in 1..Len(mailbox')} = {mailbox[i] : i \in 1..Len(mailbox)} \cup {msg}
    <3>1. \A i \in 1..Len(mailbox) : i \in 1..Len(mailbox')
      BY <1>3 DEF n
    <3>2. n + 1 \in 1..Len(mailbox')
      BY <1>3
    <3> QED
      BY <1>3, <3>1, <3>2 DEF n
  <2> QED
    BY <1>1, <2>1 DEF Post
<1>5. /\ call'[c].pc = "wait" /\ call'[c].op = call[c].op
      /\ call'[c].target = call[c].target /\ call'[c].flag = call[c].flag
      /\ \A d \in Callers : d # c => call'[d] = call[d]
  BY <1>0, <1>1 DEF CallState
<1>6. /\ \A p \in Procs : Body(p) \in Callers /\ Cleanup(p) \in Callers
      /\ \A m \in Post : m.caller \in Callers
  BY <1>0, CallersOf, PostTyped
<1>7. ~InBox(c)
  BY <1>1, CallerKinds DEF Mail
<1>8. /\ \A m \in Post : m.caller # c
      /\ \A i \in 1..n : mailbox[i].caller # c
      /\ handling # None => handling.caller # c
  BY <1>7 DEF InBox, Post, n
<1>9. \A d : InBox(d)' <=> InBox(d) \/ d = c
  BY <1>2, <1>4 DEF InBox
<1>10. \A p \in Procs : c = Body(p) => ~InBox(Cleanup(p))
  <2>1. ASSUME NEW p \in Procs, c = Body(p), InBox(Cleanup(p)) PROVE FALSE
    <3>1. Asks(p, call[c])
      BY <1>1, <2>1 DEF Desk
    <3>2. phase[p] \in {"failing", "cancelled"} \cup Ended
      BY <2>1 DEF Mail, Desk
    <3> QED
      BY <3>1, <3>2 DEF Asks, Ended
  <2> QED
    BY <2>1
<1>11. \A p \in Procs : /\ c = Body(p) => Asks(p, call[c])
                        /\ c = Cleanup(p) => call[c].op = "RemoveIncompleteJobs"
  BY <1>1 DEF Desk
<1>12. Mail'
  <2>1. \A i, j \in 1..Len(mailbox') : mailbox'[i].caller = mailbox'[j].caller => i = j
    <3>1. \A i, j \in 1..n : mailbox[i].caller = mailbox[j].caller => i = j
      BY DEF Mail, n
    <3> QED
      BY <1>2, <1>3, <1>8, <3>1
  <2>2. handling # None => \A i \in 1..Len(mailbox') : mailbox'[i].caller # handling.caller
    <3>1. handling # None => \A i \in 1..n : mailbox[i].caller # handling.caller
      BY DEF Mail, n
    <3> QED
      BY <1>2, <1>3, <1>8, <3>1
  <2>3. \A d \in Callers : call'[d].pc = "wait" => InBox(d)'
    BY <1>5, <1>9 DEF Mail
  <2>4. \A m \in Post' : call'[m.caller].pc = "wait" =>
            /\ call'[m.caller].op = m.op /\ call'[m.caller].target = m.target
            /\ call'[m.caller].flag = m.flag
    BY <1>2, <1>4, <1>5, <1>6, <1>8 DEF Mail
  <2>5. \A p \in Procs :
            /\ InBox(Body(p))' => \/ call'[Body(p)].pc = "wait"
                                  \/ call'[Body(p)].pc = "idle" /\ phase[p] \in Over
            /\ InBox(Cleanup(p))' => \/ call'[Cleanup(p)].pc = "wait"
                                     \/ call'[Cleanup(p)].pc = "idle" /\ phase[p] \in Ended
    BY <1>5, <1>6, <1>9 DEF Mail
  <2>6. writer \notin {"none", "dying"}
    BY DEF Reachable
  <2> QED
    BY <1>1, <2>1, <2>2, <2>3, <2>4, <2>5, <2>6 DEF Mail
<1>13. Desk'
  <2>1. \A d \in Callers : /\ call'[d].pc # "idle" => call[d].pc # "idle"
                           /\ call'[d].op = call[d].op /\ call'[d].target = call[d].target
                           /\ call'[d].flag = call[d].flag
    BY <1>1, <1>5
  <2>2. \A p \in Procs : Asks(p, call[Body(p)]) => Asks(p, call[Body(p)])'
    BY <1>1, <1>6, <2>1 DEF Asks
  <2> QED
    BY <1>1, <1>6, <2>1, <2>2 DEF Desk
<1>14. Turns'
  BY <1>1 DEF Turns
<1>15. Letters'
  <2>1. ASSUME NEW m \in Post', NEW p \in Procs
        PROVE  /\ m.caller = Cleanup(p) => m.op = "RemoveIncompleteJobs"
               /\ m.caller = Body(p) /\ m.op \in {"AddDataLog", "WriteTagsOutput", "UpdateDataLog"}
                      => m.target = p
               /\ cancels = 0 /\ m.caller = Cleanup(p) => call'[m.caller].pc = "wait"
               /\ cancels = 0 /\ m.caller = Body(p) =>
                      call'[m.caller].pc = "wait" \/ m.op = "WriteTagsOutput"
    <3>1. CASE m = msg
      BY <1>2, <1>5, <1>11, <3>1 DEF Asks
    <3>2. CASE m \in Post
      BY <1>5, <1>6, <1>8, <3>2 DEF Letters
    <3> QED
      BY <1>4, <3>1, <3>2
  <2>2. ASSUME NEW p \in Procs, NEW i \in 1..Len(mailbox'), NEW j \in 1..Len(mailbox'),
               mailbox'[i].caller = Cleanup(p), mailbox'[j].caller = Body(p)
        PROVE  j < i
    <3>1. CASE i \in 1..n /\ j \in 1..n
      BY <1>3, <2>2, <3>1 DEF Letters, n
    <3>2. CASE i \in 1..n /\ j = n + 1
      <4>1. c = Body(p) /\ mailbox[i].caller = Cleanup(p)
        BY <1>2, <1>3, <2>2, <3>2
      <4>2. InBox(Cleanup(p))
        BY <3>2, <4>1 DEF InBox, Post, n
      <4> QED
        BY <1>10, <4>1, <4>2
    <3>3. CASE i = n + 1 /\ j \in 1..n
      BY <1>3, <3>3
    <3>4. CASE i = n + 1 /\ j = n + 1
      BY <2>2, <3>4, CallerKinds
    <3> QED
      BY <1>3, <3>1, <3>2, <3>3, <3>4
  <2>3. ASSUME NEW p \in Procs, handling # None, handling.caller = Cleanup(p),
               NEW j \in 1..Len(mailbox')
        PROVE  mailbox'[j].caller # Body(p)
    <3>1. CASE j \in 1..n
      BY <1>3, <2>3, <3>1 DEF Letters, n
    <3>2. CASE j = n + 1
      <4>1. InBox(Cleanup(p))
        BY <2>3 DEF InBox, Post
      <4> QED
        BY <1>2, <1>3, <1>10, <3>2, <4>1
    <3> QED
      BY <1>3, <3>1, <3>2
  <2> QED
    BY <1>1, <2>1, <2>2, <2>3 DEF Letters
<1>16. Healthy'
  <2>1. \A d \in Callers : call'[d].pc \in {"send", "err"} => call'[d] = call[d]
    BY <1>5
  <2>2. \A d \in Callers : call'[d] = call[d] => (Reachable(d)' <=> Reachable(d))
    BY <1>1 DEF Reachable
  <2> QED
    BY <1>1, <2>1, <2>2 DEF Healthy
<1>17. \A p \in Procs : Pending(Cleanup(p)) => Pending(Cleanup(p))'
  BY <1>5, <1>6 DEF Pending
<1>18. Abandoned'
  <2>1. ASSUME faults = 0, NEW m \in Post', NEW p \in Procs,
               m.caller = Body(p), m.op \in {"AddDataLog", "WriteTagsOutput"}
        PROVE  Covered(p)'
    <3>1. CASE m = msg
      <4>1. phase[p] \in {"log", "work"}
        BY <1>2, <1>11, <2>1, <3>1 DEF Asks
      <4> QED
        BY <1>1, <4>1 DEF Covered, Extracting
    <3>2. CASE m \in Post
      BY <1>1, <1>17, <2>1, <3>2 DEF Abandoned, Covered
    <3> QED
      BY <1>4, <3>1, <3>2
  <2> QED
    BY <1>1, <2>1 DEF Abandoned, Covered
<1>19. RowsHeld'
  <2>1. \A p \in Procs : /\ call'[Body(p)].pc = "ok" => call[Body(p)].pc = "ok"
                         /\ Replied(Body(p))' => Replied(Body(p))
    BY <1>5, <1>6 DEF Replied
  <2> QED
    BY <1>1, <1>17, <2>1 DEF RowsHeld
<1>20. CalmSkipIsSafe'
  BY <1>1 DEF CalmSkipIsSafe, SkipIsSafe
<1> QED
  BY <1>12, <1>13, <1>14, <1>15, <1>16, <1>18, <1>19, <1>20

(* The next message: the letters are the same, in the same order.          *)
LEMMA ReceiveKeeps ==
    ASSUME JInv, TypeOK', IInv', Receive
    PROVE  JInv'
<1> DEFINE n == Len(mailbox)
<1> USE DEF JInv
<1>0. TypeOK /\ mailbox \in Seq(Message)
  BY DEF IInv, TypeOK
<1>1. /\ mailbox # <<>> /\ handling = None /\ writer = "up"
      /\ handling' = Head(mailbox) /\ mailbox' = Tail(mailbox)
      /\ writer' = writer /\ gen' = gen /\ known' = known /\ call' = call
      /\ rows' = rows /\ stale' = stale /\ phase' = phase /\ tally' = tally
      /\ current' = current /\ cancels' = cancels /\ faults' = faults
  BY DEF Receive, db, clients
<1>2. /\ n \in Nat /\ n > 0 /\ Len(mailbox') = n - 1
      /\ handling' = mailbox[1]
      /\ \A i \in 1..(n - 1) : mailbox'[i] = mailbox[i + 1]
  BY <1>0, <1>1, HeadTailProperties, EmptySeq
<1>3. /\ 1 \in 1..n
      /\ \A i \in 1..(n - 1) : i + 1 \in 1..n /\ i + 1 # 1
      /\ \A i \in 1..n : i = 1 \/ (i - 1 \in 1..(n - 1) /\ (i - 1) + 1 = i)
  BY <1>2
<1>4. handling' \in Message /\ handling' # None
  BY <1>2, <1>3, <1>0, PostTyped, NoMessageAssumption
<1>5. Post' = Post
  <2>1. Post = {mailbox[i] : i \in 1..n}
    BY <1>1 DEF Post
  <2>2. Post' = {mailbox'[i] : i \in 1..(n - 1)} \cup {mailbox[1]}
    BY <1>2, <1>4 DEF Post
  <2>3. {mailbox'[i] : i \in 1..(n - 1)} \cup {mailbox[1]} \subseteq {mailbox[i] : i \in 1..n}
    BY <1>2, <1>3
  <2>4. ASSUME NEW i \in 1..n
        PROVE  mailbox[i] \in {mailbox'[j] : j \in 1..(n - 1)} \cup {mailbox[1]}
    <3>1. CASE i = 1
      BY <3>1
    <3>2. CASE i - 1 \in 1..(n - 1) /\ (i - 1) + 1 = i
      <4>1. mailbox[i] = mailbox'[i - 1]
        BY <1>2, <3>2
      <4> QED
        BY <3>2, <4>1
    <3> QED
      BY <1>3, <3>1, <3>2
  <2> QED
    BY <2>1, <2>2, <2>3, <2>4
<1> HIDE DEF n
<1>6. \A d : InBox(d)' <=> InBox(d)
  BY <1>5 DEF InBox
<1>7. Mail'
  <2>1. \A i, j \in 1..n : mailbox[i].caller = mailbox[j].caller => i = j
    BY DEF Mail, n
  <2>2. ASSUME NEW i \in 1..(n - 1), NEW j \in 1..(n - 1),
               mailbox'[i].caller = mailbox'[j].caller
        PROVE  i = j
    <3>1. i + 1 = j + 1
      BY <1>2, <1>3, <2>1, <2>2
    <3> QED
      BY <3>1
  <2>3. \A i \in 1..(n - 1) : mailbox'[i].caller # handling'.caller
    BY <1>2, <1>3, <2>1
  <2>4. \A i, j \in 1..Len(mailbox') : mailbox'[i].caller = mailbox'[j].caller => i = j
    BY <1>2, <2>2
  <2>5. \A i \in 1..Len(mailbox') : mailbox'[i].caller # handling'.caller
    BY <1>2, <2>3
  <2> QED
    BY <1>1, <1>5, <1>6, <2>4, <2>5 DEF Mail
<1>8. Desk'
  BY <1>1 DEF Desk, Asks
<1>9. Turns'
  BY <1>1 DEF Turns
<1>10. Letters'
  <2>1. \A p \in Procs, i, j \in 1..n :
            mailbox[i].caller = Cleanup(p) /\ mailbox[j].caller = Body(p) => j < i
    BY DEF Letters, n
  <2>2. ASSUME NEW p \in Procs, NEW i \in 1..(n - 1), NEW j \in 1..(n - 1),
               mailbox'[i].caller = Cleanup(p), mailbox'[j].caller = Body(p)
        PROVE  j < i
    <3>1. j + 1 < i + 1
      BY <1>2, <1>3, <2>1, <2>2
    <3> QED
      BY <3>1
  <2>3. ASSUME NEW p \in Procs, NEW j \in 1..(n - 1),
               mailbox[1].caller = Cleanup(p), mailbox[j + 1].caller = Body(p)
        PROVE  FALSE
    <3>1. j + 1 < 1
      BY <1>3, <2>1, <2>3
    <3> QED
      BY <3>1
  <2>4. \A p \in Procs, i, j \in 1..Len(mailbox') :
            mailbox'[i].caller = Cleanup(p) /\ mailbox'[j].caller = Body(p) => j < i
    BY <1>2, <2>2
  <2>5. \A p \in Procs : handling'.caller = Cleanup(p) =>
            \A j \in 1..Len(mailbox') : mailbox'[j].caller # Body(p)
    BY <1>2, <2>3
  <2>6. \A m \in Post', p \in Procs :
           /\ m.caller = Cleanup(p) => m.op = "RemoveIncompleteJobs"
           /\ m.caller = Body(p) /\ m.op \in {"AddDataLog", "WriteTagsOutput", "UpdateDataLog"}
                  => m.target = p
           /\ cancels = 0 /\ m.caller = Cleanup(p) => call[m.caller].pc = "wait"
           /\ cancels = 0 /\ m.caller = Body(p) =>
                  call[m.caller].pc = "wait" \/ m.op = "WriteTagsOutput"
    BY <1>5 DEF Letters
  <2> QED
    BY <1>1, <2>4, <2>5, <2>6 DEF Letters
<1>11. Healthy'
  BY <1>1 DEF Healthy, Reachable
<1>12. Abandoned'
  BY <1>1, <1>5 DEF Abandoned, Pending
<1>13. RowsHeld'
  BY <1>1 DEF RowsHeld, Pending, Replied
<1>14. CalmSkipIsSafe'
  BY <1>1 DEF CalmSkipIsSafe, SkipIsSafe
<1> QED
  BY <1>7, <1>8, <1>9, <1>10, <1>11, <1>12, <1>13, <1>14

(* A mailbox that is dropped leaves nobody waiting.                        *)
LEMMA DropKeeps ==
    ASSUME JInv, TypeOK', IInv', WriterStops \/ WriterPanics
    PROVE  JInv'
<1> USE DEF JInv
<1>1. /\ mailbox' = <<>> /\ handling' = None
      /\ rows' = rows /\ stale' = stale /\ phase' = phase /\ tally' = tally
      /\ current' = current /\ cancels' = cancels
      /\ \A c \in Callers : call'[c] = IF call[c].pc = "wait" THEN Again(call[c]) ELSE call[c]
  BY DEF WriterStops, WriterPanics, DropMailbox, db, clients
<1>2. faults' # 0
  <2>1. faults \in Nat
    BY DEF IInv, TypeOK
  <2>2. faults' = faults + 1 \/ (faults' = faults /\ writer = "stopping")
    BY DEF WriterStops, WriterPanics
  <2>3. faults = 0 => writer # "stopping"
    BY DEF Healthy
  <2> QED
    BY <2>1, <2>2, <2>3
<1>3. Post' = {} /\ \A i \in 1..Len(mailbox') : FALSE
  <2>1. Len(mailbox') = 0
    BY <1>1
  <2>2. \A i \in 1..Len(mailbox') : FALSE
    BY <2>1
  <2> QED
    BY <1>1, <2>2 DEF Post
<1>4. \A c \in Callers :
          /\ call'[c].pc # "wait"
          /\ call'[c].op = call[c].op /\ call'[c].target = call[c].target
          /\ call'[c].flag = call[c].flag
          /\ call'[c].pc # "idle" => call[c].pc # "idle"
          /\ call'[c].pc = "ok" => call[c].pc = "ok"
  <2>1. ASSUME NEW c \in Callers
        PROVE  /\ Again(call[c]).pc \in {"get", "err"} /\ Again(call[c]).op = call[c].op
               /\ Again(call[c]).target = call[c].target /\ Again(call[c]).flag = call[c].flag
    <3>1. call[c] \in CallState
      BY DEF IInv, TypeOK
    <3> QED
      BY <3>1 DEF Again, CallState
  <2> QED
    BY <1>1, <2>1
<1>5. \A p \in Procs : Body(p) \in Callers /\ Cleanup(p) \in Callers
  BY CallersOf
<1>6. Mail'
  <2>1. \A d : ~InBox(d)'
    BY <1>3 DEF InBox
  <2> QED
    BY <1>1, <1>3, <1>4, <2>1 DEF Mail
<1>7. Desk'
  <2>1. \A p \in Procs : Asks(p, call[Body(p)]) => Asks(p, call[Body(p)])'
    BY <1>1, <1>4, <1>5 DEF Asks
  <2> QED
    BY <1>1, <1>4, <1>5, <2>1 DEF Desk
<1>8. Turns'
  BY <1>1 DEF Turns
<1>9. Letters'
  BY <1>1, <1>3 DEF Letters
<1>10. Healthy' /\ Abandoned' /\ CalmSkipIsSafe'
  BY <1>2 DEF Healthy, Abandoned, CalmSkipIsSafe
<1>11. RowsHeld'
  BY <1>1, <1>2, <1>4, <1>5 DEF RowsHeld
<1> QED
  BY <1>6, <1>7, <1>8, <1>9, <1>10, <1>11

(* A process that starts again awaits nothing.                             *)
LEMMA CrashKeeps ==
    ASSUME JInv, TypeOK', IInv', Crash
    PROVE  JInv'
<1> USE DEF JInv
<1>1. /\ mailbox' = <<>> /\ handling' = None
      /\ rows' = rows /\ stale' = stale /\ current' = None /\ cancels' = cancels
      /\ \A c \in Callers : call'[c] = NoCall
      /\ \A p \in Procs :
             phase'[p] = IF phase[p] \in Ended \cup {"new"} THEN phase[p] ELSE "crashed"
  BY DEF Crash, db
<1>2. faults' # 0
  BY DEF Crash, IInv, TypeOK
<1>3. Post' = {} /\ \A i \in 1..Len(mailbox') : FALSE
  <2>1. Len(mailbox') = 0
    BY <1>1
  <2>2. \A i \in 1..Len(mailbox') : FALSE
    BY <2>1
  <2> QED
    BY <1>1, <2>2 DEF Post
<1>4. \A p \in Procs : /\ call'[Body(p)].pc = "idle" /\ call'[Cleanup(p)].pc = "idle"
                       /\ phase'[p] \in Ended \cup {"new"}
                       /\ phase'[p] # "crashed" => phase'[p] = phase[p]
  BY <1>1, CallersOf DEF NoCall, Ended
<1>5. Mail'
  <2>1. \A d : ~InBox(d)'
    BY <1>3 DEF InBox
  <2> QED
    BY <1>1, <1>3, <2>1 DEF Mail, NoCall
<1>6. Desk'
  BY <1>4 DEF Desk
<1>7. Turns'
  BY <1>1, <1>4, NoneAssumption DEF Turns, JobPhases, Extracting, Ended
<1>8. Letters'
  BY <1>1, <1>3 DEF Letters
<1>9. Healthy' /\ Abandoned' /\ CalmSkipIsSafe'
  BY <1>2 DEF Healthy, Abandoned, CalmSkipIsSafe
<1>10. RowsHeld'
  BY <1>2, <1>4 DEF RowsHeld, Ended
<1> QED
  BY <1>5, <1>6, <1>7, <1>8, <1>9, <1>10

-----------------------------------------------------------------------------
(* The handlers, by what they may do to the rows, the counts and the call. *)

TagOps == {"RemoveIncompleteJobs", "WriteTagsOutput", "DeleteJobData",
           "DeleteSetterData", "DeleteItems"}

Effects(result) ==
    /\ faults' = 0 => faults = 0 /\ (result = "err" => handling.op = "WriteTagsOutput")
    /\ \A p \in Procs : rows'[p] = "unfinished" /\ rows[p] # "unfinished" =>
           handling.op = "AddDataLog" /\ handling.target = p
    /\ \A p \in Procs : rows'[p] # "unfinished" /\ rows[p] = "unfinished" =>
           \/ handling.op \in {"RemoveIncompleteJobs", "DeleteJobData"}
           \/ handling.op = "UpdateDataLog"
    /\ stale' => stale \/ handling.op \in TagOps
    /\ result = "ok" =>
           /\ handling.op = "RemoveIncompleteJobs" => \A p \in Procs : rows'[p] # "unfinished"
           /\ handling.op = "AddDataLog" => rows'[handling.target] = "unfinished"
           /\ handling.op = "UpdateDataLog" /\ handling.flag =>
                  rows'[handling.target] # "unfinished"

(* Every handler replies, and does no more than that.                      *)
LEMMA HandlersDo ==
    ASSUME IInv, Handle \/ TransactionFails
    PROVE  handling # None /\ \E result \in {"ok", "err"} : Reply(result) /\ Effects(result)
<1> USE DEF Handles, Effects, TagOps
<1>0. /\ rows \in [Procs -> Rows] /\ handling \in Message \cup {None} /\ faults \in Nat
      /\ faults + 1 # 0
  BY DEF IInv, TypeOK
<1>h. handling # None => handling \in Message
  BY <1>0
<1>1. CASE RemoveIncompleteJobs
  BY <1>1, <1>0 DEF RemoveIncompleteJobs, DeleteRows, MarkIncomplete, Unfinished
<1>2. CASE AddDataLog
  <2>1. handling.target \in Procs
    BY <1>2, <1>h DEF AddDataLog, Message, RowOps
  <2> QED
    BY <1>2, <1>0, <2>1 DEF AddDataLog
<1>3. CASE WriteTagsOutput
  BY <1>3, <1>0 DEF WriteTagsOutput
<1>4. CASE UpdateDataLog
  <2>1. handling.target \in Procs
    BY <1>4, <1>h DEF UpdateDataLog, Message, RowOps
  <2> QED
    BY <1>4, <1>0, <2>1 DEF UpdateDataLog
<1>5. CASE DeleteJobData
  BY <1>5, <1>0 DEF DeleteJobData, DeleteRows
<1>6. CASE DeleteSetterData
  BY <1>6, <1>0 DEF DeleteSetterData
<1>7. CASE DeleteItems
  BY <1>7, <1>0 DEF DeleteItems
<1>8. CASE RecountTagItems
  BY <1>8, <1>0 DEF RecountTagItems
<1>9. CASE MarkTagsDirty
  BY <1>9, <1>0 DEF MarkTagsDirty
<1>10. CASE TransactionFails
  BY <1>10, <1>0 DEF TransactionFails, db
<1> QED
  BY <1>1, <1>2, <1>3, <1>4, <1>5, <1>6, <1>7, <1>8, <1>9, <1>10 DEF Handle

(* A handler answers one message, which its caller awaits or has given up. *)
LEMMA HandlersKeep ==
    ASSUME JInv, TypeOK', IInv', Handle \/ TransactionFails
    PROVE  JInv'
<1> DEFINE m == handling
<1>i. IInv /\ Mail /\ Desk /\ Turns /\ Letters /\ Healthy /\ Abandoned /\ RowsHeld
         /\ CalmSkipIsSafe
  BY DEF JInv
<1>0. TypeOK /\ call \in [Callers -> CallState]
  BY <1>i DEF IInv, TypeOK
<1>1. m # None /\ m \in Post
  BY <1>i, HandlersDo DEF Post
<1>2. PICK result \in {"ok", "err"} : Reply(result) /\ Effects(result)
  BY <1>i, HandlersDo
<1>3. /\ handling' = None /\ writer' = writer /\ gen' = gen /\ mailbox' = mailbox
      /\ known' = known /\ phase' = phase /\ tally' = tally /\ current' = current
      /\ cancels' = cancels
  BY <1>2 DEF Reply, clients
<1>4. /\ m \in Message /\ m.caller \in Callers
      /\ \A x \in Post : x.caller \in Callers
      /\ \A p \in Procs : Body(p) \in Callers /\ Cleanup(p) \in Callers
      /\ \E p \in Procs : m.caller = Body(p) \/ m.caller = Cleanup(p)
      /\ \A p, q \in Procs : /\ Body(p) # Cleanup(q)
                             /\ Body(p) = Body(q) => p = q
                             /\ Cleanup(p) = Cleanup(q) => p = q
  BY <1>0, <1>1, PostTyped, CallersOf, CallerKinds
<1>5. /\ \A c \in Callers : c # m.caller => call'[c] = call[c]
      /\ call[m.caller].pc # "wait" => call'[m.caller] = call[m.caller]
      /\ call[m.caller].pc = "wait" =>
             /\ call'[m.caller].pc = result
             /\ call'[m.caller].op = call[m.caller].op
             /\ call'[m.caller].target = call[m.caller].target
             /\ call'[m.caller].flag = call[m.caller].flag
  <2>1. call[m.caller] \in CallState
    BY <1>0, <1>4
  <2> QED
    BY <1>0, <1>2, <1>4, <2>1 DEF Reply, CallState
<1>6. /\ Post' = {mailbox[i] : i \in 1..Len(mailbox)}
      /\ Post = Post' \cup {m}
      /\ \A x \in Post' : x \in Post /\ x.caller # m.caller /\ call'[x.caller] = call[x.caller]
  <2>1. Post' = {mailbox[i] : i \in 1..Len(mailbox)}
    BY <1>3 DEF Post
  <2>2. \A i \in 1..Len(mailbox) : mailbox[i].caller # m.caller
    BY <1>1, <1>i DEF Mail
  <2>3. Post = Post' \cup {m}
    BY <1>1, <2>1 DEF Post
  <2>4. \A x \in Post' : x \in Post /\ x.caller # m.caller
    BY <2>1, <2>2, <2>3
  <2> QED
    BY <1>4, <1>5, <2>1, <2>3, <2>4
<1>7. \A c : /\ InBox(c)' => InBox(c) /\ c # m.caller /\ call'[c] = call[c]
             /\ InBox(c) /\ c # m.caller => InBox(c)'
  BY <1>6 DEF InBox
(* The call the message stands for, unless its caller gave it up.          *)
<1>8. call[m.caller].pc = "wait" =>
          /\ call[m.caller].op = m.op /\ call[m.caller].target = m.target
          /\ call[m.caller].flag = m.flag
  BY <1>1, <1>i DEF Mail
<1>9. Mail'
  <2>1. \A c \in Callers : call'[c].pc = "wait" => c # m.caller /\ call'[c] = call[c]
    BY <1>5
  <2>2. \A c \in Callers : call'[c].pc = "wait" => InBox(c)'
    BY <1>7, <1>i, <2>1 DEF Mail
  <2>3. \A x \in Post' : call'[x.caller].pc = "wait" =>
            /\ call'[x.caller].op = x.op /\ call'[x.caller].target = x.target
            /\ call'[x.caller].flag = x.flag
    BY <1>6, <1>i DEF Mail
  <2>4. \A p \in Procs :
            /\ InBox(Body(p))' => \/ call'[Body(p)].pc = "wait"
                                  \/ call'[Body(p)].pc = "idle" /\ phase[p] \in Over
            /\ InBox(Cleanup(p))' => \/ call'[Cleanup(p)].pc = "wait"
                                     \/ call'[Cleanup(p)].pc = "idle" /\ phase[p] \in Ended
    BY <1>7, <1>i DEF Mail
  <2> QED
    BY <1>3, <1>i, <2>2, <2>3, <2>4 DEF Mail
<1>10. Desk'
  <2>1. \A c \in Callers : /\ call'[c].pc # "idle" => call[c].pc # "idle"
                           /\ call'[c].op = call[c].op /\ call'[c].target = call[c].target
                           /\ call'[c].flag = call[c].flag
    BY <1>5
  <2>2. \A p \in Procs : Asks(p, call[Body(p)]) => Asks(p, call[Body(p)])'
    BY <1>3, <1>4, <2>1 DEF Asks
  <2> QED
    BY <1>3, <1>4, <1>i, <2>1, <2>2 DEF Desk
<1>11. Turns'
  BY <1>3, <1>i DEF Turns
<1>12. Letters'
  BY <1>3, <1>6, <1>i DEF Letters
<1>13. faults' = 0 => faults = 0 /\ (result = "err" => m.op = "WriteTagsOutput")
  BY <1>2 DEF Effects
<1>14. Healthy'
  <2>1. \A c \in Callers : call'[c].pc = "send" => call'[c] = call[c]
    BY <1>5
  <2>2. \A c \in Callers : call'[c] = call[c] => (Reachable(c)' <=> Reachable(c))
    BY <1>3 DEF Reachable
  <2>3. faults' = 0 => \A c \in Callers : call'[c].pc = "err" => call'[c].op = "WriteTagsOutput"
    BY <1>5, <1>8, <1>13, <1>i DEF Healthy
  <2> QED
    BY <1>3, <1>13, <1>i, <2>1, <2>2, <2>3 DEF Healthy
<1>15. \A p \in Procs : m.caller # Cleanup(p) /\ Pending(Cleanup(p)) => Pending(Cleanup(p))'
  BY <1>4, <1>5 DEF Pending
<1>16. Abandoned'
  <2>1. ASSUME faults' = 0, NEW x \in Post', NEW p \in Procs,
               x.caller = Body(p), x.op \in {"AddDataLog", "WriteTagsOutput"}
        PROVE  Covered(p)'
    <3>1. Covered(p)
      BY <1>6, <1>13, <1>i, <2>1 DEF Abandoned, Covered
    <3>2. m.caller # Cleanup(p)
      BY <1>1, <1>6, <1>i, <2>1 DEF Letters
    <3> QED
      BY <1>3, <1>15, <3>1, <3>2 DEF Covered
  <2> QED
    BY <2>1 DEF Abandoned, Covered
(* A cleanup in the box, with nothing cancelled, is that of the job that   *)
(* fails; a message of a body is that of a job where it stands.            *)
<1>17. ASSUME NEW q \in Procs, cancels = 0, m.caller = Cleanup(q)
       PROVE  current = q /\ phase[q] = "failing"
  <2>1. call[Cleanup(q)].pc = "wait"
    BY <1>1, <1>i, <1>17 DEF Letters
  <2>2. phase[q] \in {"failing", "cancelled"}
    BY <1>i, <2>1 DEF Desk
  <2> QED
    BY <1>i, <1>17, <2>2 DEF Turns, JobPhases
<1>18. ASSUME NEW q \in Procs, cancels = 0, m.caller = Body(q), m.op # "WriteTagsOutput"
       PROVE  Asks(q, m)
  <2>1. call[Body(q)].pc = "wait"
    BY <1>1, <1>i, <1>18 DEF Letters
  <2>2. Asks(q, call[Body(q)])
    BY <1>i, <2>1 DEF Desk
  <2> QED
    BY <1>8, <1>18, <2>1, <2>2 DEF Asks
<1>19. RowsHeld'
  <2>1. ASSUME cancels = 0, NEW p \in Procs, AtWork(p)' PROVE rows'[p] = "unfinished"
    <3>1. CASE AtWork(p)
      <4>1. rows[p] = "unfinished" /\ phase[p] \in {"log", "work"} /\ current = p
        BY <1>i, <2>1, <3>1 DEF RowsHeld, AtWork, Turns, JobPhases, Extracting
      <4>2. ASSUME rows'[p] # "unfinished" PROVE FALSE
        <5>1. m.op \in {"RemoveIncompleteJobs", "DeleteJobData", "UpdateDataLog"}
          BY <1>2, <4>1, <4>2 DEF Effects
        <5>2. PICK q \in Procs : m.caller = Body(q) \/ m.caller = Cleanup(q)
          BY <1>4
        <5>3. m.caller = Body(q) => phase[q] \in {"clean", "delete", "finish"}
          BY <1>18, <2>1, <5>1 DEF Asks
        <5>4. m.caller = Body(q) => current = q
          BY <1>i, <5>3 DEF Turns, JobPhases, Extracting
        <5> QED
          BY <1>17, <2>1, <4>1, <5>2, <5>3, <5>4
      <4> QED
        BY <4>2
    <3>2. CASE ~AtWork(p)
      <4>1. /\ phase[p] = "log" /\ call'[Body(p)].pc = "ok" /\ call[Body(p)].pc # "ok"
        BY <1>3, <2>1, <3>2 DEF AtWork
      <4>2. m.caller = Body(p) /\ call[Body(p)].pc = "wait" /\ result = "ok"
        BY <1>4, <1>5, <4>1
      <4>3. m.op = "AddDataLog" /\ m.target = p
        BY <1>8, <1>i, <4>1, <4>2 DEF Desk, Asks
      <4> QED
        BY <1>2, <4>2, <4>3 DEF Effects
    <3> QED
      BY <3>1, <3>2
  <2>2. ASSUME faults' = 0, NEW p \in Procs, m.op = "AddDataLog", m.target = p
        PROVE  m.caller = Body(p) /\ Stays(p) /\ (call[Body(p)].pc = "wait" \/ phase[p] \in Over)
    <3>1. m.caller = Body(p)
      BY <1>1, <1>4, <1>i, <2>2 DEF Letters
    <3>2. Covered(p)
      BY <1>1, <1>13, <1>i, <2>2, <3>1 DEF Abandoned, Covered
    <3>3. call[Body(p)].pc = "wait" \/ phase[p] \in Over
      BY <1>1, <1>i, <3>1 DEF Mail, InBox
    <3>4. call[Body(p)].pc = "wait" => phase[p] = "log"
      BY <1>8, <1>i, <2>2, <3>1 DEF Desk, Asks
    <3> QED
      BY <3>1, <3>2, <3>3, <3>4 DEF Covered, Stays, Over, Ended, Extracting
  <2>3. ASSUME faults' = 0, NEW p \in Procs, rows'[p] = "unfinished" PROVE Stays(p)'
    <3>1. CASE rows[p] = "unfinished"
      <4>1. Stays(p)
        BY <1>13, <1>i, <2>3, <3>1 DEF RowsHeld, Stays
      <4>2. m.caller # Cleanup(p)
        <5>1. m.caller = Cleanup(p) => m.op = "RemoveIncompleteJobs"
          BY <1>1, <1>i DEF Letters
        <5> QED
          BY <1>2, <1>13, <2>3, <5>1 DEF Effects
      <4> QED
        BY <1>3, <1>15, <4>1, <4>2 DEF Stays
    <3>2. CASE rows[p] # "unfinished"
      <4>1. m.op = "AddDataLog" /\ m.target = p
        BY <1>2, <2>3, <3>2 DEF Effects
      <4>2. m.caller = Body(p) /\ Stays(p)
        BY <2>2, <2>3, <4>1
      <4> QED
        BY <1>3, <1>4, <1>15, <4>2 DEF Stays
    <3> QED
      BY <3>1, <3>2
  <2>4. ASSUME faults' = 0, NEW p \in Procs,
               phase[p] = "finish", Replied(Body(p))', ~Systemic(tally[p])
        PROVE  rows'[p] # "unfinished"
    <3>1. CASE Replied(Body(p))
      <4>1. rows[p] # "unfinished"
        BY <1>13, <1>i, <2>4, <3>1 DEF RowsHeld
      <4>2. call[Body(p)].pc # "wait" /\ phase[p] \notin Over
        BY <2>4, <3>1 DEF Replied, Over, Ended
      <4>3. ~(m.op = "AddDataLog" /\ m.target = p)
        BY <2>2, <2>4, <4>2
      <4> QED
        BY <1>2, <4>1, <4>3 DEF Effects
    <3>2. CASE ~Replied(Body(p))
      <4>1. m.caller = Body(p) /\ call[Body(p)].pc = "wait"
        BY <1>4, <1>5, <2>4, <3>2 DEF Replied
      <4>2. m.op = "UpdateDataLog" /\ m.target = p /\ m.flag
        BY <1>8, <1>i, <2>4, <4>1 DEF Desk, Asks
      <4>3. result = "ok"
        BY <1>13, <2>4, <4>2
      <4> QED
        BY <1>2, <4>2, <4>3 DEF Effects
    <3> QED
      BY <3>1, <3>2
  <2> QED
    BY <1>3, <2>1, <2>3, <2>4 DEF RowsHeld, AtWork, Stays
<1>20. CalmSkipIsSafe'
  <2>1. ASSUME cancels = 0, faults' = 0, NEW p \in Procs, current = p, phase[p] = "skip", stale'
        PROVE  FALSE
    <3>1. m.op \in TagOps
      BY <1>2, <1>13, <1>i, <2>1 DEF Effects, CalmSkipIsSafe, SkipIsSafe
    <3>2. PICK q \in Procs : m.caller = Body(q) \/ m.caller = Cleanup(q)
      BY <1>4
    <3>3. CASE m.caller = Cleanup(q)
      BY <1>17, <2>1, <3>3
    <3>4. CASE m.caller = Body(q) /\ m.op # "WriteTagsOutput"
      <4>1. phase[q] \in {"clean", "delete", "scan"}
        BY <1>18, <2>1, <3>1, <3>4 DEF Asks, TagOps
      <4>2. phase[q] # "scan"
        BY <1>i, <2>1 DEF Turns, JobPhases
      <4>3. current = q
        BY <1>i, <4>1, <4>2 DEF Turns, JobPhases, Extracting
      <4> QED
        BY <2>1, <4>1, <4>3
    <3>5. CASE m.caller = Body(q) /\ m.op = "WriteTagsOutput"
      <4>1. Covered(q)
        BY <1>1, <1>13, <1>i, <2>1, <3>5 DEF Abandoned, Covered
      <4>2. phase[q] \in Extracting \cup {"failing"}
        BY <1>i, <2>1, <4>1 DEF Covered, Pending, Desk, Turns
      <4>3. current = q
        BY <1>i, <4>2 DEF Turns, JobPhases
      <4> QED
        BY <2>1, <4>2, <4>3 DEF Extracting
    <3> QED
      BY <3>2, <3>3, <3>4, <3>5
  <2> QED
    BY <1>3, <2>1 DEF CalmSkipIsSafe, SkipIsSafe
<1> QED
  BY <1>9, <1>10, <1>11, <1>12, <1>14, <1>16, <1>19, <1>20 DEF JInv

-----------------------------------------------------------------------------
(* The strengthened invariant.                                             *)

(* It holds of a new database ...                                          *)
LEMMA InitJInv == Init => JInv
<1> SUFFICES ASSUME Init PROVE JInv
  OBVIOUS
<1>1. IInv
  BY InitIInv
<1>2. /\ mailbox = <<>> /\ handling = None /\ writer = "none" /\ known = FALSE
      /\ \A c \in Callers : call[c] = NoCall
      /\ \A p \in Procs : phase[p] = "new" /\ rows[p] = "absent"
      /\ current = None /\ \A p \in Procs : p # None
  BY NoneAssumption DEF Init
<1>3. Post = {} /\ \A i \in 1..Len(mailbox) : FALSE
  <2>1. Len(mailbox) = 0
    BY <1>2
  <2>2. \A i \in 1..Len(mailbox) : FALSE
    BY <2>1
  <2> QED
    BY <1>2, <2>2 DEF Post
<1>4. \A p \in Procs : call[Body(p)].pc = "idle" /\ call[Cleanup(p)].pc = "idle"
  BY <1>2, CallersOf DEF NoCall
<1>5. Mail
  <2>1. \A d : ~InBox(d)
    BY <1>3 DEF InBox
  <2> QED
    BY <1>2, <1>3, <2>1 DEF Mail, NoCall
<1>6. Desk
  BY <1>4 DEF Desk
<1>7. Turns
  BY <1>2 DEF Turns, JobPhases, Extracting
<1>8. Letters
  BY <1>2, <1>3 DEF Letters
<1>9. Healthy
  BY <1>2 DEF Healthy, NoCall
<1>10. Abandoned
  BY <1>3 DEF Abandoned
<1>11. RowsHeld
  BY <1>2 DEF RowsHeld
<1>12. CalmSkipIsSafe
  BY <1>2 DEF CalmSkipIsSafe, SkipIsSafe
<1> QED
  BY <1>1, <1>5, <1>6, <1>7, <1>8, <1>9, <1>10, <1>11, <1>12 DEF JInv

(* ... every step keeps it ...                                             *)
LEMMA StepJInv == JInv /\ [Next]_vars => JInv'
<1> SUFFICES ASSUME JInv, [Next]_vars PROVE JInv'
  OBVIOUS
<1>0. IInv' /\ TypeOK'
  <2>1. IInv'
    BY StepIInv DEF JInv
  <2> QED
    BY <2>1 DEF IInv
<1>1. ASSUME NEW c \in Callers, GetWriter(c) \/ SendMessage(c) PROVE JInv'
  BY <1>0, <1>1, GetWriterKeeps, SendKeeps, LostSendKeeps
<1>2. CASE Receive
  BY <1>0, <1>2, ReceiveKeeps
<1>3. CASE Handle \/ TransactionFails
  BY <1>0, <1>3, HandlersKeep
<1>4. CASE HealthCheck \/ WriterGone \/ SupervisorPanics
  BY <1>0, <1>4, SupervisionKeeps
<1>5. CASE WriterStops \/ WriterPanics
  BY <1>0, <1>5, DropKeeps
<1>6. CASE Crash
  BY <1>0, <1>6, CrashKeeps
<1>7. ASSUME NEW p \in Procs,
             \/ StartExtraction(p) \/ StartDeletion(p) \/ StartMaintenance(p)
             \/ StartScan(p) \/ ScanMaintains(p) \/ StartMark(p)
             \/ ItemFails(p) \/ WriteItem(p) \/ ExtractionErrs(p) \/ JobStep(p) \/ Cancel(p)
      PROVE  JInv'
  <2>1. ClientStep(p)
    BY <1>7, DoStart, DoScan, DoPrepared, DoLogged, DoItemFails, DoItemWritten,
       DoFinishExtraction, DoErrs, DoWriteItem, DoCleaned, DoFinished, DoCleanedUp, DoDeleted,
       DoDecideRecount, DoMaintained, DoTaskEnds, DoCancel DEF JobStep
  <2> QED
    BY <1>0, <2>1, ClientKeeps
<1>8. CASE UNCHANGED vars
  <2>1. Post' = Post
    BY <1>8 DEF vars, actor, Post
  <2>2. \A c : (InBox(c)' <=> InBox(c))
    BY <2>1 DEF InBox
  <2>3. /\ mailbox' = mailbox /\ handling' = handling /\ writer' = writer /\ gen' = gen
        /\ known' = known /\ rows' = rows /\ stale' = stale /\ faults' = faults
        /\ call' = call /\ phase' = phase /\ tally' = tally /\ current' = current
        /\ cancels' = cancels
    BY <1>8 DEF vars, actor, db, clients
  <2>4. Mail' /\ Desk' /\ Turns'
    BY <2>1, <2>2, <2>3 DEF JInv, Mail, Desk, Asks, Turns
  <2>5. Letters' /\ Healthy'
    BY <2>1, <2>3 DEF JInv, Letters, Healthy, Reachable
  <2>6. Abandoned' /\ RowsHeld' /\ CalmSkipIsSafe'
    BY <2>1, <2>3
    DEF JInv, Abandoned, RowsHeld, Pending, Replied, CalmSkipIsSafe, SkipIsSafe
  <2> QED
    BY <1>0, <2>4, <2>5, <2>6 DEF JInv
<1> QED
  BY <1>1, <1>2, <1>3, <1>4, <1>5, <1>6, <1>7, <1>8 DEF Next

(* ... and so it always holds.                                             *)
LEMMA CallsInvariance == Spec => []JInv
<1> QED
  BY InitJInv, StepJInv, PTL DEF Spec

(* At rest, without failures, a row is unfinished only of an extraction    *)
(* that was cancelled in its own cleanup; and nothing takes the row of a   *)
(* job at work while nothing has been cancelled.                           *)
LEMMA RowsHeldFollow == JInv => RowsFollowJobs
<1> SUFFICES ASSUME JInv PROVE RowsFollowJobs
  OBVIOUS
<1>1. HistoryIsSettled
  <2>1. ASSUME Quiet, faults = 0, NEW p \in Procs, rows[p] = "unfinished"
        PROVE  phase[p] = "dropped"
    <3>1. Stays(p)
      BY <2>1 DEF JInv, RowsHeld, Stays
    <3>2. current = None /\ call[Cleanup(p)].pc = "idle"
      BY <2>1, CallersOf DEF Quiet
    <3>3. phase[p] \notin JobPhases
      BY <3>2, NoneAssumption DEF JInv, Turns
    <3> QED
      BY <3>1, <3>2, <3>3 DEF Stays, Pending, JobPhases, Extracting
  <2> QED
    BY <2>1 DEF HistoryIsSettled
<1>2. cancels = 0 => LiveJobHasItsRow
  BY DEF JInv, RowsHeld, LiveJobHasItsRow
<1> QED
  BY <1>1, <1>2 DEF RowsFollowJobs

(* A waiting caller has one message among those not answered.              *)
LEMMA WaitersHeard == JInv => WaitersAreHeard
<1> SUFFICES ASSUME JInv PROVE WaitersAreHeard
  OBVIOUS
<1>0. mailbox \in Seq(Message) /\ Mail
  BY DEF JInv, IInv, TypeOK
<1>1. ASSUME NEW c \in Callers, call[c].pc = "wait" PROVE Heard(c) = 1
  <2> DEFINE L == {i \in DOMAIN mailbox : mailbox[i].caller = c}
  <2>0. DOMAIN mailbox = 1..Len(mailbox)
    BY <1>0
  <2>1. InBox(c)
    BY <1>0, <1>1 DEF Mail
  <2>2. CASE handling # None /\ handling.caller = c
    <3>1. L = {}
      BY <1>0, <2>0, <2>2 DEF Mail
    <3>2. Cardinality(L) = 0
      BY <3>1, FS_EmptySet
    <3> HIDE DEF L
    <3>3. Heard(c) = Cardinality(L) + 1
      BY <2>2 DEF Heard, L
    <3> QED
      BY <3>2, <3>3
  <2>3. CASE ~(handling # None /\ handling.caller = c)
    <3>1. PICK i \in 1..Len(mailbox) : mailbox[i].caller = c
      BY <2>1, <2>3 DEF InBox, Post
    <3>2. L = {i}
      BY <1>0, <2>0, <3>1 DEF Mail
    <3>3. Cardinality(L) = 1
      BY <3>2, FS_Singleton
    <3> HIDE DEF L
    <3>4. Heard(c) = Cardinality(L) + 0
      BY <2>3 DEF Heard, L
    <3> QED
      BY <3>3, <3>4
  <2> QED
    BY <2>2, <2>3
<1>2. ASSUME NEW c \in Callers, writer \in {"none", "dying"} PROVE Heard(c) = 0
  <2> DEFINE L == {i \in DOMAIN mailbox : mailbox[i].caller = c}
  <2>1. mailbox = <<>> /\ handling = None
    BY <1>0, <1>2 DEF Mail
  <2>2. L = {}
    BY <2>1
  <2>3. Cardinality(L) = 0
    BY <2>2, FS_EmptySet
  <2> HIDE DEF L
  <2>4. Heard(c) = Cardinality(L) + 0
    BY <2>1 DEF Heard, L
  <2> QED
    BY <2>3, <2>4
<1> QED
  BY <1>1, <1>2 DEF WaitersAreHeard

(* Whoever awaits a reply has one message with the writer, and no message  *)
(* outlives the writer it was sent to: through retries, name clashes,      *)
(* panics and restarts no call is answered twice or waits for nobody.      *)
THEOREM WaitersAreAlwaysHeard == Spec => []WaitersAreHeard
<1> QED
  BY CallsInvariance, WaitersHeard, PTL

(* The row of an extraction follows it, for any number of jobs, items and  *)
(* clients.                                                                *)
THEOREM RowsAlwaysFollowJobs == Spec => []RowsFollowJobs
<1> QED
  BY CallsInvariance, RowsHeldFollow, PTL

(* A maintenance pass that skips the recount leaves no stale counts, while *)
(* nothing fails and nothing is cancelled.                                 *)
THEOREM CalmSkipIsAlwaysSafe == Spec => []CalmSkipIsSafe
<1>1. JInv => CalmSkipIsSafe
  BY DEF JInv
<1> QED
  BY <1>1, CallsInvariance, PTL

=============================================================================
