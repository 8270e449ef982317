-------------------------- MODULE InferioDispatch --------------------------
(***************************************************************************)
(* The dispatcher of one loaded model (inferio/dispatch.rs).  Requests     *)
(* arrive in an unbounded mailbox; whenever a replica is free, a prefix of *)
(* the queue becomes its window and is sent as one merged frame.  A frame  *)
(* that the worker refuses is retried request by request; a worker that    *)
(* dies takes the whole model with it; an unload fails what is queued and  *)
(* lets the windows in flight finish, for unload_grace at most.            *)
(*                                                                         *)
(* The task is sequential and awaits only in its select, in the kills and  *)
(* in the drain, so what it does between two awaits is one action.  Every  *)
(* window is a task of its own.  Inputs are told apart by the request they *)
(* belong to and their position in it; a worker's output carries the input *)
(* it was computed from.                                                   *)
(***************************************************************************)
EXTENDS Naturals, FiniteSets, Sequences, SequencesExt, FiniteSetsExt

CONSTANTS
  Requests, Replicas,
  Mixes,        \* what the requests are: inputs, bytes of each, max_batch, the bad input
  DefaultCap,   \* the registry's default_batch_size or the server's
  ByteBudget,   \* FRAME_INPUT_BYTES_BUDGET
  MaxFaults,    \* bound on the faults: workers that die, workers that never
                \* answer, merged frames refused though no input is bad
  CanUnload

Shutdown == "Shutdown"

\* capped says whether the request carries a max_batch, which may be 0; bad is
\* 0 when no input is.
ASSUME DispatchAssumption ==
  /\ Shutdown \notin Requests
  /\ \A mix \in Mixes : /\ DOMAIN mix = Requests
                        /\ \A r \in Requests :
                             /\ mix[r].units \in Nat \ {0} /\ mix[r].size \in Nat
                             /\ mix[r].cap \in Nat /\ mix[r].bad \in 0..mix[r].units
                             /\ mix[r].cap # 0 => mix[r].capped
  /\ {DefaultCap, ByteBudget, MaxFaults} \subseteq Nat
  /\ CanUnload \in BOOLEAN

VARIABLES
  shape,      \* what each request is
  reply,      \* what the caller has received
  mailbox,    \* sent to the dispatcher and not received
  open,       \* rx is not closed
  queue,      \* the queue of the dispatcher
  at,         \* where the dispatcher is
  worker,     \* what each replica does
  sentAt,     \* ghost: how many requests were sent before this one
  taken,      \* ghost: the requests in the order they were taken into windows
  unloaded,   \* begin_unload has run
  crashes, wedges, flakes

dispatch == <<shape, reply, mailbox, open, queue, at, worker, sentAt, taken,
              unloaded, crashes, wedges, flakes>>

CanFault == crashes + wedges + flakes < MaxFaults

Free == [is |-> "free"]
Gone == [is |-> "gone"]
Waiting == [is |-> "waiting"]
Failed == [is |-> "failed"]         \* a WorkerError of its own
Lost == [is |-> "lost"]             \* the model was unloaded or its worker died
Ok(outputs) == [is |-> "ok", outputs |-> outputs]

Sent == {r \in Requests : reply[r].is # "unsent"}
FreeReplicas == {w \in Replicas : worker[w] = Free}
Running == {w \in Replicas : worker[w].is = "busy"}
Finished == {w \in Replicas : worker[w].is = "finished"}

DispatchInit ==
  /\ shape \in Mixes
  /\ reply = [r \in Requests |-> [is |-> "unsent"]]
  /\ mailbox = <<>> /\ open = TRUE /\ queue = <<>>
  /\ at = "loop"
  /\ worker = [w \in Replicas |-> Free]
  /\ sentAt = [r \in Requests |-> 0] /\ taken = <<>>
  /\ unloaded = FALSE
  /\ crashes = 0 /\ wedges = 0 /\ flakes = 0

-----------------------------------------------------------------------------
(* What a window is *)

Inputs(r) == [i \in 1..shape[r].units |-> <<r, i>>]
AllInputs(window) == FlattenSeq([i \in DOMAIN window |-> Inputs(window[i])])
Units(inputs) == Len(inputs)
Bytes(inputs) ==
  LET Upto[n \in 0..Len(inputs)] ==
        IF n = 0 THEN 0 ELSE Upto[n - 1] + shape[inputs[n][1]].size
  IN Upto[Len(inputs)]

\* The caps that limit a window.
Caps(window) == {shape[r].cap : r \in ToSet(window)} \ {0}

\* The largest explicit cap of the queue, and 1 if all there are are 0; without
\* one the default.
EffectiveCap(q) ==
  Max({1} \cup IF \E r \in ToSet(q) : shape[r].capped THEN Caps(q) ELSE {DefaultCap})

\* The longest prefix that fits the cap, the smallest explicit cap of its own
\* members and the byte budget, the first request whatever it is.
TakeCount(q, cap) ==
  LET Fits(n) == LET window == SubSeq(q, 1, n)
                 IN /\ Units(AllInputs(window)) <= Min(Caps(window) \cup {cap})
                    /\ Bytes(AllInputs(window)) <= ByteBudget
  IN Max({n \in 1..Len(q) : \A k \in 2..n : Fits(k)})

\* sub_batch_len: how many inputs of a lone request go into the next frame.
SubBatchLen(inputs, cap) ==
  Max({1} \cup {n \in 1..Len(inputs) :
                  n <= cap /\ Bytes(SubSeq(inputs, 1, n)) <= ByteBudget})

\* One frame of a window task: sent is with the worker, rest comes after it.
Frame(mode, window, inputs, count, outputs, cap) ==
  [is |-> "busy", mode |-> mode, window |-> window, cap |-> cap, wedged |-> FALSE,
   sent |-> SubSeq(inputs, 1, count),
   rest |-> SubSeq(inputs, count + 1, Len(inputs)), outputs |-> outputs]

FirstFrame(window, cap) ==
  LET inputs == AllInputs(window)
  IN IF Len(window) = 1
       THEN Frame("single", window, inputs, SubBatchLen(inputs, cap), <<>>, cap)
       ELSE Frame("merged", window, inputs, Len(inputs), <<>>, cap)

\* The fallback: the next request of the window alone, in one frame.
RetryFrame(window, inputs, cap) ==
  Frame("retry", window, inputs, shape[Head(window)].units, <<>>, cap)

Ended(fatal) == [is |-> "finished", fatal |-> fatal]

\* The requests in rs that still wait for an answer get this one.
Answered(rs, answer) ==
  [r \in Requests |-> IF r \in rs /\ reply[r] = Waiting THEN answer ELSE reply[r]]

-----------------------------------------------------------------------------
(* The callers and the manager *)

\* A predict sends its request; on a closed channel it fails at once.
Send(r) ==
  /\ reply[r].is = "unsent"
  /\ sentAt' = [sentAt EXCEPT ![r] = Cardinality(Sent)]
  /\ IF open THEN mailbox' = Append(mailbox, r) /\ reply' = [reply EXCEPT ![r] = Waiting]
             ELSE reply' = [reply EXCEPT ![r] = Lost] /\ UNCHANGED mailbox
  /\ UNCHANGED <<shape, open, queue, at, worker, taken, unloaded, crashes, wedges, flakes>>

\* begin_unload or the manager's shutdown: the last message of the handle.
BeginUnload ==
  /\ CanUnload /\ ~unloaded
  /\ unloaded' = TRUE
  /\ mailbox' = IF open THEN Append(mailbox, Shutdown) ELSE mailbox
  /\ UNCHANGED <<shape, reply, open, queue, at, worker, sentAt, taken, crashes, wedges, flakes>>

-----------------------------------------------------------------------------
(* The loop of the dispatcher *)

Dispatchable == queue # <<>> /\ FreeReplicas # {}

\* The top of the loop: a free replica takes a prefix of the queue.
Dispatch(w) ==
  /\ at = "loop" /\ queue # <<>> /\ w \in FreeReplicas
  /\ LET cap == EffectiveCap(queue)
         n == TakeCount(queue, cap)
         window == SubSeq(queue, 1, n)
     IN /\ worker' = [worker EXCEPT ![w] = FirstFrame(window, cap)]
        /\ queue' = SubSeq(queue, n + 1, Len(queue))
        /\ taken' = taken \o window
  /\ UNCHANGED <<shape, reply, mailbox, open, at, sentAt, unloaded, crashes, wedges, flakes>>

\* Mutant: the channel is drained and not closed.
MutFailQueuedOpen(next) ==
  /\ reply' = Answered(ToSet(queue) \cup ToSet(mailbox), Lost)
  /\ queue' = <<>> /\ mailbox' = <<>> /\ open' = open
  /\ at' = next

\* What is queued or in the mailbox fails, and the channel closes.
FailQueued(next) ==
  /\ reply' = Answered(ToSet(queue) \cup ToSet(mailbox), Lost)
  /\ queue' = <<>> /\ mailbox' = <<>> /\ open' = FALSE
  /\ at' = next

\* The non-blocking drain of the mailbox, which a Shutdown ends the loop in.
DrainMailbox ==
  IF Shutdown \in ToSet(mailbox)
    THEN FailQueued("draining")
    ELSE /\ queue' = queue \o mailbox
         /\ mailbox' = <<>>
         /\ UNCHANGED <<reply, open, at>>

\* rx.recv() in the select.
Receive ==
  /\ at = "loop" /\ ~Dispatchable /\ mailbox # <<>>
  /\ DrainMailbox
  /\ UNCHANGED <<shape, worker, sentAt, taken, unloaded, crashes, wedges, flakes>>

\* Mutant: the replica does not return to the pool.
MutJoinForgetsReplica(w) ==
  /\ at = "loop" /\ ~Dispatchable /\ w \in Finished
  /\ worker' = [worker EXCEPT ![w] = Gone]
  /\ IF worker[w].fatal
       THEN at' = "killing" /\ UNCHANGED <<reply, mailbox, open, queue>>
       ELSE DrainMailbox
  /\ UNCHANGED <<shape, sentAt, taken, unloaded, crashes, wedges, flakes>>

\* join_next() in the select: the replica is free again, or it has died and
\* is killed before anything else happens.
Join(w) ==
  /\ at = "loop" /\ ~Dispatchable /\ w \in Finished
  /\ IF worker[w].fatal
       THEN /\ at' = "killing"
            /\ worker' = [worker EXCEPT ![w] = Gone]
            /\ UNCHANGED <<reply, mailbox, open, queue>>
       ELSE /\ worker' = [worker EXCEPT ![w] = Free]
            /\ DrainMailbox
  /\ UNCHANGED <<shape, sentAt, taken, unloaded, crashes, wedges, flakes>>

\* End::Fatal, once the dead worker is reaped.
FailFatal ==
  /\ at = "killing"
  /\ FailQueued("aborting")
  /\ UNCHANGED <<shape, worker, sentAt, taken, unloaded, crashes, wedges, flakes>>

\* The drain of a graceful unload joins what finishes in time.
JoinDraining(w) ==
  /\ at = "draining" /\ w \in Finished
  /\ worker' = [worker EXCEPT ![w] = IF worker[w].fatal THEN Gone ELSE Free]
  /\ UNCHANGED <<shape, reply, mailbox, open, queue, at, sentAt, taken, unloaded,
                 crashes, wedges, flakes>>

GraceExpires ==
  /\ at = "draining" /\ Running \cup Finished # {}
  /\ at' = "aborting"
  /\ UNCHANGED <<shape, reply, mailbox, open, queue, worker, sentAt, taken, unloaded,
                 crashes, wedges, flakes>>

\* in_flight.shutdown(): the task is dropped with its worker and its replies.
Abort(w) ==
  /\ at = "aborting" /\ w \in Running \cup Finished
  /\ worker' = [worker EXCEPT ![w] = Gone]
  /\ reply' = IF w \in Running THEN Answered(ToSet(worker[w].window), Lost) ELSE reply
  /\ UNCHANGED <<shape, mailbox, open, queue, at, sentAt, taken, unloaded,
                 crashes, wedges, flakes>>

\* The replicas left are stopped, and the task ends.
Exit ==
  /\ at \in {"draining", "aborting"} /\ Running \cup Finished = {}
  /\ worker' = [w \in Replicas |-> Gone]
  /\ at' = "ended"
  /\ UNCHANGED <<shape, reply, mailbox, open, queue, sentAt, taken, unloaded,
                 crashes, wedges, flakes>>

-----------------------------------------------------------------------------
(* The window tasks *)

BadInput(input) ==
  shape[input[1]].bad = input[2] \/ shape[input[1]].size > ByteBudget
Refusable(inputs) == \E i \in DOMAIN inputs : BadInput(inputs[i])
Answering(w) == w \in Running /\ ~worker[w].wedged

\* Mutant: every request is taken to have as many inputs as this one.
MutSliceEqual(window, i, outputs) ==
  LET n == shape[window[i]].units
  IN SubSeq(outputs, (i - 1) * n + 1, i * n)

\* The outputs of a merged frame are cut by the counts of its requests.
Slice(window, i, outputs) ==
  LET before == Len(AllInputs(SubSeq(window, 1, i - 1)))
  IN SubSeq(outputs, before + 1, before + shape[window[i]].units)

\* After the answer to the head of the fallback: the next request, or the end.
NextRetry(f) ==
  IF Len(f.window) = 1 THEN Ended(FALSE)
  ELSE RetryFrame(Tail(f.window), f.rest, f.cap)

\* The worker answers the frame.
PredictOk(w) ==
  LET f == worker[w]
  IN /\ Answering(w) /\ ~Refusable(f.sent)
     /\ CASE f.mode = "merged" ->
               /\ reply' = [r \in Requests |->
                    IF r \in ToSet(f.window)
                      THEN Ok(Slice(f.window, CHOOSE i \in DOMAIN f.window :
                                                f.window[i] = r, f.sent))
                      ELSE reply[r]]
               /\ worker' = [worker EXCEPT ![w] = Ended(FALSE)]
          [] f.mode = "retry" ->
               /\ reply' = [reply EXCEPT ![Head(f.window)] = Ok(f.sent)]
               /\ worker' = [worker EXCEPT ![w] = NextRetry(f)]
          [] f.mode = "single" /\ f.rest # <<>> ->
               /\ worker' = [worker EXCEPT ![w] =
                    Frame("single", f.window, f.rest, SubBatchLen(f.rest, f.cap),
                          f.outputs \o f.sent, f.cap)]
               /\ UNCHANGED reply
          [] OTHER ->
               /\ reply' = [reply EXCEPT ![Head(f.window)] = Ok(f.outputs \o f.sent)]
               /\ worker' = [worker EXCEPT ![w] = Ended(FALSE)]
  /\ UNCHANGED <<shape, mailbox, open, queue, at, sentAt, taken, unloaded,
                 crashes, wedges, flakes>>

\* A WorkerError: a merged frame falls back to its requests one by one, and
\* a request that fails alone has failed.
PredictFails(w) ==
  LET f == worker[w]
  IN /\ Answering(w)
     /\ \/ Refusable(f.sent) /\ UNCHANGED flakes
        \/ f.mode = "merged" /\ CanFault /\ flakes' = flakes + 1
     /\ IF f.mode = "merged"
          THEN /\ worker' = [worker EXCEPT ![w] = RetryFrame(f.window, f.sent, f.cap)]
               /\ UNCHANGED reply
          ELSE /\ reply' = [reply EXCEPT ![Head(f.window)] = Failed]
               /\ worker' = [worker EXCEPT ![w] =
                    IF f.mode = "retry" THEN NextRetry(f) ELSE Ended(FALSE)]
  /\ UNCHANGED <<shape, mailbox, open, queue, at, sentAt, taken, unloaded,
                 crashes, wedges>>

\* The worker dies: the rest of its window fails.
ReplicaDies(w) ==
  /\ w \in Running /\ CanFault
  /\ crashes' = crashes + 1
  /\ reply' = Answered(ToSet(worker[w].window), Lost)
  /\ worker' = [worker EXCEPT ![w] = Ended(TRUE)]
  /\ UNCHANGED <<shape, mailbox, open, queue, at, sentAt, taken, unloaded, wedges, flakes>>

\* A prediction that never comes back; it has no deadline.
Wedges(w) ==
  /\ Answering(w) /\ CanFault
  /\ wedges' = wedges + 1
  /\ worker' = [worker EXCEPT ![w].wedged = TRUE]
  /\ UNCHANGED <<shape, reply, mailbox, open, queue, at, sentAt, taken, unloaded,
                 crashes, flakes>>

\* Nobody asks any more and the model stays loaded, or it is gone.
Quiet ==
  /\ Sent = Requests /\ mailbox = <<>> /\ queue = <<>> /\ Running \cup Finished = {}
  /\ at \in {"loop", "ended"}
  /\ UNCHANGED dispatch

Predict(w) == PredictOk(w) \/ PredictFails(w)
Loop(w) == Dispatch(w) \/ Join(w) \/ JoinDraining(w) \/ Abort(w)

DispatchNext ==
  \/ \E r \in Requests : Send(r)
  \/ BeginUnload
  \/ Receive \/ FailFatal \/ GraceExpires \/ Exit
  \/ \E w \in Replicas : Loop(w) \/ Predict(w) \/ ReplicaDies(w) \/ Wedges(w)
  \/ Quiet

DispatchSpec == DispatchInit /\ [][DispatchNext]_dispatch

\* The tasks run, a worker that is not wedged answers, and the timer fires.
DispatchFairness ==
  /\ WF_dispatch(Receive) /\ WF_dispatch(FailFatal)
  /\ WF_dispatch(GraceExpires) /\ WF_dispatch(Exit)
  /\ \A w \in Replicas : WF_dispatch(Loop(w)) /\ WF_dispatch(Predict(w))
DispatchFairSpec == DispatchSpec /\ DispatchFairness

-----------------------------------------------------------------------------
(* Properties *)

DispatchTypeOK ==
  /\ shape \in Mixes
  /\ \A r \in Requests : reply[r].is \in {"unsent", "waiting", "ok", "failed", "lost"}
  /\ ToSet(mailbox) \subseteq Requests \cup {Shutdown} /\ ToSet(queue) \subseteq Requests
  /\ open \in BOOLEAN /\ unloaded \in BOOLEAN
  /\ at \in {"loop", "killing", "draining", "aborting", "ended"}
  /\ \A w \in Replicas : worker[w].is \in {"free", "busy", "finished", "gone"}
  /\ {crashes, wedges, flakes} \subseteq 0..MaxFaults

\* An answer is made of the outputs of the request's own inputs, all of them
\* and in their order, whatever it was merged with, retried with or split into.
OutputsAreItsOwn ==
  \A r \in Requests : reply[r].is = "ok" => reply[r].outputs = Inputs(r)

\* One poisoned input fails its own request only, and a request without one is
\* lost only to an unload or a death (the fallback of a merged batch).
OnlyThePoisonedFail ==
  \A r \in Requests :
    /\ reply[r].is = "failed" => Refusable(Inputs(r))
    /\ reply[r].is = "lost" => unloaded \/ crashes > 0

\* Requests are taken into windows in the order they were sent.
PickedUpInOrder ==
  \A i, j \in DOMAIN taken : i < j => sentAt[taken[i]] < sentAt[taken[j]]

\* A frame that carries inputs of several requests, or one request of a merged
\* window, exceeds no explicit cap of theirs and not the frame: an isolation
\* retry with max_batch = 1 shares its frame with nothing.
MergedFramesFit ==
  \A w \in Running :
    LET f == worker[w]
    IN /\ Len(f.sent) > 1 => Bytes(f.sent) <= ByteBudget
       /\ f.mode # "single" =>
            \A r \in {f.sent[i][1] : i \in DOMAIN f.sent} :
              shape[r].cap # 0 => Len(f.sent) <= shape[r].cap

\* What the batching must not change for a caller: the outputs, who fails, the
\* turn, and the cap of the request.
BatchingIsInvisible ==
  OutputsAreItsOwn /\ OnlyThePoisonedFail /\ PickedUpInOrder /\ MergedFramesFit

\* The same of the frames of a lone request that is larger than its own cap.
EveryFrameFits ==
  \A w \in Running :
    LET f == worker[w]
    IN \A r \in {f.sent[i][1] : i \in DOMAIN f.sent} :
         shape[r].cap # 0 => Len(f.sent) <= shape[r].cap

\* A request that waits is held by somebody who will answer it, and once the
\* loop has ended that is a window in flight: nothing waits in a channel that
\* nobody reads.
WaitersAreHeld ==
  \A r \in Requests : reply[r] = Waiting =>
    \/ \E w \in Running : r \in ToSet(worker[w].window)
    \/ at \in {"loop", "killing"} /\ r \in ToSet(queue) \cup ToSet(mailbox)

\* A model that is gone leaves no worker.
NothingIsLeft ==
  at = "ended" => \A w \in Replicas : worker[w] = Gone

\* Nobody is forgotten: no request, no worker.
NobodyIsForgotten == WaitersAreHeld /\ NothingIsLeft

\* With workers that answer, every request is answered; and an unload ends and
\* answers everybody, a wedged worker or not.
EveryoneIsAnswered ==
  []<>(/\ wedges = 0 \/ unloaded => \A r \in Requests : reply[r] # Waiting
       /\ unloaded => at = "ended")
=============================================================================
