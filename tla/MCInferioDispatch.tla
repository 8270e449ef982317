------------------------- MODULE MCInferioDispatch -------------------------
(* A small instance of InferioDispatch: chunks of a job, searches and        *)
(* retries meet on two replicas, in the mixes that merge, split and fail.    *)
EXTENDS InferioDispatch
CONSTANTS r1, r2, r3, gpu0, gpu1
Three == {r1, r2, r3}
TwoReplicas == {gpu0, gpu1}

Shape(units, size, cap, bad) ==
  [units |-> units, size |-> size, cap |-> cap, capped |-> cap # 0, bad |-> bad]
SearchSingle == Shape(1, 1, 0, 0)
SearchOfNone == [SearchSingle EXCEPT !.capped = TRUE]   \* max_batch=0
JobChunk == Shape(2, 1, 3, 0)
PoisonedChunk == Shape(2, 1, 3, 2)
IsolationRetry == Shape(1, 1, 1, 0)
LongRequest == Shape(4, 1, 0, 0)      \* longer than the cap: split
HeavyRequest == Shape(2, 3, 0, 0)     \* its inputs do not share a frame
TooHeavy == Shape(1, 9, 0, 0)         \* no frame carries it

Mix(a, b, c) == [r \in Three |-> IF r = r1 THEN a ELSE IF r = r2 THEN b ELSE c]
SmallMixes ==
  {Mix(SearchSingle, SearchSingle, PoisonedChunk),
   Mix(IsolationRetry, JobChunk, SearchSingle),
   Mix(LongRequest, HeavyRequest, SearchOfNone),
   Mix(SearchSingle, TooHeavy, PoisonedChunk)}
=============================================================================
