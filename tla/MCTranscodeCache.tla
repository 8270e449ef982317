-------------------------- MODULE MCTranscodeCache -------------------------
(* A small instance of TranscodeCache: the film alone is larger than the budget. *)
EXTENDS TranscodeCache
CONSTANTS clip, film, w1, w2
TwoKeys == {clip, film}
TwoWorkers == {w1, w2}
Sizes == [k \in TwoKeys |-> IF k = film THEN 3 ELSE 1]
Smaller == {1}
=============================================================================
