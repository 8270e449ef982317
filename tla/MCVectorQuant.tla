--------------------------- MODULE MCVectorQuant ---------------------------
(***************************************************************************)
(* A small instance of VectorQuant for TLC.  Vectors 1 and 3 are of the     *)
(* clip model, 2 of its text sibling.                                      *)
(***************************************************************************)
EXTENDS VectorQuant

CONSTANTS clip, text, req1

ThreeVectors == {1, 2, 3}
Siblings == {clip, text}
OneRequest == {req1}
ClipAndText == [v \in {1, 2, 3} |-> IF v = 2 THEN text ELSE clip]
LastDiffers == [v \in {1, 2, 3} |-> IF v = 3 THEN 2 ELSE 1]
=============================================================================
