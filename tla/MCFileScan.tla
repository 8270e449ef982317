---------------------------- MODULE MCFileScan ----------------------------
(***************************************************************************)
(* A small instance of FileScan: two roots with a file each, and contents  *)
(* that are good, without a header or undecodable.                         *)
(***************************************************************************)
EXTENDS FileScan

CONSTANTS r1, r2, d1, d2, p1, p2, good, torn, dim

TwoRoots == <<r1, r2>>
BothDirs == {d1, d2}
TwoPaths == {p1, p2}
OnlyP2 == {p2}
ThreeContents == {good, torn, dim}
OnlyTorn == {torn}
OnlyDim == {dim}

RootEach == [p \in {p1, p2} |-> IF p = p1 THEN r1 ELSE r2]
DirEach == [p \in {p1, p2} |-> IF p = p1 THEN d1 ELSE d2]
Exact == [d \in Dirs |-> {p \in Paths : DirOf[p] = d}]

TwoWishes == {[inc |-> {r1, r2}, exc |-> {}], [inc |-> {r1}, exc |-> {d1}]}
JustR2 == {r2}
OnlyD1 == {d1}
SomeEdits == {<<p1, dim>>, <<p1, torn>>, <<p1, Nothing>>, <<p2, good>>}
=============================================================================
