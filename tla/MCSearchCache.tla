--------------------------- MODULE MCSearchCache ---------------------------
(* Instances of SearchCache for TLC.                                       *)
EXTENDS SearchCache, TLC

CONSTANTS tagged, total, main, marks, r1, r2

(* tagged reads the index database and the bookmarks, total counts them.   *)
TaggedAndTotal == tagged :> {main, marks} @@ total :> {marks}

(* Rows come and go with the commits, to either side of a grid line.       *)
Rows(q, v) == IF q = total \/ v[main] + v[marks] = 1 THEN 1 ELSE 3

Window(o, l, p) == [offset |-> o, limit |-> l, prefetch |-> p]
Page == Window(0, 2, 0)
Ahead == Window(1, 1, 4)
All == Window(0, None, 0)
Pages == {Page, Ahead, All}

Ask(q, w) == [query |-> q, window |-> w]
(* One client reads a page and a window with a prefetch and counts, the    *)
(* other one reads a page.                                                 *)
ClientAsks == r1 :> {Ask(tagged, Ahead), Ask(total, Page)} @@ r2 :> {Ask(tagged, Page)}

=============================================================================
