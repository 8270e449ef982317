------------------------------ MODULE LruOrder -----------------------------
(* The order of use that the caches keep: a sequence, the longest unused   *)
(* first.                                                                  *)
EXTENDS Naturals, Sequences

\* The order without some of its elements; the others keep their places.
Forget(order, gone) ==
    LET left[i \in 0 .. Len(order)] ==
            IF i = 0 THEN <<>>
            ELSE IF order[i] \in gone THEN left[i - 1]
            ELSE Append(left[i - 1], order[i])
    IN  left[Len(order)]
=============================================================================
