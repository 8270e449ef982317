------------------------------ MODULE TagDebt -------------------------------
(***************************************************************************)
(* What the tags-dirty marker of an index database promises (the header of *)
(* panoptikon/src/db/maintenance_state.rs): whatever makes the stored tag  *)
(* counts differ from tags_items sets the marker in the same transaction,  *)
(* and only a recount clears it.  How the writer actor keeps this promise  *)
(* with a latch that spares it most of the marker writes is the concern of *)
(* module IndexWriter, which is shown to implement this one.               *)
(***************************************************************************)

VARIABLES
    stale,   \* tags.item_count differs from what tags_items says
    dirty    \* maintenance_state.tags_dirty

vars == <<stale, dirty>>

TypeOK == stale \in BOOLEAN /\ dirty \in BOOLEAN

(* The migration seeds the marker dirty: nobody knows how old the counts   *)
(* of an existing database are.                                            *)
Init == stale \in BOOLEAN /\ dirty = TRUE

(* tags_items changes and the marker is set with it.                       *)
Change == stale' = TRUE /\ dirty' = TRUE

(* The marker is set with no change that a recount could see.              *)
Mark == dirty' = TRUE /\ UNCHANGED stale

(* The counts are rebuilt and the marker is cleared with them.             *)
Recount == stale' = FALSE /\ dirty' = FALSE

Next == Change \/ Mark \/ Recount

Spec == Init /\ [][Next]_vars
=============================================================================
