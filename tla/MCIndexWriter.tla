--------------------------- MODULE MCIndexWriter ----------------------------
(* The instance of IndexWriter for TLC: its constants are in the .cfg.     *)
EXTENDS IndexWriter

=============================================================================
