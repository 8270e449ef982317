----------------------------- MODULE MCJobQueue -----------------------------
(* Instances of JobQueue for TLC.                                          *)
EXTENDS JobQueue

CONSTANTS db1, clip, tagger, nightly

Extraction(d, setter, tag) ==
    [type |-> "DataExtraction", db |-> d, metadata |-> setter, tag |-> tag]
Rescan(d, tag) == [type |-> "FolderRescan", db |-> d, metadata |-> None, tag |-> tag]

\* An extraction job of another model than the one of the tick.
ClientRequests == {Extraction(db1, tagger, None)}

\* A cron tick, a scan and an extraction: it dedups on its own tag.
CronBatches ==
    {[requests |-> <<Rescan(db1, nightly), Extraction(db1, clip, nightly)>>,
      dedups |-> {<<nightly, db1>>}]}

\* What a job that ends well may report.
JobReports == {{"deleted"}}

=============================================================================
