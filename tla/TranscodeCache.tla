--------------------------- MODULE TranscodeCache --------------------------
(***************************************************************************)
(* The artifact cache of the transcoder (media_tools/transcode/cache.rs):  *)
(* finished encodes as files in a directory and rows in a SQLite index,    *)
(* kept under a byte budget.  Nothing locks the pair: every operation is a *)
(* task of its own that alternates file system calls and single statements *)
(* and may be overtaken between any two of them, and the process may end   *)
(* there.  The next open reconciles the two halves before anyone is served.*)
(*                                                                         *)
(* A generation stands for the bytes of one finished encode; a row carries *)
(* the generation its digest and size were taken from.  A directory has    *)
(* one process.  Left out: the temporaries and their sweep, the names      *)
(* inside a share directory, the verdicts (TranscodePool has them), and    *)
(* pins, which nothing in the program sets.                                *)
(***************************************************************************)
EXTENDS Integers, FiniteSets, Sequences, SequencesExt, LruOrder

CONSTANTS
  ArtifactKeys, \* cache keys
  Workers,      \* the tasks that may be at work at once
  Size,         \* the bytes of a key's artifact
  StartBudget,  \* [transcode] cache_size_mb
  ByteBudgets,  \* the budgets that PUT /api/video/cache may set
  EvictBatch,   \* EVICT_BATCH
  MaxEncodes,   \* bound: encodes that end well
  MaxUpsets     \* bound: crashes, cleared caches and failed statements together

ASSUME CacheAssumption ==
  /\ Size \in [ArtifactKeys -> Nat]
  /\ StartBudget \in Nat
  /\ ByteBudgets \subseteq Nat
  /\ EvictBatch \in Nat \ {0}
  /\ {MaxEncodes, MaxUpsets} \subseteq Nat

VARIABLES
  file,      \* the bytes under a key's name, 0 if there is no file
  row,       \* the bytes a key's row describes, 0 if there is no row
  recency,   \* the keys with a row, the longest unused first
  hits,      \* the keys whose row was hit often enough to be hot
  shares,    \* the keys with a share directory
  young,     \* the files and share directories too new to be debris
  budget_bytes,
  work,      \* what each worker is in the middle of
  phase,     \* "down", "opening" or "up"
  commits, upsets, faults,
  crossed    \* ghost: the keys whose last publish came between another one's
             \* publish and row, or has never had a row of its own

disk == <<file, shares, young>>
index == <<row, recency, hits>>
counters == <<commits, upsets, faults, crossed>>
artifactVars == <<disk, index, budget_bytes, work, phase, counters>>

NoKey == "none"
Idle == [at |-> "idle", key |-> NoKey, gen |-> 0, limit |-> 0, used |-> 0,
         victims |-> <<>>, skipHot |-> TRUE, job |-> "none"]

ArtifactInit ==
  /\ file = [k \in ArtifactKeys |-> 0]
  /\ row = [k \in ArtifactKeys |-> 0]
  /\ recency = <<>>
  /\ hits = {}
  /\ shares = {}
  /\ young = {}
  /\ budget_bytes = StartBudget
  /\ work = [w \in Workers |-> Idle]
  /\ phase = "up"
  /\ commits = 0 /\ upsets = 0 /\ faults = 0
  /\ crossed = {}

-----------------------------------------------------------------------------
(* Helpers *)

Rows == {k \in ArtifactKeys : row[k] # 0}
Total == SumFunctionOnSet(Size, Rows)
AtRest == phase = "up" /\ \A w \in Workers : work[w] = Idle
May(w) == phase = "up" /\ work[w] = Idle
Goes(w, next) == work' = [work EXCEPT ![w] = next]

\* An opening that ends lets the others in.
Ends(w) ==
  /\ Goes(w, Idle)
  /\ phase' = "up"

\* The statements of the index.
DeleteRowOf(k) ==
  /\ row' = [row EXCEPT ![k] = 0]
  /\ recency' = Forget(recency, {k})
  /\ hits' = hits \ {k}

Touched(k) == Append(Forget(recency, {k}), k)

-----------------------------------------------------------------------------
(* commit: rename into place, insert the row, run an eviction pass *)

\* Nothing keeps two encodes of a key apart: a cancel frees the key while the
\* encode of the cancelled job still runs.
BeginCommit(w, k) ==
  /\ May(w)
  /\ commits < MaxEncodes
  /\ commits' = commits + 1
  /\ Goes(w, [Idle EXCEPT !.at = "publish", !.key = k, !.gen = commits + 1,
                          !.job = "commit"])
  /\ UNCHANGED <<disk, index, budget_bytes, phase, upsets, faults, crossed>>

\* The workers that have published and have no row yet.
Published(k) == {w \in Workers : work[w].at = "insert" /\ work[w].key = k}

\* The temporary was flushed and hashed; the rename replaces what is there.
Publish(w) ==
  /\ work[w].at = "publish"
  /\ file' = [file EXCEPT ![work[w].key] = work[w].gen]
  /\ young' = young \cup {<<"file", work[w].key>>}
  /\ crossed' = IF Published(work[w].key) = {} THEN crossed \ {work[w].key}
                                              ELSE crossed \cup {work[w].key}
  /\ Goes(w, [work[w] EXCEPT !.at = "insert"])
  /\ UNCHANGED <<shares, index, budget_bytes, phase, commits, upsets, faults>>

\* Mutant: a row that is there stays as it is.
MutInsertIgnores(w) ==
  /\ work[w].at = "insert"
  /\ row' = [row EXCEPT ![work[w].key] = IF @ = 0 THEN work[w].gen ELSE @]
  /\ recency' = Touched(work[w].key)
  /\ Goes(w, [work[w] EXCEPT !.at = "evict"])
  /\ UNCHANGED <<disk, hits, budget_bytes, phase, counters>>

\* An upsert: the row describes the bytes this commit hashed.
InsertRow(w) ==
  /\ work[w].at = "insert"
  /\ row' = [row EXCEPT ![work[w].key] = work[w].gen]
  /\ recency' = Touched(work[w].key)
  /\ Goes(w, [work[w] EXCEPT !.at = "evict"])
  /\ UNCHANGED <<disk, hits, budget_bytes, phase, counters>>

\* set_budget_mb: the budget applies at once, then a pass that starts with it.
Resize(w, b) ==
  /\ May(w)
  /\ b # budget_bytes
  /\ budget_bytes' = b
  /\ Goes(w, [Idle EXCEPT !.at = "evict", !.job = "resize"])
  /\ UNCHANGED <<disk, index, phase, counters>>

-----------------------------------------------------------------------------
(* evict: the loop that commit, a resize and an opening end in *)

\* A pass reads the budget once: a resize in the middle of it has its own.
BeginPass(w) ==
  /\ work[w].at = "evict"
  /\ Goes(w, [work[w] EXCEPT !.at = "used", !.limit = budget_bytes])
  /\ UNCHANGED <<disk, index, budget_bytes, phase, counters>>

ReadUsed(w) ==
  /\ work[w].at = "used"
  /\ IF Total <= work[w].limit
     THEN Ends(w)
     ELSE /\ Goes(w, [work[w] EXCEPT !.at = "select", !.used = Total])
          /\ UNCHANGED phase
  /\ UNCHANGED <<disk, index, budget_bytes, counters>>

\* The next victims, the longest unused first, never the protected key; the
\* hot ones only once nothing else is left.
Candidates(w, hot) ==
  LET eligible == Forget(recency, {work[w].key} \cup hot)
  IN SubSeq(eligible, 1, IF Len(eligible) < EvictBatch THEN Len(eligible)
                                                       ELSE EvictBatch)

\* Mutant: hot artifacts stay out of reach.
MutSelectNeverHot(w) ==
  /\ work[w].at = "select"
  /\ LET victims == Candidates(w, hits)
     IN CASE victims # <<>> ->
               /\ Goes(w, [work[w] EXCEPT !.at = "unlink", !.victims = victims])
               /\ UNCHANGED phase
          [] victims = <<>> /\ recency # <<>> -> UNCHANGED <<work, phase>>
          [] OTHER -> Ends(w)
  /\ UNCHANGED <<disk, index, budget_bytes, counters>>

Select(w) ==
  /\ work[w].at = "select"
  /\ \E hot \in (IF work[w].skipHot THEN SUBSET hits ELSE {{}}) :
       LET victims == Candidates(w, hot)
       IN CASE victims # <<>> ->
                 /\ Goes(w, [work[w] EXCEPT !.at = "unlink", !.victims = victims])
                 /\ UNCHANGED phase
            [] victims = <<>> /\ work[w].skipHot ->
                 /\ Goes(w, [work[w] EXCEPT !.skipHot = FALSE])
                 /\ UNCHANGED phase
            [] OTHER -> Ends(w)
  /\ UNCHANGED <<disk, index, budget_bytes, counters>>

Unlink(w) ==
  /\ work[w].at = "unlink"
  /\ file' = [file EXCEPT ![Head(work[w].victims)] = 0]
  /\ young' = young \ {<<"file", Head(work[w].victims)>>}
  /\ Goes(w, [work[w] EXCEPT !.at = "delete"])
  /\ UNCHANGED <<shares, index, budget_bytes, phase, counters>>

\* delete_row, and what the caller goes on with: a clear and the repair of an
\* opening run through their list, a pass stops as soon as the budget holds.
DeleteRow(w) ==
  /\ work[w].at = "delete"
  /\ LET k == Head(work[w].victims)
         rest == Tail(work[w].victims)
         left == work[w].used - Size[k]
         next == [work[w] EXCEPT !.victims = rest]
     IN /\ DeleteRowOf(k)
        /\ shares' = shares \ {k}
        /\ young' = young \ {<<"share", k>>}
        /\ CASE work[w].job = "clear" /\ rest = <<>> -> Ends(w)
             [] work[w].job = "clear" /\ rest # <<>> ->
                  Goes(w, [next EXCEPT !.at = "unlink"]) /\ UNCHANGED phase
             [] work[w].job = "repair" ->
                  /\ Goes(w, IF rest = <<>>
                             THEN [next EXCEPT !.at = "evict", !.job = "open"]
                             ELSE next)
                  /\ UNCHANGED phase
             [] OTHER ->
                  IF left <= work[w].limit THEN Ends(w)
                  ELSE /\ Goes(w, [next EXCEPT
                                     !.used = left,
                                     !.at = IF rest = <<>> THEN "select" ELSE "unlink"])
                       /\ UNCHANGED phase
  /\ UNCHANGED <<file, budget_bytes, counters>>

\* A statement of the index fails: the operation returns the error and leaves
\* what it has done; an opening that fails serves nobody.
StatementFails(w) ==
  /\ upsets + faults < MaxUpsets
  /\ work[w].at \in {"insert", "used", "select", "delete"}
  /\ faults' = faults + 1
  /\ crossed' = IF work[w].at = "insert" THEN crossed \cup {work[w].key} ELSE crossed
  /\ Goes(w, Idle)
  /\ phase' = IF phase = "opening" THEN "down" ELSE phase
  /\ UNCHANGED <<disk, index, budget_bytes, commits, upsets>>

\* clear: every row that was there when it looked.
Clear(w) ==
  /\ May(w)
  /\ upsets + faults < MaxUpsets
  /\ recency # <<>>
  /\ upsets' = upsets + 1
  /\ Goes(w, [Idle EXCEPT !.at = "unlink", !.victims = recency, !.job = "clear"])
  /\ UNCHANGED <<disk, index, budget_bytes, phase, commits, faults, crossed>>

-----------------------------------------------------------------------------
(* lookup and materialize_share *)

lookup(w, k) ==
  /\ May(w)
  /\ row[k] # 0
  /\ Goes(w, [Idle EXCEPT !.at = "stat", !.key = k, !.job = "lookup"])
  /\ UNCHANGED <<disk, index, budget_bytes, phase, counters>>

\* The file is there: the hit is recorded, in a row that may be gone by now.
Hit(w) ==
  /\ work[w].at = "stat"
  /\ file[work[w].key] # 0
  /\ IF row[work[w].key] # 0
     THEN hits' = hits \cup {work[w].key} /\ recency' = Touched(work[w].key)
     ELSE UNCHANGED <<hits, recency>>
  /\ Goes(w, [work[w] EXCEPT !.at = "share"])
  /\ UNCHANGED <<disk, row, budget_bytes, phase, counters>>

\* It is not: the row is dropped, in a second step.
Miss(w) ==
  /\ work[w].at = "stat"
  /\ file[work[w].key] = 0
  /\ Goes(w, [work[w] EXCEPT !.at = "drop"])
  /\ UNCHANGED <<disk, index, budget_bytes, phase, counters>>

DropRow(w) ==
  /\ work[w].at = "drop"
  /\ DeleteRowOf(work[w].key)
  /\ shares' = shares \ {work[w].key}
  /\ young' = young \ {<<"share", work[w].key>>}
  /\ Goes(w, Idle)
  /\ UNCHANGED <<file, budget_bytes, phase, counters>>

\* The caller wanted a named view of the bytes, or only the bytes; a link to
\* a file that has been evicted meanwhile fails.
Share(w) ==
  /\ work[w].at = "share"
  /\ \/ /\ file[work[w].key] # 0
        /\ shares' = shares \cup {work[w].key}
        /\ young' = young \cup {<<"share", work[w].key>>}
     \/ UNCHANGED <<shares, young>>
  /\ Goes(w, Idle)
  /\ UNCHANGED <<file, index, budget_bytes, phase, counters>>

-----------------------------------------------------------------------------
(* The end of the process and the next open *)

\* Memory is gone, and until the next open any of the young may have aged.
Crash ==
  /\ phase # "down"
  /\ upsets + faults < MaxUpsets
  /\ upsets' = upsets + 1
  /\ crossed' = crossed \cup {k \in ArtifactKeys : Published(k) # {}}
  /\ phase' = "down"
  /\ work' = [w \in Workers |-> Idle]
  /\ budget_bytes' = StartBudget
  /\ \E still \in SUBSET young : young' = still
  /\ UNCHANGED <<file, shares, index, commits, faults>>

\* Mutant: rows without a file are left to the lookups.
MutOpenKeepsRows(w) ==
  /\ phase = "down"
  /\ LET live == {k \in Rows : file[k] # 0}
     IN /\ file' = [k \in ArtifactKeys |-> IF k \in live \/ <<"file", k>> \in young
                                   THEN file[k] ELSE 0]
        /\ shares' = {k \in shares : k \in live \/ <<"share", k>> \in young}
        /\ Goes(w, [Idle EXCEPT !.at = "evict", !.job = "open"])
  /\ phase' = "opening"
  /\ UNCHANGED <<young, index, budget_bytes, counters>>

\* reconcile: one scan that finds the rows without a file and removes files
\* and share directories that no row claims, unless they are young.
Open(w) ==
  /\ phase = "down"
  /\ LET live == {k \in Rows : file[k] # 0}
         orphans == SetToSeq(Rows \ live)
     IN /\ file' = [k \in ArtifactKeys |-> IF k \in live \/ <<"file", k>> \in young
                                   THEN file[k] ELSE 0]
        /\ shares' = {k \in shares : k \in live \/ <<"share", k>> \in young}
        /\ Goes(w, IF orphans = <<>>
                   THEN [Idle EXCEPT !.at = "evict", !.job = "open"]
                   ELSE [Idle EXCEPT !.at = "delete", !.victims = orphans,
                                     !.job = "repair"])
  /\ phase' = "opening"
  /\ UNCHANGED <<young, index, budget_bytes, counters>>

-----------------------------------------------------------------------------
Step(w) ==
  \/ Publish(w) \/ InsertRow(w)
  \/ BeginPass(w) \/ ReadUsed(w) \/ Select(w) \/ Unlink(w) \/ DeleteRow(w)
  \/ Hit(w) \/ Miss(w) \/ DropRow(w) \/ Share(w)

ArtifactNext ==
  \/ \E w \in Workers :
       \/ Step(w) \/ StatementFails(w) \/ Clear(w) \/ Open(w)
       \/ \E k \in ArtifactKeys : BeginCommit(w, k) \/ lookup(w, k)
       \/ \E b \in ByteBudgets : Resize(w, b)
  \/ Crash

ArtifactSpec == ArtifactInit /\ [][ArtifactNext]_artifactVars

\* A statement and a file system call return.
Fairness == \A w \in Workers : WF_artifactVars(Step(w))
FairSpec == ArtifactSpec /\ Fairness

-----------------------------------------------------------------------------
(* Properties *)

Gens == 0..MaxEncodes
Places == {"idle", "publish", "insert", "evict", "used", "select", "unlink", "delete",
           "stat", "drop", "share"}

\* Types of the state, and the index in two shapes: recency lists the rows.
ArtifactTypeOK ==
  /\ file \in [ArtifactKeys -> Gens] /\ row \in [ArtifactKeys -> Gens]
  /\ recency \in Seq(ArtifactKeys)
  /\ ToSet(recency) = Rows /\ Len(recency) = Cardinality(Rows)
  /\ hits \subseteq Rows
  /\ shares \subseteq ArtifactKeys
  /\ young \subseteq {"file", "share"} \X ArtifactKeys
  /\ crossed \subseteq ArtifactKeys
  /\ budget_bytes \in ByteBudgets \cup {StartBudget}
  /\ phase \in {"down", "opening", "up"}
  /\ \A w \in Workers :
       /\ work[w].at \in Places
       /\ work[w].at \in {"unlink", "delete"} => work[w].victims # <<>>
       /\ work[w].used \in Int

\* evict: once nobody is at work, what the rows add up to is within the budget,
\* or one artifact is left that is larger than all of it.  Passes run side by
\* side, each with the total it read at its start.
BudgetAtRest ==
  AtRest /\ faults = 0 => Total <= budget_bytes \/ Cardinality(Rows) = 1

\* commit/publish: the digest and the size of a row are those of the bytes on
\* disk, whoever evicted, looked up, shared or replaced them in between, crashes
\* included.  The comment of publish: it "must describe the bytes that were
\* actually published".  Not so for a key whose last publish came between the
\* publish and the row of another encode of the same key, or has ended before
\* its own row.
RowDescribesFile ==
  AtRest => \A k \in ArtifactKeys \ crossed :
              row[k] # 0 /\ file[k] # 0 => row[k] = file[k]

\* What the rows say once nobody is at work and nothing has failed.
RowsAreTrue == BudgetAtRest /\ RowDescribesFile

\* The order of clear and evict, "File first, then the row: an orphan file is
\* swept, an orphan row would 404 every request for it": a failure between
\* the two leaves no row without its file.
NoOrphanRow ==
  AtRest => \A k \in ArtifactKeys : row[k] # 0 => file[k] # 0

\* reconcile: when the cache opens, every row has its file and everything that
\* is old enough to be debris is gone, wherever the last process ended.
OpenReconciles ==
  [][phase = "opening" /\ phase' = "up" =>
       \A k \in ArtifactKeys :
         /\ row'[k] # 0 => file'[k] # 0
         /\ file'[k] # 0 => row'[k] # 0 \/ <<"file", k>> \in young'
         /\ k \in shares' => row'[k] # 0 \/ <<"share", k>> \in young']_artifactVars

\* Every operation ends: the eviction loop runs out of victims or of excess
\* even while others commit and hit.
OperationsEnd == \A w \in Workers : []<>(work[w] = Idle)
=============================================================================
