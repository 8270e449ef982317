---------------------------- MODULE SearchCache ----------------------------
(***************************************************************************)
(* The result cache of POST /api/search/pql (panoptikon/src/api/           *)
(* search_cache.rs), the epoch counters that validate it (db/epochs.rs),   *)
(* the searches that use it (api/search.rs) and the writers that bump the  *)
(* counters after their commits (db/index_writer.rs for an index database, *)
(* the drop of a DbConnection<UserDataWrite> for a user-data database).    *)
(*                                                                         *)
(* A query's rows differ at every version of its databases, so a row is    *)
(* the version it was read at and its position.  The mutex of the cache    *)
(* makes a lookup and an insert one step each; the snapshot of the epochs, *)
(* the execution and the commits are steps of their own.  A lookup reads   *)
(* the live counters in its one step.  Hit and miss counters and the       *)
(* listing are left out: nothing depends on them.                          *)
(*                                                                         *)
(* The operators named Mut... are faulty variants of the definition that   *)
(* follows them; no specification uses them.                               *)
(***************************************************************************)
EXTENDS Integers, Sequences, FiniteSets, SequencesExt, LruOrder

CONSTANTS
    Queries,             \* QueryKeys: compiled SQL and bound parameters
    Counts,              \* the queries that are count queries
    IndexDbs, UserDbs,
    Deps,                \* the databases a query's key names
    RowCount(_, _),      \* rows of a query at a version of its databases
    None,                \* Option::None
    Requests,            \* concurrent search requests
    Windows,             \* offsets, limits and prefetches of the searches
    Asks,                \* the searches each request may make
    Budgets,             \* byte budgets a client may set
    SPAN_ROWS, SPAN_OVERHEAD_BYTES, GROUP_OVERHEAD_BYTES,
    ROW_BYTES,           \* size of a serialized row
    MaxCommits,          \* bound: commits to a database
    MaxConnections       \* bound: write connections to a user database

Dbs == IndexDbs \cup UserDbs

ASSUME DepsAssumption == Counts \subseteq Queries /\ Deps \in [Queries -> SUBSET Dbs]

ASSUME NoneAssumption == None \notin Nat

ASSUME WindowsAssumption ==
    Windows \subseteq [offset : Nat, limit : Nat \cup {None}, prefetch : Nat]

ASSUME AsksAssumption == Asks \in [Requests -> SUBSET [query : Queries, window : Windows]]

ASSUME BytesAssumption ==
    /\ Budgets \subseteq Nat
    /\ SPAN_ROWS \in Nat \ {0}
    /\ {SPAN_OVERHEAD_BYTES, GROUP_OVERHEAD_BYTES, ROW_BYTES} \subseteq Nat

ASSUME BoundsAssumption == MaxCommits \in Nat /\ MaxConnections \in Nat

(* What a query reads: a version of each of its databases.                 *)
Seen(q) == [Deps[q] -> 0 .. MaxCommits]

ASSUME RowCountAssumption == \A q \in Queries : \A v \in Seen(q) : RowCount(q, v) \in Nat

(* An EpochSnapshot, and what a group is stamped with.                     *)
Snapshot(q) == [Deps[q] -> Nat]

VARIABLES
    version,     \* commits to each database
    epoch,       \* INDEX_EPOCHS and USER_DATA_EPOCHS
    clean,       \* write connections to a user database without a commit
    unbumped,    \* connections whose commits the epoch does not count yet
    cache,       \* CacheState: groups, spans, recency (the LRU order), used
    budget,      \* budget_bytes
    request      \* the search requests in progress

vars == <<version, epoch, clean, unbumped, cache, budget, request>>
writers == <<version, epoch, clean, unbumped>>

Min2(a, b) == IF a < b THEN a ELSE b
Max2(a, b) == IF a > b THEN a ELSE b

(* usize::saturating_sub *)
Monus(a, b) == Max2(a - b, 0)

Now(counter, q) == [d \in Deps[q] |-> counter[d]]

-----------------------------------------------------------------------------
(* The cache as a value: the helpers of CacheState.                        *)

Key(q, start) == [query |-> q, start |-> start]

EmptyCache == [groups |-> <<>>, spans |-> <<>>, recency |-> <<>>, used |-> 0]

SpanBytes(span) == SPAN_OVERHEAD_BYTES + span.len * ROW_BYTES

Keys(c, q) == {k \in DOMAIN c.spans : k.query = q}

Starts(c, q) == IF q \in DOMAIN c.groups THEN c.groups[q].starts ELSE {}

SumBytes(c, keys) == SumFunctionOnSet([k \in keys |-> SpanBytes(c.spans[k])], keys)

(* Keys of a query, in the order of their starts.                          *)
KeysInOrder(q, starts) ==
    LET order == CHOOSE s \in [1 .. Cardinality(starts) -> starts] :
                    /\ Range(s) = starts
                    /\ \A i, j \in DOMAIN s : i < j => s[i] < s[j]
    IN  [i \in DOMAIN order |-> Key(q, order[i])]

(* detach_span of each key: a group that loses its last span goes too, and *)
(* with it the bytes charged once for the group.                           *)
Detach(c, keys) ==
    LET hit == {q \in DOMAIN c.groups : \E k \in keys : k.query = q}
        Left(q) == {s \in c.groups[q].starts : Key(q, s) \notin keys}
        gone == {q \in hit : Left(q) = {}}
    IN  [groups |-> [q \in DOMAIN c.groups \ gone |-> [c.groups[q] EXCEPT !.starts = Left(q)]],
         spans |-> [k \in DOMAIN c.spans \ keys |-> c.spans[k]],
         recency |-> Forget(c.recency, keys),
         used |-> Monus(c.used, SumBytes(c, keys \cap DOMAIN c.spans)
                                + Cardinality(gone) * GROUP_OVERHEAD_BYTES)]

(* Pop least recently used spans until the rest fits.                      *)
evict_to_budget(c, bytes) ==
    LET Popped(n) == Detach(c, {c.recency[i] : i \in 1..n})
        enough == {n \in 0 .. Len(c.recency) : Popped(n).used <= bytes}
    IN  IF enough = {} THEN EmptyCache
        ELSE Popped(CHOOSE n \in enough : \A m \in enough : n <= m)

(* The group stays, without spans.                                         *)
clear_group_spans(c, q) ==
    [groups |-> [c.groups EXCEPT ![q].starts = {}, ![q].known_end = None],
     spans |-> [k \in DOMAIN c.spans \ Keys(c, q) |-> c.spans[k]],
     recency |-> Forget(c.recency, Keys(c, q)),
     used |-> Monus(c.used, SumBytes(c, Keys(c, q)))]

(* drop_group of each query: the group goes with its spans.                *)
drop_groups(c, qs) ==
    LET keys == {k \in DOMAIN c.spans : k.query \in qs}
    IN  [groups |-> [p \in DOMAIN c.groups \ qs |-> c.groups[p]],
         spans |-> [k \in DOMAIN c.spans \ keys |-> c.spans[k]],
         recency |-> Forget(c.recency, keys),
         used |-> Monus(c.used, SumBytes(c, keys)
                                + Cardinality(qs \cap DOMAIN c.groups) * GROUP_OVERHEAD_BYTES)]

(* store_span of each new span, in the order of their starts.              *)
store_spans(c, q, new) ==
    LET keys == {Key(q, s) : s \in DOMAIN new}
    IN  [groups |-> [c.groups EXCEPT ![q].starts = @ \cup DOMAIN new],
         spans |-> [k \in DOMAIN c.spans \cup keys |->
                        IF k \in keys THEN new[k.start] ELSE c.spans[k]],
         recency |-> Forget(c.recency, keys) \o KeysInOrder(q, DOMAIN new),
         used |-> Monus(c.used, SumBytes(c, keys \cap DOMAIN c.spans))
                  + SumFunctionOnSet([k \in keys |-> SpanBytes(new[k.start])], keys)]

(* Fault: one counter that moved forward is enough.                        *)
MutNotBefore(snapshot, stamp) == \E d \in DOMAIN stamp : snapshot[d] >= stamp[d]

(* How an insert's snapshot relates to the stamp of the group.             *)
NotBefore(snapshot, stamp) == \A d \in DOMAIN stamp : snapshot[d] >= stamp[d]

(* The insert is dropped: its rows predate what is stored.                 *)
Older(c, q, snapshot) ==
    q \in DOMAIN c.groups /\ ~NotBefore(snapshot, c.groups[q].stamp)

(* Fault: the group is restamped and keeps its spans.                      *)
MutReconcile(c, q, snapshot) ==
    LET group == [starts |-> {}, stamp |-> snapshot, known_end |-> None]
    IN  IF q \notin DOMAIN c.groups
        THEN [c EXCEPT
                !.groups = [p \in DOMAIN @ \cup {q} |-> IF p = q THEN group ELSE @[p]],
                !.used = @ + GROUP_OVERHEAD_BYTES]
        ELSE [c EXCEPT !.groups[q].stamp = snapshot]

(* The group an insert may fill: created, kept, or cleared and restamped.  *)
reconcile_epochs(c, q, snapshot) ==
    LET group == [starts |-> {}, stamp |-> snapshot, known_end |-> None]
    IN  IF q \notin DOMAIN c.groups
        THEN [c EXCEPT
                !.groups = [p \in DOMAIN @ \cup {q} |-> IF p = q THEN group ELSE @[p]],
                !.used = @ + GROUP_OVERHEAD_BYTES]
        ELSE IF c.groups[q].stamp = snapshot THEN c
        ELSE [clear_group_spans(c, q) EXCEPT !.groups[q].stamp = snapshot]

-----------------------------------------------------------------------------
(* Inserts.                                                                *)

HoldsRow(c, q, i) == \E k \in Keys(c, q) : i \in k.start .. k.start + c.spans[k].len - 1

(* The rows offset .. end-1 that no span holds, cut where a stored span    *)
(* ends or (the zero-row anchor) starts, and at every grid line.           *)
Pieces(c, q, offset, end) ==
    LET free == {i \in offset .. end - 1 : ~HoldsRow(c, q, i)}
        starts == {i \in free : i - 1 \notin free \/ i % SPAN_ROWS = 0 \/ i \in Starts(c, q)}
    IN  [s \in starts |->
            Cardinality({i \in s .. end - 1 : s + 1 .. i \subseteq free \ starts})]

(* An execution that ran short of its limit, or had none, knows the end.   *)
WithEnd(c, q, executed_limit, offset, returned) ==
    IF executed_limit = None \/ returned < executed_limit
    THEN [c EXCEPT !.groups[q].known_end = offset + returned]
    ELSE c

(* Fault: a group may be left without a span.                              *)
MutAnchored(c, q, offset, seen) == c

(* A group owns at least one span, or nothing would ever reclaim it: an    *)
(* empty answer is anchored by a zero-row span.                            *)
Anchored(c, q, offset, seen) ==
    IF Starts(c, q) = {} THEN store_spans(c, q, [s \in {offset} |-> [len |-> 0, seen |-> seen]]) ELSE c

insert_rows(c, q, snapshot, offset, executed_limit, returned, seen) ==
    IF budget = 0 \/ Older(c, q, snapshot) THEN c
    ELSE LET known == WithEnd(reconcile_epochs(c, q, snapshot), q,
                              executed_limit, offset, returned)
             pieces == Pieces(known, q, offset, offset + returned)
             new == [s \in DOMAIN pieces |-> [len |-> pieces[s], seen |-> seen]]
         IN  evict_to_budget(Anchored(store_spans(known, q, new), q, offset, seen), budget)

insert_count(c, q, snapshot, seen) ==
    IF budget = 0 \/ Older(c, q, snapshot) THEN c
    ELSE evict_to_budget(
            store_spans(reconcile_epochs(c, q, snapshot), q, [s \in {0} |-> [len |-> 0, seen |-> seen]]),
            budget)

-----------------------------------------------------------------------------
(* Lookups.                                                                *)

is_current(q) == q \in DOMAIN cache.groups /\ cache.groups[q].stamp = Now(epoch, q)

(* Where the answer to a window ends; None if nothing stored can tell.     *)
WantEnd(q, offset, limit) ==
    LET known_end == cache.groups[q].known_end
    IN  IF limit = None THEN known_end
        ELSE IF known_end = None THEN offset + limit
        ELSE Min2(offset + limit, known_end)

(* lookup_rows answers from the cache: spans cover the window.             *)
HitsRows(q, offset, limit) ==
    /\ budget # 0
    /\ is_current(q)
    /\ WantEnd(q, offset, limit) # None
    /\ \A i \in offset .. WantEnd(q, offset, limit) - 1 : HoldsRow(cache, q, i)

(* The rows of the answer, as the version each was read at.                *)
RowsAnswer(q, offset, limit) ==
    [i \in offset .. WantEnd(q, offset, limit) - 1 |->
        cache.spans[CHOOSE k \in Keys(cache, q) :
                        i \in k.start .. k.start + cache.spans[k].len - 1].seen]

HitsCount(q) == budget # 0 /\ is_current(q) /\ Key(q, 0) \in DOMAIN cache.spans

(* The spans a walk over the window reads: from the last one that starts   *)
(* at or before the offset up to the first gap.                            *)
Walked(q, offset, limit) ==
    LET end == WantEnd(q, offset, limit)
        first == {s \in Starts(cache, q) : s <= offset}
    IN  IF ~is_current(q) \/ end = None \/ first = {} THEN {}
        ELSE {s \in Starts(cache, q) :
                /\ end > offset
                /\ s >= Max(first) /\ s < end
                /\ \A i \in offset .. s - 1 : HoldsRow(cache, q, i)}

-----------------------------------------------------------------------------
(* The writers.                                                            *)

(* with_transaction: the commit of the one writer of an index database...  *)
IndexCommit(d) ==
    /\ unbumped[d] = 0 /\ version[d] < MaxCommits
    /\ version' = [version EXCEPT ![d] = @ + 1]
    /\ unbumped' = [unbumped EXCEPT ![d] = 1]
    /\ UNCHANGED <<epoch, clean, cache, budget, request>>

(* ... and bump_index_epoch after it.                                      *)
IndexBump(d) ==
    /\ unbumped[d] = 1
    /\ epoch' = [epoch EXCEPT ![d] = @ + 1]
    /\ unbumped' = [unbumped EXCEPT ![d] = 0]
    /\ UNCHANGED <<version, clean, cache, budget, request>>

(* A request opens a DbConnection<UserDataWrite>.                          *)
OpenUserWrite(d) ==
    /\ clean[d] + unbumped[d] < MaxConnections /\ epoch[d] < MaxCommits
    /\ clean' = [clean EXCEPT ![d] = @ + 1]
    /\ UNCHANGED <<version, epoch, unbumped, cache, budget, request>>

(* A write on it commits: its first, or another.                           *)
UserCommit(d) ==
    /\ version[d] < MaxCommits
    /\ \/ clean[d] > 0 /\ clean' = [clean EXCEPT ![d] = @ - 1]
                       /\ unbumped' = [unbumped EXCEPT ![d] = @ + 1]
       \/ unbumped[d] > 0 /\ UNCHANGED <<clean, unbumped>>
    /\ version' = [version EXCEPT ![d] = @ + 1]
    /\ UNCHANGED <<epoch, cache, budget, request>>

(* drop: the bump does not ask whether anything was written.               *)
ReleaseUserWrite(d) ==
    /\ \/ clean[d] > 0 /\ clean' = [clean EXCEPT ![d] = @ - 1] /\ UNCHANGED unbumped
       \/ unbumped[d] > 0 /\ unbumped' = [unbumped EXCEPT ![d] = @ - 1] /\ UNCHANGED clean
    /\ epoch' = [epoch EXCEPT ![d] = @ + 1]
    /\ UNCHANGED <<version, cache, budget, request>>

-----------------------------------------------------------------------------
(* The searches.                                                           *)

NoRequest == [pc |-> "idle"]

(* EpochSnapshot::take reads the index epoch, then the user-data epoch.    *)
Search(r, q, w) ==
    /\ request[r].pc = "idle"
    /\ budget # 0
    /\ w.limit = None => w.offset = 0
    /\ request' = [request EXCEPT ![r] =
            [pc |-> "snapshot", query |-> q, window |-> w,
             snapshot |-> [d \in Deps[q] \cap IndexDbs |-> epoch[d]]]]
    /\ UNCHANGED <<version, epoch, clean, unbumped, cache, budget>>

TakeUserEpoch(r) ==
    /\ request[r].pc = "snapshot"
    /\ LET R == request[r]
       IN  request' = [request EXCEPT ![r] =
            [pc |-> "lookup", query |-> R.query, window |-> R.window,
             snapshot |-> [d \in Deps[R.query] |->
                            IF d \in DOMAIN R.snapshot THEN R.snapshot[d] ELSE epoch[d]]]]
    /\ UNCHANGED <<version, epoch, clean, unbumped, cache, budget>>

(* lookup_rows and lookup_count: a hit is the answer, anything else runs   *)
(* the query.  A walk makes the spans it reads recently used, hit or miss. *)
Lookup(r) ==
    /\ request[r].pc = "lookup"
    /\ LET q == request[r].query
           w == request[r].window
           hit == IF q \in Counts THEN HitsCount(q) ELSE HitsRows(q, w.offset, w.limit)
           walked == IF budget = 0 \/ ~is_current(q) THEN {}
                     ELSE IF q \in Counts THEN {0} \cap Starts(cache, q)
                     ELSE Walked(q, w.offset, w.limit)
       IN  /\ request' = [request EXCEPT ![r] =
                            IF hit THEN NoRequest ELSE [@ EXCEPT !.pc = "execute"]]
           /\ cache' = [cache EXCEPT !.recency =
                            Forget(@, {Key(q, s) : s \in walked}) \o KeysInOrder(q, walked)]
    /\ UNCHANGED <<version, epoch, clean, unbumped, budget>>

(* The SQL runs: it sees the committed versions of this moment.            *)
Execute(r) ==
    /\ request[r].pc = "execute"
    /\ LET R == request[r]
       IN  request' = [request EXCEPT ![r] =
            [pc |-> "insert", query |-> R.query, window |-> R.window,
             snapshot |-> R.snapshot, seen |-> Now(version, R.query)]]
    /\ UNCHANGED <<version, epoch, clean, unbumped, cache, budget>>

(* execute_results: LIMIT max(page, prefetch) at the offset.               *)
ExecutedLimit(w) == IF w.limit = None THEN None ELSE Max2(w.limit, w.prefetch)

Returned(q, seen, w) ==
    LET rest == Monus(RowCount(q, seen), w.offset)
    IN  IF w.limit = None THEN rest ELSE Min2(ExecutedLimit(w), rest)

(* insert_rows and insert_count end the search.                            *)
Insert(r) ==
    /\ request[r].pc = "insert"
    /\ LET R == request[r]
           q == R.query
           w == R.window
       IN  cache' = IF q \in Counts THEN insert_count(cache, q, R.snapshot, R.seen)
                    ELSE insert_rows(cache, q, R.snapshot, w.offset, ExecutedLimit(w),
                                     Returned(q, R.seen, w), R.seen)
    /\ request' = [request EXCEPT ![r] = NoRequest]
    /\ UNCHANGED <<version, epoch, clean, unbumped, budget>>

(* The client disconnects, or the query fails.                             *)
Abandon(r) ==
    /\ request[r].pc # "idle"
    /\ request' = [request EXCEPT ![r] = NoRequest]
    /\ UNCHANGED <<version, epoch, clean, unbumped, cache, budget>>

(* PUT /api/search/cache.  Budgets are within the configured ceiling, which *)
(* the handler checks.                                                     *)
set_budget(bytes) ==
    /\ bytes # budget
    /\ budget' = bytes
    /\ cache' = IF bytes = 0 THEN EmptyCache ELSE evict_to_budget(cache, bytes)
    /\ UNCHANGED <<version, epoch, clean, unbumped, request>>

(* DELETE /api/search/cache, for both databases if both are named.         *)
clear(index_db, user_data_db) ==
    /\ cache' = IF index_db = None /\ user_data_db = None THEN EmptyCache
                ELSE drop_groups(cache,
                        {q \in DOMAIN cache.groups :
                            /\ index_db = None \/ index_db \in Deps[q]
                            /\ user_data_db = None \/ user_data_db \in Deps[q]})
    /\ UNCHANGED <<version, epoch, clean, unbumped, budget, request>>

-----------------------------------------------------------------------------
Init ==
    /\ version = [d \in Dbs |-> 0]
    /\ epoch = [d \in Dbs |-> 0]
    /\ clean = [d \in Dbs |-> 0]
    /\ unbumped = [d \in Dbs |-> 0]
    /\ cache = EmptyCache
    /\ budget \in Budgets
    /\ request = [r \in Requests |-> NoRequest]

Next ==
    \/ \E d \in IndexDbs : IndexCommit(d) \/ IndexBump(d)
    \/ \E d \in UserDbs : OpenUserWrite(d) \/ UserCommit(d) \/ ReleaseUserWrite(d)
    \/ \E r \in Requests : \E ask \in Asks[r] : Search(r, ask.query, ask.window)
    \/ \E r \in Requests :
        TakeUserEpoch(r) \/ Lookup(r) \/ Execute(r) \/ Insert(r) \/ Abandon(r)
    \/ \E bytes \in Budgets : set_budget(bytes)
    \/ \E index_db \in IndexDbs \cup {None}, user_data_db \in UserDbs \cup {None} :
        clear(index_db, user_data_db)

Spec == Init /\ [][Next]_vars

-----------------------------------------------------------------------------
(* Properties.                                                             *)

GroupOf(q) ==
    [starts : SUBSET Nat, stamp : Snapshot(q), known_end : Nat \cup {None}]

RequestOf(q) ==
    {NoRequest}
    \cup [pc : {"snapshot"}, query : {q}, window : Windows,
          snapshot : [Deps[q] \cap IndexDbs -> Nat]]
    \cup [pc : {"lookup", "execute"}, query : {q}, window : Windows, snapshot : Snapshot(q)]
    \cup [pc : {"insert"}, query : {q}, window : Windows, snapshot : Snapshot(q), seen : Seen(q)]

(* Every variable has its type: a group is stamped with, and a span was    *)
(* read at, one number for each database its query names.                  *)
TypeOK ==
    /\ version \in [Dbs -> 0 .. MaxCommits]
    /\ {epoch, clean, unbumped} \subseteq [Dbs -> Nat]
    /\ cache.used \in Nat /\ budget \in Nat
    /\ DOMAIN cache.groups \subseteq Queries
    /\ \A q \in DOMAIN cache.groups : cache.groups[q] \in GroupOf(q)
    /\ DOMAIN cache.spans \subseteq [query : Queries, start : Nat]
    /\ \A k \in DOMAIN cache.spans : cache.spans[k] \in [len : Nat, seen : Seen(k.query)]
    /\ cache.recency \in Seq(DOMAIN cache.spans)
    /\ DOMAIN request = Requests
    /\ \A r \in Requests : request[r] = NoRequest \/ \E q \in Queries : request[r] \in RequestOf(q)

(* No commit to a database of the query waits for its bump.                *)
Settled(q) == \A d \in Deps[q] : unbumped[d] = 0

(* The rows a fresh execution would return, as the version they are read at. *)
FreshRows(q, offset, limit) ==
    LET count == RowCount(q, Now(version, q))
        end == IF limit = None THEN count ELSE Min2(offset + limit, count)
    IN  [i \in offset .. end - 1 |-> Now(version, q)]

(* Unless a commit is still to be counted, whatever window a lookup answers *)
(* from the cache, gathered from any number of spans of any executions, is *)
(* what executing the query now would return: the same rows, the same end. *)
(* Executions run for seconds between their snapshot and their insert,     *)
(* while writers commit and newer executions insert (reconcile_epochs).    *)
HitIsFresh ==
    \A q \in Queries : Settled(q) =>
        /\ q \in Counts /\ HitsCount(q) => cache.spans[Key(q, 0)].seen = Now(version, q)
        /\ \A w \in Windows :
            q \notin Counts /\ HitsRows(q, w.offset, w.limit) =>
                RowsAnswer(q, w.offset, w.limit) = FreshRows(q, w.offset, w.limit)

(* The group index and the spans agree after every step, and every group   *)
(* owns a span: otherwise no eviction would ever reclaim its bytes.        *)
GroupsOwnSpans ==
    /\ \A k \in DOMAIN cache.spans : k.start \in Starts(cache, k.query)
    /\ \A q \in DOMAIN cache.groups :
        /\ cache.groups[q].starts # {}
        /\ \A s \in cache.groups[q].starts : Key(q, s) \in DOMAIN cache.spans

(* The LRU orders the spans, each once.                                    *)
LruOrdersSpans ==
    /\ Range(cache.recency) = DOMAIN cache.spans
    /\ Len(cache.recency) = Cardinality(DOMAIN cache.spans)

(* The bytes charged are those of the spans and groups that are there,     *)
(* after any sequence of trims, replacements, evictions and clears, and    *)
(* they are within the budget.                                             *)
BytesAccounted ==
    /\ cache.used = SumBytes(cache, DOMAIN cache.spans)
                        + Cardinality(DOMAIN cache.groups) * GROUP_OVERHEAD_BYTES
    /\ cache.used <= budget

(* The spans of a query do not overlap, none starts inside another, and    *)
(* none crosses a grid line.                                               *)
SpansOnGrid ==
    \A q \in DOMAIN cache.groups : \A j, k \in Keys(cache, q) :
        /\ j # k => j.start \notin k.start .. k.start + cache.spans[k].len - 1
        /\ cache.spans[k].len > 0 =>
            k.start \div SPAN_ROWS = (k.start + cache.spans[k].len - 1) \div SPAN_ROWS

(* The index, the LRU, the bytes charged and the spans themselves describe *)
(* one cache, whatever sequence of operations led to it.                   *)
CacheIsConsistent == GroupsOwnSpans /\ LruOrdersSpans /\ BytesAccounted /\ SpansOnGrid

Held(c, q) == UNION {k.start .. k.start + c.spans[k].len - 1 : k \in Keys(c, q)}

(* The whole answer of the request is in the cache after the step.         *)
AnswerStored(r) ==
    LET R == request[r]
    IN  /\ R.query \in DOMAIN cache'.groups
        /\ R.query \notin Counts =>
            R.window.offset .. R.window.offset + Returned(R.query, R.seen, R.window) - 1
                \subseteq Held(cache', R.query)

(* An insert never costs another result that is still true: if rows of a   *)
(* current group are lost, then keeping the lost ones beside the new       *)
(* answer would have exceeded the budget, or the answer is too large to    *)
(* stay whole even alone.  A late execution must not clear what a newer    *)
(* one installed.                                                          *)
InsertKeepsCurrentRows ==
    [][\A q \in Queries, r \in Requests :
        is_current(q) /\ Insert(r) /\ ~(Held(cache, q) \subseteq Held(cache', q))
        => \/ cache'.used + SumBytes(cache, DOMAIN cache.spans \ DOMAIN cache'.spans)
                + Cardinality(DOMAIN cache.groups \ DOMAIN cache'.groups) * GROUP_OVERHEAD_BYTES
                > budget
           \/ ~AnswerStored(r)]_vars

(* The comment on GroupIndex::known_end, `absolute row count of the result *)
(* set' (search_cache.rs:133), and insert_rows' `authoritative about where *)
(* the result set ends'.                                                   *)
KnownEndIsRowCount ==
    \A q \in DOMAIN cache.groups :
        Settled(q) /\ is_current(q) /\ cache.groups[q].known_end # None
            => cache.groups[q].known_end = RowCount(q, Now(version, q))

=============================================================================
