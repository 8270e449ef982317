---------------------------- MODULE CacheProofs ----------------------------
(***************************************************************************)
(* What the two caches promise, for every value of the constants.          *)
(*                                                                         *)
(* The search cache: a hit is a fresh answer.  As long as no commit waits  *)
(* for its bump, whatever is stamped with the current epochs was read at   *)
(* the current versions; a commit ends the premise until its bump, and the *)
(* bump ends it for the old stamps; stamps are sampled before the          *)
(* execution and never ahead of the epochs.  And its books balance: the    *)
(* LRU lists every span once and what is charged is what is there.         *)
(* From the books it follows that an insert, which evicts only what does   *)
(* not fit, takes rows of a current result only where the budget cannot    *)
(* hold them beside the new answer.                                        *)
(*                                                                         *)
(* The artifact cache: its rows are within the budget once nobody is at    *)
(* work, since until then one worker has yet to read the total or counts   *)
(* at least what is there; a row describes the bytes under its name; and   *)
(* an opening leaves no row without its file.                              *)
(*                                                                         *)
(* Sums over finite sets and the order of use are recursive functions: the *)
(* lemmas in the middle show that they exist and what they come to.        *)
(***************************************************************************)
EXTENDS SearchCache, TranscodeCache, FiniteSetTheorems, WellFoundedInduction, TLAPS

Fields == {"groups", "spans", "recency", "used"}

Group(q) == [starts : SUBSET Nat, stamp : Snapshot(q), known_end : Nat \cup {None}]

(* What was read under the snapshot is what the databases hold.            *)
Vouched(q, snapshot) == Settled(q) /\ snapshot = Now(epoch, q)

Behind(q, snapshot) == \A d \in Deps[q] : snapshot[d] <= epoch[d]

Count(q) == RowCount(q, Now(version, q))

(* A span that holds rows the query has now.                               *)
SpanTrue(q, start, span) ==
    span.seen = Now(version, q) /\ (span.len = 0 \/ start + span.len <= Count(q))

(* The cache is well formed...                                             *)
Shape(c) ==
    /\ DOMAIN c = Fields
    /\ DOMAIN c.groups \subseteq Queries
    /\ DOMAIN c.spans \subseteq [query : Queries, start : Nat]
    /\ \A q \in DOMAIN c.groups : c.groups[q] \in Group(q)
    /\ \A k \in DOMAIN c.spans :
        /\ c.spans[k].len \in Nat
        /\ k.query \in DOMAIN c.groups /\ k.start \in c.groups[k.query].starts

(* ... and a group whose stamp vouches for it is true.                     *)
GroupTrue(c, q) ==
    /\ \A k \in Keys(c, q) : SpanTrue(q, k.start, c.spans[k])
    /\ c.groups[q].known_end # None => Count(q) <= c.groups[q].known_end

CacheInv(c) ==
    /\ Shape(c)
    /\ \A q \in DOMAIN c.groups :
        /\ Behind(q, c.groups[q].stamp)
        /\ Vouched(q, c.groups[q].stamp) => GroupTrue(c, q)

RequestTrue(R, q) ==
    /\ R \in RequestOf(q) /\ R.pc # "idle"
    /\ R.window.limit = None => R.window.offset = 0
    /\ \A d \in DOMAIN R.snapshot : R.snapshot[d] <= epoch[d]
    /\ R.pc = "insert" /\ Vouched(q, R.snapshot) => R.seen = Now(version, q)

RequestInv ==
    /\ DOMAIN request = Requests
    /\ \A r \in Requests :
        request[r] = NoRequest \/ \E q \in Queries : RequestTrue(request[r], q)

Counters ==
    /\ version \in [Dbs -> 0 .. MaxCommits]
    /\ epoch \in [Dbs -> Nat] /\ clean \in [Dbs -> Nat] /\ unbumped \in [Dbs -> Nat]

IInv == Counters /\ CacheInv(cache) /\ RequestInv

-----------------------------------------------------------------------------
(* The cache without spans.                                                *)
LEMMA EmptyInv == CacheInv(EmptyCache)
BY DEF CacheInv, Shape, EmptyCache, Fields

(* Popping spans leaves the truth of the others alone.                     *)
LEMMA DetachInv ==
    ASSUME NEW c, NEW keys, CacheInv(c)
    PROVE  CacheInv(Detach(c, keys))
<1> DEFINE hit == {q \in DOMAIN c.groups : \E k \in keys : k.query = q}
           Left(q) == {s \in c.groups[q].starts : Key(q, s) \notin keys}
           gone == {q \in hit : Left(q) = {}}
           D == Detach(c, keys)
<1>1. /\ D.groups = [q \in DOMAIN c.groups \ gone |-> [c.groups[q] EXCEPT !.starts = Left(q)]]
      /\ D.spans = [k \in DOMAIN c.spans \ keys |-> c.spans[k]]
      /\ DOMAIN D = Fields
  BY DEF Detach, Fields
<1> HIDE DEF D
<1>2. ASSUME NEW q \in DOMAIN D.groups
      PROVE  /\ q \in DOMAIN c.groups /\ D.groups[q] \in Group(q)
             /\ D.groups[q].starts = Left(q)
             /\ D.groups[q].stamp = c.groups[q].stamp
             /\ D.groups[q].known_end = c.groups[q].known_end
  <2>1. q \in DOMAIN c.groups /\ D.groups[q] = [c.groups[q] EXCEPT !.starts = Left(q)]
    BY <1>1
  <2>2. c.groups[q] \in Group(q)
    BY <2>1 DEF CacheInv, Shape
  <2> QED
    BY <2>1, <2>2 DEF Group
<1>3. ASSUME NEW k \in DOMAIN D.spans
      PROVE  /\ k \in DOMAIN c.spans /\ D.spans[k] = c.spans[k]
             /\ k.query \in DOMAIN D.groups /\ k.start \in D.groups[k.query].starts
  <2>1. k \in DOMAIN c.spans /\ k \notin keys /\ D.spans[k] = c.spans[k]
    BY <1>1
  <2>2. k \in [query : Queries, start : Nat] /\ k.query \in DOMAIN c.groups
        /\ k.start \in c.groups[k.query].starts
    BY <2>1 DEF CacheInv, Shape
  <2>3. k.start \in Left(k.query)
    BY <2>1, <2>2 DEF Key
  <2> QED
    BY <2>1, <2>2, <2>3, <1>1, <1>2
<1>4. Shape(D)
  <2>1. DOMAIN D.groups \subseteq Queries /\ DOMAIN D.spans \subseteq [query : Queries, start : Nat]
    BY <1>1 DEF CacheInv, Shape
  <2>2. \A k \in DOMAIN D.spans : D.spans[k].len \in Nat
    BY <1>3 DEF CacheInv, Shape
  <2> QED
    BY <1>1, <1>2, <1>3, <2>1, <2>2 DEF Shape
<1>5. ASSUME NEW q \in DOMAIN D.groups
      PROVE  /\ Behind(q, D.groups[q].stamp)
             /\ Vouched(q, D.groups[q].stamp) => GroupTrue(D, q)
  <2>1. Behind(q, c.groups[q].stamp) /\ (Vouched(q, c.groups[q].stamp) => GroupTrue(c, q))
    BY <1>2 DEF CacheInv
  <2>2. ASSUME GroupTrue(c, q) PROVE GroupTrue(D, q)
    BY <2>2, <1>2, <1>3 DEF GroupTrue, Keys
  <2> QED
    BY <2>1, <2>2, <1>2
<1> QED
  BY <1>4, <1>5 DEF CacheInv, D

(* An eviction pops some of the spans.                                     *)
LEMMA EvictInv ==
    ASSUME NEW c, NEW bytes, CacheInv(c)
    PROVE  CacheInv(evict_to_budget(c, bytes))
BY EmptyInv, DetachInv DEF evict_to_budget

(* A clear drops whole groups.                                             *)
LEMMA DropInv ==
    ASSUME NEW c, NEW qs, CacheInv(c)
    PROVE  CacheInv(drop_groups(c, qs))
<1> DEFINE D == drop_groups(c, qs)
           keys == {k \in DOMAIN c.spans : k.query \in qs}
<1>1. /\ D.groups = [p \in DOMAIN c.groups \ qs |-> c.groups[p]]
      /\ D.spans = [k \in DOMAIN c.spans \ keys |-> c.spans[k]]
      /\ DOMAIN D = Fields
  BY DEF drop_groups, Fields
<1> HIDE DEF D
<1>2. Shape(D)
  BY <1>1 DEF CacheInv, Shape
<1>3. ASSUME NEW q \in DOMAIN D.groups
      PROVE  /\ Behind(q, D.groups[q].stamp)
             /\ Vouched(q, D.groups[q].stamp) => GroupTrue(D, q)
  BY <1>1 DEF CacheInv, GroupTrue, Keys
<1> QED
  BY <1>2, <1>3 DEF CacheInv, D

(* The group an insert fills bears its snapshot, and only true spans.      *)
LEMMA ReconcileInv ==
    ASSUME NEW c, NEW q \in Queries, NEW snapshot \in Snapshot(q),
           CacheInv(c), Behind(q, snapshot)
    PROVE  LET R == reconcile_epochs(c, q, snapshot)
           IN  CacheInv(R) /\ q \in DOMAIN R.groups /\ R.groups[q].stamp = snapshot
<1> DEFINE R == reconcile_epochs(c, q, snapshot)
           group == [starts |-> {}, stamp |-> snapshot, known_end |-> None]
<1> SUFFICES CacheInv(R) /\ q \in DOMAIN R.groups /\ R.groups[q].stamp = snapshot
  OBVIOUS
<1>0. group \in Group(q) /\ group.stamp = snapshot /\ group.known_end = None
  BY DEF Group
<1>1. CASE q \notin DOMAIN c.groups
  <2>1. /\ R.groups = [p \in DOMAIN c.groups \cup {q} |-> IF p = q THEN group ELSE c.groups[p]]
        /\ R.spans = c.spans /\ DOMAIN R = Fields
    BY <1>1 DEF reconcile_epochs, CacheInv, Shape, Fields
  <2> HIDE DEF R, group
  <2>2. Shape(R)
    <3>1. /\ DOMAIN R.groups \subseteq Queries
          /\ DOMAIN R.spans \subseteq [query : Queries, start : Nat]
          /\ \A p \in DOMAIN R.groups : R.groups[p] \in Group(p)
      BY <2>1, <1>0 DEF CacheInv, Shape
    <3>2. \A k \in DOMAIN R.spans :
            /\ R.spans[k].len \in Nat
            /\ k.query \in DOMAIN R.groups /\ k.start \in R.groups[k.query].starts
      BY <1>1, <2>1 DEF CacheInv, Shape
    <3> QED
      BY <2>1, <3>1, <3>2 DEF Shape
  <2>3. Keys(R, q) = {}
    BY <1>1, <2>1 DEF CacheInv, Shape, Keys
  <2>4. ASSUME NEW p \in DOMAIN R.groups
        PROVE  /\ Behind(p, R.groups[p].stamp)
               /\ Vouched(p, R.groups[p].stamp) => GroupTrue(R, p)
    <3>1. CASE p = q
      BY <3>1, <1>0, <2>1, <2>3 DEF GroupTrue
    <3>2. CASE p # q
      BY <3>2, <2>1 DEF CacheInv, GroupTrue, Keys
    <3> QED
      BY <3>1, <3>2
  <2> QED
    BY <1>0, <2>1, <2>2, <2>4 DEF CacheInv
<1>2. CASE q \in DOMAIN c.groups /\ c.groups[q].stamp = snapshot
  BY <1>2 DEF reconcile_epochs
<1>3. CASE q \in DOMAIN c.groups /\ c.groups[q].stamp # snapshot
  <2> DEFINE C == clear_group_spans(c, q)
  <2>0. c.groups[q] \in Group(q)
    BY <1>3 DEF CacheInv, Shape
  <2>1. /\ C.groups = [c.groups EXCEPT ![q].starts = {}, ![q].known_end = None]
        /\ C.spans = [k \in DOMAIN c.spans \ Keys(c, q) |-> c.spans[k]]
        /\ DOMAIN C = Fields
    BY DEF clear_group_spans, Fields
  <2> HIDE DEF C
  <2>2. /\ R.groups = [C.groups EXCEPT ![q].stamp = snapshot]
        /\ R.spans = C.spans /\ DOMAIN R = Fields
    BY <1>3, <2>1 DEF reconcile_epochs, Fields, C
  <2> HIDE DEF R
  <2>3. /\ DOMAIN R.groups = DOMAIN c.groups
        /\ R.groups[q] = group
        /\ \A p \in DOMAIN c.groups \ {q} : R.groups[p] = c.groups[p]
    BY <2>0, <2>1, <2>2, <1>3 DEF Group
  <2>4. Keys(R, q) = {} /\ \A p \in Queries \ {q} : Keys(R, p) = Keys(c, p)
    BY <2>1, <2>2 DEF Keys
  <2>5. \A k \in DOMAIN R.spans : k \in DOMAIN c.spans /\ R.spans[k] = c.spans[k] /\ k.query # q
    BY <2>1, <2>2 DEF Keys
  <2>6. Shape(R)
    BY <1>0, <2>2, <2>3, <2>5 DEF CacheInv, Shape
  <2>7. ASSUME NEW p \in DOMAIN R.groups
        PROVE  /\ Behind(p, R.groups[p].stamp)
               /\ Vouched(p, R.groups[p].stamp) => GroupTrue(R, p)
    <3>1. CASE p = q
      BY <3>1, <2>3, <2>4 DEF GroupTrue
    <3>2. CASE p # q
      BY <3>2, <2>3, <2>4, <2>5 DEF CacheInv, Shape, GroupTrue, Keys
    <3> QED
      BY <3>1, <3>2
  <2> QED
    BY <1>3, <2>3, <2>6, <2>7 DEF CacheInv
<1> QED
  BY <1>1, <1>2, <1>3

(* An end that is not before the real one may be recorded.                 *)
LEMMA WithEndInv ==
    ASSUME NEW c, NEW q \in DOMAIN c.groups, NEW executed_limit,
           NEW offset \in Nat, NEW returned \in Nat, CacheInv(c),
           Vouched(q, c.groups[q].stamp) /\ (executed_limit = None \/ returned < executed_limit)
                => Count(q) <= offset + returned
    PROVE  LET E == WithEnd(c, q, executed_limit, offset, returned)
           IN  /\ CacheInv(E) /\ q \in DOMAIN E.groups
               /\ E.groups[q].stamp = c.groups[q].stamp
<1> DEFINE short == executed_limit = None \/ returned < executed_limit
           E == [c EXCEPT !.groups[q].known_end = offset + returned]
<1>1. CASE ~short
  BY <1>1 DEF WithEnd
<1>2. CASE short
  <2>0. c.groups[q] \in Group(q) /\ offset + returned \in Nat
    BY DEF CacheInv, Shape
  <2>1. /\ E.groups = [c.groups EXCEPT ![q].known_end = offset + returned]
        /\ E.spans = c.spans /\ DOMAIN E = Fields
    BY DEF CacheInv, Shape, Fields
  <2>2. WithEnd(c, q, executed_limit, offset, returned) = E
    BY <1>2 DEF WithEnd
  <2> HIDE DEF E
  <2>3. /\ DOMAIN E.groups = DOMAIN c.groups
        /\ E.groups[q] \in Group(q) /\ E.groups[q].stamp = c.groups[q].stamp
        /\ E.groups[q].starts = c.groups[q].starts
        /\ E.groups[q].known_end = offset + returned
        /\ \A p \in DOMAIN c.groups \ {q} : E.groups[p] = c.groups[p]
    BY <2>0, <2>1 DEF Group
  <2>4. Shape(E)
    BY <2>1, <2>3 DEF CacheInv, Shape
  <2>5. ASSUME NEW p \in DOMAIN E.groups
        PROVE  /\ Behind(p, E.groups[p].stamp)
               /\ Vouched(p, E.groups[p].stamp) => GroupTrue(E, p)
    <3>1. CASE p = q
      BY <3>1, <2>1, <2>3, <1>2 DEF CacheInv, GroupTrue, Keys
    <3>2. CASE p # q
      BY <3>2, <2>1, <2>3 DEF CacheInv, GroupTrue, Keys
    <3> QED
      BY <3>1, <3>2
  <2> QED
    BY <2>2, <2>3, <2>4, <2>5 DEF CacheInv
<1> QED
  BY <1>1, <1>2

(* Spans that are true under the stamp of their group may be stored.       *)
LEMMA StoreInv ==
    ASSUME NEW c, NEW q \in DOMAIN c.groups, NEW new, CacheInv(c),
           DOMAIN new \subseteq Nat,
           \A s \in DOMAIN new : new[s].len \in Nat,
           Vouched(q, c.groups[q].stamp) => \A s \in DOMAIN new : SpanTrue(q, s, new[s])
    PROVE  LET S == store_spans(c, q, new)
           IN  /\ CacheInv(S) /\ q \in DOMAIN S.groups
               /\ S.groups[q].stamp = c.groups[q].stamp
<1> DEFINE S == store_spans(c, q, new)
           keys == {Key(q, s) : s \in DOMAIN new}
<1>0. c.groups[q] \in Group(q) /\ q \in Queries
  BY DEF CacheInv, Shape
<1>1. /\ S.groups = [c.groups EXCEPT ![q].starts = @ \cup DOMAIN new]
      /\ S.spans = [k \in DOMAIN c.spans \cup keys |->
                        IF k \in keys THEN new[k.start] ELSE c.spans[k]]
      /\ DOMAIN S = Fields
  BY DEF store_spans, Fields
<1> HIDE DEF S
<1>2. \A k \in keys : k \in [query : Queries, start : Nat] /\ k.query = q /\ k.start \in DOMAIN new
  BY <1>0 DEF Key
<1>3. /\ DOMAIN S.groups = DOMAIN c.groups
      /\ S.groups[q] \in Group(q) /\ S.groups[q].stamp = c.groups[q].stamp
      /\ S.groups[q].starts = c.groups[q].starts \cup DOMAIN new
      /\ S.groups[q].known_end = c.groups[q].known_end
      /\ \A p \in DOMAIN c.groups \ {q} : S.groups[p] = c.groups[p]
  BY <1>0, <1>1 DEF Group
<1>4. Shape(S)
  <2>1. /\ DOMAIN S.spans \subseteq [query : Queries, start : Nat]
        /\ \A p \in DOMAIN S.groups : S.groups[p] \in Group(p)
    BY <1>1, <1>2, <1>3 DEF CacheInv, Shape
  <2>2. ASSUME NEW k \in DOMAIN S.spans
        PROVE  /\ S.spans[k].len \in Nat
               /\ k.query \in DOMAIN S.groups /\ k.start \in S.groups[k.query].starts
    <3>1. CASE k \in keys
      BY <3>1, <1>1, <1>2, <1>3
    <3>2. CASE k \notin keys
      BY <3>2, <1>1, <1>3 DEF CacheInv, Shape
    <3> QED
      BY <3>1, <3>2
  <2> QED
    BY <2>1, <2>2, <1>1, <1>3 DEF CacheInv, Shape
<1>5. ASSUME NEW p \in DOMAIN S.groups
      PROVE  /\ Behind(p, S.groups[p].stamp)
             /\ Vouched(p, S.groups[p].stamp) => GroupTrue(S, p)
  <2>1. CASE p = q
    <3>1. Behind(p, S.groups[p].stamp)
      BY <2>1, <1>3 DEF CacheInv
    <3>2. ASSUME Vouched(p, S.groups[p].stamp) PROVE GroupTrue(S, p)
      <4>1. GroupTrue(c, q) /\ \A s \in DOMAIN new : SpanTrue(q, s, new[s])
        BY <3>2, <2>1, <1>3 DEF CacheInv
      <4>2. ASSUME NEW k \in Keys(S, q) PROVE SpanTrue(q, k.start, S.spans[k])
        <5>1. CASE k \in keys
          BY <5>1, <4>1, <1>1, <1>2
        <5>2. CASE k \notin keys
          BY <5>2, <4>1, <1>1 DEF Keys, GroupTrue
        <5> QED
          BY <5>1, <5>2
      <4> QED
        BY <4>1, <4>2, <2>1, <1>3 DEF GroupTrue
    <3> QED
      BY <3>1, <3>2
  <2>2. CASE p # q
    <3>1. Keys(S, p) = Keys(c, p) /\ \A k \in Keys(c, p) : S.spans[k] = c.spans[k]
      BY <2>2, <1>1, <1>2 DEF Keys
    <3> QED
      BY <3>1, <2>2, <1>3 DEF CacheInv, GroupTrue
  <2> QED
    BY <2>1, <2>2
<1> QED
  BY <1>3, <1>4, <1>5 DEF CacheInv, S

-----------------------------------------------------------------------------
(* A piece is a part of the rows inserted.                                 *)
LEMMA PiecesRange ==
    ASSUME NEW c, NEW q, NEW offset \in Nat, NEW end \in Nat
    PROVE  /\ DOMAIN Pieces(c, q, offset, end) \subseteq offset .. end - 1
           /\ \A s \in DOMAIN Pieces(c, q, offset, end) :
                /\ Pieces(c, q, offset, end)[s] \in Nat
                /\ s + Pieces(c, q, offset, end)[s] <= end
<1> DEFINE free == {i \in offset .. end - 1 : ~HoldsRow(c, q, i)}
           starts == {i \in free : i - 1 \notin free \/ i % SPAN_ROWS = 0 \/ i \in Starts(c, q)}
           Keeps(s) == {i \in s .. end - 1 : s + 1 .. i \subseteq free \ starts}
<1>1. Pieces(c, q, offset, end) = [s \in starts |-> Cardinality(Keeps(s))]
  BY DEF Pieces
<1>2. starts \subseteq offset .. end - 1
  OBVIOUS
<1>3. ASSUME NEW s \in starts
      PROVE  Cardinality(Keeps(s)) \in Nat /\ s + Cardinality(Keeps(s)) <= end
  <2>1. s \in Int /\ s <= end - 1 /\ Keeps(s) \subseteq s .. end - 1
    BY <1>2
  <2>2. IsFiniteSet(s .. end - 1) /\ Cardinality(s .. end - 1) = end - s
    BY <2>1, FS_Interval
  <2>3. /\ Cardinality(Keeps(s)) \in Nat
        /\ Cardinality(Keeps(s)) <= Cardinality(s .. end - 1)
    BY <2>1, <2>2, FS_Subset, FS_CardinalityType
  <2> QED
    BY <2>1, <2>2, <2>3
<1> HIDE DEF starts, Keeps
<1> QED
  BY <1>1, <1>2, <1>3

(* An execution returns rows that are there, and a short one all the rest. *)
LEMMA ReturnedRows ==
    ASSUME NEW q \in Queries, NEW seen \in Seen(q), NEW w \in Windows,
           w.limit = None => w.offset = 0
    PROVE  LET n == Returned(q, seen, w)
           IN  /\ n \in Nat
               /\ n = 0 \/ w.offset + n <= RowCount(q, seen)
               /\ ExecutedLimit(w) = None \/ n < ExecutedLimit(w)
                    => RowCount(q, seen) <= w.offset + n
<1>1. RowCount(q, seen) \in Nat
  BY RowCountAssumption
<1>2. w.offset \in Nat /\ (w.limit = None \/ w.limit \in Nat) /\ w.prefetch \in Nat
  BY WindowsAssumption
<1> QED
  BY <1>1, <1>2, NoneAssumption DEF Returned, ExecutedLimit, Monus, Max2, Min2

(* The cache an insert leaves before it evicts.                            *)
FilledRows(c, q, snapshot, offset, limit, returned, seen) ==
    LET known == WithEnd(reconcile_epochs(c, q, snapshot), q, limit, offset, returned)
        pieces == Pieces(known, q, offset, offset + returned)
        new == [s \in DOMAIN pieces |-> [len |-> pieces[s], seen |-> seen]]
    IN  Anchored(store_spans(known, q, new), q, offset, seen)

FilledCount(c, q, snapshot, seen) ==
    store_spans(reconcile_epochs(c, q, snapshot), q, [s \in {0} |-> [len |-> 0, seen |-> seen]])

LEMMA FilledRowsInv ==
    ASSUME CacheInv(cache), NEW q \in Queries, Count(q) \in Nat, NEW snapshot \in Snapshot(q), Behind(q, snapshot),
           NEW offset \in Nat, NEW limit, NEW returned \in Nat, NEW seen,
           Vouched(q, snapshot) =>
                /\ seen = Now(version, q)
                /\ returned = 0 \/ offset + returned <= Count(q)
                /\ limit = None \/ returned < limit => Count(q) <= offset + returned
    PROVE  CacheInv(FilledRows(cache, q, snapshot, offset, limit, returned, seen))
<1> DEFINE R == reconcile_epochs(cache, q, snapshot)
           K == WithEnd(R, q, limit, offset, returned)
           pieces == Pieces(K, q, offset, offset + returned)
           new == [s \in DOMAIN pieces |-> [len |-> pieces[s], seen |-> seen]]
           S == store_spans(K, q, new)
           A == Anchored(S, q, offset, seen)
<1>1. CacheInv(R) /\ q \in DOMAIN R.groups /\ R.groups[q].stamp = snapshot
  BY ReconcileInv
<1> HIDE DEF R
<1>2. CacheInv(K) /\ q \in DOMAIN K.groups /\ K.groups[q].stamp = snapshot
  BY <1>1, WithEndInv
<1> HIDE DEF K
<1>3. /\ DOMAIN pieces \subseteq Nat
      /\ \A s \in DOMAIN pieces :
            pieces[s] \in Nat /\ s < offset + returned /\ offset <= s
            /\ s + pieces[s] <= offset + returned
  <2>1. offset + returned \in Nat
    OBVIOUS
  <2>2. /\ DOMAIN pieces \subseteq offset .. (offset + returned) - 1
        /\ \A s \in DOMAIN pieces : pieces[s] \in Nat /\ s + pieces[s] <= offset + returned
    BY <2>1, PiecesRange
  <2> HIDE DEF pieces
  <2> QED
    BY <2>1, <2>2
<1> HIDE DEF pieces
<1>4. /\ DOMAIN new \subseteq Nat
      /\ \A s \in DOMAIN new : new[s].len \in Nat
      /\ Vouched(q, snapshot) => \A s \in DOMAIN new : SpanTrue(q, s, new[s])
  <2>2. ASSUME Vouched(q, snapshot), NEW s \in DOMAIN new PROVE SpanTrue(q, s, new[s])
    <3>1. new[s].seen = Now(version, q) /\ new[s].len = pieces[s]
      BY <2>2
    <3>2. returned # 0
      BY <1>3
    <3>3. offset + returned <= Count(q) /\ s + pieces[s] <= offset + returned
      BY <2>2, <3>2, <1>3
    <3>4. pieces[s] = 0 \/ s + pieces[s] <= Count(q)
      BY <3>3, <1>3
    <3> QED
      BY <3>1, <3>4 DEF SpanTrue
  <2> QED
    BY <1>3, <2>2
<1> HIDE DEF new
<1>5. CacheInv(S) /\ q \in DOMAIN S.groups /\ S.groups[q].stamp = snapshot
  BY <1>2, <1>4, StoreInv
<1> HIDE DEF S
<1>6. CacheInv(A)
  <2> USE DEF A
  <2> DEFINE anchor == [s \in {offset} |-> [len |-> 0, seen |-> seen]]
  <2>1. /\ DOMAIN anchor \subseteq Nat
        /\ \A s \in DOMAIN anchor : anchor[s].len \in Nat
        /\ Vouched(q, snapshot) => \A s \in DOMAIN anchor : SpanTrue(q, s, anchor[s])
    BY DEF SpanTrue
  <2> HIDE DEF anchor
  <2>2. CacheInv(store_spans(S, q, anchor))
    BY <1>5, <2>1, StoreInv
  <2>3. A = S \/ A = store_spans(S, q, anchor)
    BY DEF Anchored, anchor
  <2> QED
    BY <1>5, <2>2, <2>3
<1> HIDE DEF A
<1> QED
  BY <1>6 DEF FilledRows, R, K, pieces, new, S, A

LEMMA FilledCountInv ==
    ASSUME CacheInv(cache), NEW q \in Queries, NEW snapshot \in Snapshot(q),
           Behind(q, snapshot), NEW seen, Vouched(q, snapshot) => seen = Now(version, q)
    PROVE  CacheInv(FilledCount(cache, q, snapshot, seen))
<1> DEFINE R == reconcile_epochs(cache, q, snapshot)
           new == [s \in {0} |-> [len |-> 0, seen |-> seen]]
<1>1. CacheInv(R) /\ q \in DOMAIN R.groups /\ R.groups[q].stamp = snapshot
  BY ReconcileInv
<1> HIDE DEF R
<1>2. /\ DOMAIN new \subseteq Nat
      /\ \A s \in DOMAIN new : new[s].len \in Nat
      /\ Vouched(q, snapshot) => \A s \in DOMAIN new : SpanTrue(q, s, new[s])
  BY DEF SpanTrue
<1> HIDE DEF new
<1>3. CacheInv(store_spans(R, q, new))
  BY <1>1, <1>2, StoreInv
<1> QED
  BY <1>3 DEF FilledCount, R, new

LEMMA InsertIs ==
    ASSUME NEW q, NEW snapshot, NEW offset, NEW limit, NEW returned, NEW seen
    PROVE  LET I == insert_rows(cache, q, snapshot, offset, limit, returned, seen)
               F == FilledRows(cache, q, snapshot, offset, limit, returned, seen)
               C == insert_count(cache, q, snapshot, seen)
               G == FilledCount(cache, q, snapshot, seen)
           IN  /\ I = cache \/ (~Older(cache, q, snapshot) /\ I = evict_to_budget(F, budget))
               /\ C = cache \/ (~Older(cache, q, snapshot) /\ C = evict_to_budget(G, budget))
BY DEF insert_rows, insert_count, FilledRows, FilledCount

-----------------------------------------------------------------------------
(* A step of a writer keeps the invariant if whatever is vouched for after *)
(* it was before, at the same versions.                                    *)
LEMMA WriterStep ==
    ASSUME IInv, Counters', UNCHANGED <<cache, request>>,
           \A d \in Dbs : epoch[d] <= epoch'[d],
           \A q \in Queries : \A snapshot \in Snapshot(q) :
                Behind(q, snapshot) /\ Vouched(q, snapshot)' =>
                    Vouched(q, snapshot) /\ Now(version, q)' = Now(version, q)
    PROVE  IInv'
<1>0. \A q \in Queries : Deps[q] \subseteq Dbs
  BY DepsAssumption
<1>1. ASSUME NEW q \in Queries, NEW snapshot \in Snapshot(q), Behind(q, snapshot)
      PROVE  Behind(q, snapshot)'
  <2> SUFFICES ASSUME NEW d \in Deps[q] PROVE snapshot[d] <= epoch'[d]
    BY DEF Behind
  <2> QED
    BY <1>0, <1>1 DEF Behind, Snapshot, IInv, Counters
<1>2. Shape(cache)'
  BY DEF IInv, CacheInv, Shape, Group, Snapshot
<1>3. ASSUME NEW q \in DOMAIN cache.groups
      PROVE  /\ Behind(q, cache.groups[q].stamp)'
             /\ Vouched(q, cache.groups[q].stamp)' => GroupTrue(cache, q)'
  <2>1. q \in Queries /\ cache.groups[q].stamp \in Snapshot(q) /\ Behind(q, cache.groups[q].stamp)
    BY DEF IInv, CacheInv, Shape, Group
  <2>2. ASSUME Vouched(q, cache.groups[q].stamp)' PROVE GroupTrue(cache, q)'
    <3>1. Vouched(q, cache.groups[q].stamp) /\ Now(version, q)' = Now(version, q)
      BY <2>1, <2>2
    <3>2. GroupTrue(cache, q)
      BY <3>1 DEF IInv, CacheInv
    <3> QED
      BY <3>1, <3>2 DEF GroupTrue, Keys, SpanTrue, Count
  <2> QED
    BY <1>1, <2>1, <2>2
<1>4. CacheInv(cache)'
  BY <1>2, <1>3 DEF CacheInv
<1>5. ASSUME NEW R, NEW q \in Queries, RequestTrue(R, q) PROVE RequestTrue(R, q)'
  <2>1. /\ DOMAIN R.snapshot \subseteq Deps[q]
        /\ \A d \in DOMAIN R.snapshot : R.snapshot[d] \in Nat
        /\ R.pc = "insert" => R.snapshot \in Snapshot(q)
    BY <1>5 DEF RequestTrue, RequestOf, NoRequest, Snapshot
  <2>2. ASSUME NEW d \in DOMAIN R.snapshot PROVE R.snapshot[d] <= epoch'[d]
    <3>1. d \in Dbs /\ R.snapshot[d] \in Nat /\ R.snapshot[d] <= epoch[d]
      BY <1>0, <1>5, <2>1 DEF RequestTrue
    <3> QED
      BY <3>1 DEF IInv, Counters
  <2>3. ASSUME R.pc = "insert", Vouched(q, R.snapshot)' PROVE R.seen = Now(version, q)'
    <3>1. Behind(q, R.snapshot)
      BY <1>5, <2>1, <2>3 DEF Behind, RequestTrue, Snapshot
    <3>2. Vouched(q, R.snapshot) /\ Now(version, q)' = Now(version, q)
      BY <2>1, <2>3, <3>1
    <3> QED
      BY <1>5, <2>3, <3>2 DEF RequestTrue
  <2>4. RequestOf(q)' = RequestOf(q)
    BY DEF RequestOf, NoRequest, Snapshot, Seen
  <2> QED
    BY <1>5, <2>2, <2>3, <2>4 DEF RequestTrue
<1>6. RequestInv'
  BY <1>5 DEF IInv, RequestInv, NoRequest
<1> QED
  BY <1>4, <1>6 DEF IInv

(* A step of one search, or of none, keeps what holds of the others.       *)
LEMMA RequestSame ==
    ASSUME IInv, UNCHANGED writers
    PROVE  /\ \A q \in Queries : \A R : RequestTrue(R, q)' <=> RequestTrue(R, q)
           /\ request' = request => RequestInv'
<1>1. \A q \in Queries : \A R : RequestTrue(R, q)' <=> RequestTrue(R, q)
  BY DEF RequestTrue, RequestOf, NoRequest, Snapshot, Seen, Vouched, Settled, Now, writers
<1> QED
  BY <1>1 DEF IInv, RequestInv, NoRequest

LEMMA RequestStep ==
    ASSUME IInv, UNCHANGED writers, NEW r \in Requests, NEW R,
           request' = [request EXCEPT ![r] = R],
           R = NoRequest \/ \E q \in Queries : RequestTrue(R, q)
    PROVE  RequestInv'
BY RequestSame DEF IInv, RequestInv, NoRequest

(* The cache is judged against the writers' counters alone.                *)
LEMMA CacheStep ==
    ASSUME UNCHANGED writers, CacheInv(cache')
    PROVE  CacheInv(cache)'
BY DEF CacheInv, Shape, Group, Snapshot, Behind, GroupTrue, Keys, SpanTrue, Count,
       Vouched, Settled, Now, writers

(* A commit to a database of the query unsettles it, so nothing is vouched *)
(* for; the other queries do not see it.                                   *)
LEMMA CommitStep ==
    ASSUME IInv, NEW d \in Dbs, Counters', UNCHANGED <<epoch, cache, request>>,
           version' = [version EXCEPT ![d] = @ + 1], unbumped'[d] > 0,
           \A e \in Dbs \ {d} : unbumped'[e] = unbumped[e]
    PROVE  IInv'
<1>1. ASSUME NEW q \in Queries, NEW snapshot \in Snapshot(q), Vouched(q, snapshot)'
      PROVE  Vouched(q, snapshot) /\ Now(version, q)' = Now(version, q)
  <2>1. Deps[q] \subseteq Dbs
    BY DepsAssumption
  <2>2. d \notin Deps[q]
    BY <1>1, <2>1 DEF Vouched, Settled, IInv, Counters
  <2>3. \A e \in Deps[q] : unbumped'[e] = unbumped[e] /\ version'[e] = version[e]
    BY <2>1, <2>2 DEF IInv, Counters
  <2> QED
    BY <1>1, <2>3 DEF Vouched, Settled, Now
<1>2. \A e \in Dbs : epoch[e] <= epoch'[e]
  BY DEF IInv, Counters
<1> QED
  BY <1>1, <1>2, WriterStep

(* A bump leaves every earlier stamp of the database's queries behind.     *)
LEMMA BumpStep ==
    ASSUME IInv, NEW d \in Dbs, Counters', UNCHANGED <<version, cache, request>>,
           epoch' = [epoch EXCEPT ![d] = @ + 1],
           \A e \in Dbs \ {d} : unbumped'[e] = unbumped[e]
    PROVE  IInv'
<1>1. ASSUME NEW q \in Queries, NEW snapshot \in Snapshot(q),
             Behind(q, snapshot), Vouched(q, snapshot)'
      PROVE  Vouched(q, snapshot) /\ Now(version, q)' = Now(version, q)
  <2>1. Deps[q] \subseteq Dbs
    BY DepsAssumption
  <2>2. ASSUME d \in Deps[q] PROVE FALSE
    <3>1. snapshot[d] = epoch'[d] /\ snapshot[d] <= epoch[d]
      BY <1>1, <2>2 DEF Vouched, Now, Behind
    <3> QED
      BY <3>1 DEF IInv, Counters
  <2>3. \A e \in Deps[q] : unbumped'[e] = unbumped[e] /\ epoch'[e] = epoch[e]
    BY <2>1, <2>2 DEF IInv, Counters
  <2> QED
    BY <1>1, <2>3 DEF Vouched, Settled, Now
<1>2. \A e \in Dbs : epoch[e] <= epoch'[e]
  BY DEF IInv, Counters
<1> QED
  BY <1>1, <1>2, WriterStep

LEMMA WritersKeepIInv ==
    ASSUME IInv,
           \/ \E d \in IndexDbs : IndexCommit(d) \/ IndexBump(d)
           \/ \E d \in UserDbs : OpenUserWrite(d) \/ UserCommit(d) \/ ReleaseUserWrite(d)
    PROVE  IInv'
<1>0. MaxCommits \in Nat /\ Counters
  BY BoundsAssumption DEF IInv
<1>1. ASSUME NEW d \in IndexDbs, IndexCommit(d) PROVE IInv'
  <2>1. Counters' /\ unbumped'[d] > 0
    BY <1>0, <1>1 DEF IndexCommit, Counters, Dbs
  <2> QED
    BY <1>0, <1>1, <2>1, CommitStep DEF IndexCommit, Counters, Dbs
<1>2. ASSUME NEW d \in IndexDbs, IndexBump(d) PROVE IInv'
  <2>1. Counters'
    BY <1>0, <1>2 DEF IndexBump, Counters, Dbs
  <2> QED
    BY <1>0, <1>2, <2>1, BumpStep DEF IndexBump, Counters, Dbs
<1>3. ASSUME NEW d \in UserDbs, OpenUserWrite(d) PROVE IInv'
  <2>1. Counters' /\ UNCHANGED <<version, epoch, unbumped, cache, request>>
    BY <1>0, <1>3 DEF OpenUserWrite, Counters, Dbs
  <2>2. \A e \in Dbs : epoch[e] <= epoch'[e]
    BY <1>0, <2>1 DEF Counters
  <2> QED
    BY <2>1, <2>2, WriterStep DEF Vouched, Settled, Now
<1>4. ASSUME NEW d \in UserDbs, UserCommit(d) PROVE IInv'
  <2>1. Counters' /\ unbumped'[d] > 0
    BY <1>0, <1>4 DEF UserCommit, Counters, Dbs
  <2> QED
    BY <1>0, <1>4, <2>1, CommitStep DEF UserCommit, Counters, Dbs
<1>5. ASSUME NEW d \in UserDbs, ReleaseUserWrite(d) PROVE IInv'
  <2>1. Counters'
    BY <1>0, <1>5 DEF ReleaseUserWrite, Counters, Dbs
  <2> QED
    BY <1>0, <1>5, <2>1, BumpStep DEF ReleaseUserWrite, Counters, Dbs
<1> QED
  BY <1>1, <1>2, <1>3, <1>4, <1>5

-----------------------------------------------------------------------------
LEMMA RequestKnown ==
    ASSUME IInv, NEW r \in Requests, request[r].pc # "idle"
    PROVE  \E q \in Queries : RequestTrue(request[r], q) /\ request[r].query = q
BY DEF IInv, RequestInv, RequestTrue, RequestOf, NoRequest

(* The stamps a search takes are those of now, or of before.               *)
LEMMA SearchesKeepIInv ==
    ASSUME IInv, NEW r \in Requests,
           \/ \E q \in Queries, w \in Windows : Search(r, q, w)
           \/ TakeUserEpoch(r) \/ Execute(r) \/ Abandon(r)
    PROVE  IInv'
<1>0. /\ UNCHANGED writers /\ cache' = cache
      /\ \A q \in Queries : Deps[q] \subseteq Dbs
      /\ epoch \in [Dbs -> Nat] /\ version \in [Dbs -> 0 .. MaxCommits]
  BY DepsAssumption DEF Search, TakeUserEpoch, Execute, Abandon, writers, IInv, Counters
<1> DEFINE Moves == \E R : /\ request' = [request EXCEPT ![r] = R]
                           /\ R = NoRequest \/ \E q \in Queries : RequestTrue(R, q)
<1>1. Moves
  <2>1. ASSUME NEW q \in Queries, NEW w \in Windows, Search(r, q, w) PROVE Moves
    <3> DEFINE R == [pc |-> "snapshot", query |-> q, window |-> w,
                     snapshot |-> [d \in Deps[q] \cap IndexDbs |-> epoch[d]]]
    <3>1. RequestTrue(R, q)
      BY <1>0, <2>1 DEF RequestTrue, RequestOf, Search, NoRequest
    <3> QED
      BY <2>1, <3>1 DEF Search
  <2>2. ASSUME TakeUserEpoch(r) PROVE Moves
    <3>1. PICK q \in Queries : RequestTrue(request[r], q) /\ request[r].query = q
      BY <2>2, RequestKnown DEF TakeUserEpoch
    <3> DEFINE Q == request[r]
               stamp == [d \in Deps[q] |-> IF d \in DOMAIN Q.snapshot THEN Q.snapshot[d] ELSE epoch[d]]
               R == [pc |-> "lookup", query |-> q, window |-> Q.window, snapshot |-> stamp]
    <3>2. /\ Q.window \in Windows
          /\ \A d \in DOMAIN Q.snapshot : Q.snapshot[d] \in Nat /\ Q.snapshot[d] <= epoch[d]
      BY <3>1, <2>2 DEF RequestTrue, RequestOf, NoRequest, TakeUserEpoch
    <3>3. stamp \in Snapshot(q) /\ \A d \in Deps[q] : stamp[d] <= epoch[d]
      BY <1>0, <3>2 DEF Snapshot
    <3>4. RequestTrue(R, q)
      BY <3>1, <3>2, <3>3 DEF RequestTrue, RequestOf, Snapshot, NoRequest
    <3> QED
      BY <2>2, <3>1, <3>4 DEF TakeUserEpoch
  <2>3. ASSUME Execute(r) PROVE Moves
    <3>1. PICK q \in Queries : RequestTrue(request[r], q) /\ request[r].query = q
      BY <2>3, RequestKnown DEF Execute
    <3> DEFINE Q == request[r]
               R == [pc |-> "insert", query |-> q, window |-> Q.window,
                     snapshot |-> Q.snapshot, seen |-> Now(version, q)]
    <3>2. Q.window \in Windows /\ Q.snapshot \in Snapshot(q) /\ Now(version, q) \in Seen(q)
      BY <1>0, <3>1, <2>3 DEF RequestTrue, RequestOf, NoRequest, Execute, Now, Seen
    <3>3. RequestTrue(R, q)
      BY <3>1, <3>2 DEF RequestTrue, RequestOf, NoRequest
    <3> QED
      BY <2>3, <3>1, <3>3 DEF Execute
  <2>4. ASSUME Abandon(r) PROVE Moves
    BY <2>4 DEF Abandon
  <2> QED
    BY <2>1, <2>2, <2>3, <2>4
<1>2. RequestInv'
  BY <1>0, <1>1, RequestStep
<1>3. CacheInv(cache)'
  BY <1>0, CacheStep DEF IInv
<1> QED
  BY <1>0, <1>2, <1>3 DEF IInv, Counters, writers

(* A lookup moves keys in the recency and nothing else.                    *)
LEMMA LookupKeepsIInv ==
    ASSUME IInv, NEW r \in Requests, Lookup(r)
    PROVE  IInv'
<1>1. PICK q \in Queries : RequestTrue(request[r], q) /\ request[r].query = q
  BY RequestKnown DEF Lookup
<1>2. UNCHANGED writers
  BY DEF Lookup, writers
<1> DEFINE R == [request[r] EXCEPT !.pc = "execute"]
<1>3. RequestTrue(R, q)
  <2>1. request[r] \in [pc : {"lookup", "execute"}, query : {q}, window : Windows, snapshot : Snapshot(q)]
    <3>1. request[r] \in RequestOf(q) /\ request[r].pc = "lookup"
      BY <1>1 DEF RequestTrue, Lookup
    <3> QED
      BY <3>1 DEF RequestOf, NoRequest
  <2>2. /\ R \in [pc : {"lookup", "execute"}, query : {q}, window : Windows, snapshot : Snapshot(q)]
        /\ R.pc = "execute" /\ R.window = request[r].window /\ R.snapshot = request[r].snapshot
    BY <2>1
  <2> QED
    BY <1>1, <2>2 DEF RequestTrue, RequestOf
<1>4. request' = [request EXCEPT ![r] = R] \/ request' = [request EXCEPT ![r] = NoRequest]
  BY DEF Lookup, IInv, RequestInv
<1>5. RequestInv'
  BY <1>2, <1>3, <1>4, RequestStep
<1>6. /\ DOMAIN cache' = Fields
      /\ cache'.groups = cache.groups /\ cache'.spans = cache.spans
  BY DEF Lookup, IInv, CacheInv, Shape, Fields
<1>7. CacheInv(cache')
  BY <1>6 DEF IInv, CacheInv, Shape, GroupTrue, Keys
<1> QED
  BY <1>2, <1>5, <1>7, CacheStep DEF IInv, Counters, writers

LEMMA InsertKeepsIInv ==
    ASSUME IInv, NEW r \in Requests, Insert(r)
    PROVE  IInv'
<1>1. PICK q \in Queries : RequestTrue(request[r], q) /\ request[r].query = q
  BY RequestKnown DEF Insert
<1>2. UNCHANGED writers /\ RequestInv'
  BY RequestStep DEF Insert, writers
<1> DEFINE R == request[r]
<1>3. /\ R.snapshot \in Snapshot(q) /\ Behind(q, R.snapshot)
      /\ R.seen \in Seen(q) /\ R.window \in Windows
      /\ R.window.limit = None => R.window.offset = 0
      /\ Vouched(q, R.snapshot) => R.seen = Now(version, q)
  BY <1>1 DEF Insert, RequestTrue, RequestOf, NoRequest, Behind, Snapshot
<1>4. R.window.offset \in Nat
  BY <1>3, WindowsAssumption
<1>5. Count(q) \in Nat
  <2>1. Now(version, q) \in Seen(q)
    BY DepsAssumption DEF Now, Seen, IInv, Counters
  <2> QED
    BY <2>1, RowCountAssumption DEF Count
<1> HIDE DEF R
<1>6. LET n == Returned(q, R.seen, R.window)
      IN  /\ n \in Nat
          /\ n = 0 \/ R.window.offset + n <= RowCount(q, R.seen)
          /\ ExecutedLimit(R.window) = None \/ n < ExecutedLimit(R.window)
                => RowCount(q, R.seen) <= R.window.offset + n
  BY <1>3, ReturnedRows
<1> DEFINE n == Returned(q, R.seen, R.window)
<1>7. /\ n \in Nat
      /\ Vouched(q, R.snapshot) =>
            /\ R.seen = Now(version, q)
            /\ n = 0 \/ R.window.offset + n <= Count(q)
            /\ ExecutedLimit(R.window) = None \/ n < ExecutedLimit(R.window)
                => Count(q) <= R.window.offset + n
  BY <1>3, <1>6 DEF Count
<1> HIDE DEF n
<1>8. CacheInv(cache)
  BY DEF IInv
<1> DEFINE F == FilledRows(cache, q, R.snapshot, R.window.offset, ExecutedLimit(R.window), n, R.seen)
           G == FilledCount(cache, q, R.snapshot, R.seen)
<1>9. CacheInv(F)
  BY <1>3, <1>4, <1>5, <1>7, <1>8, FilledRowsInv
<1>10. CacheInv(G)
  BY <1>3, <1>8, FilledCountInv
<1> HIDE DEF F, G
<1> DEFINE I == insert_rows(cache, q, R.snapshot, R.window.offset, ExecutedLimit(R.window), n, R.seen)
           C == insert_count(cache, q, R.snapshot, R.seen)
<1>12. (I = cache \/ I = evict_to_budget(F, budget)) /\ (C = cache \/ C = evict_to_budget(G, budget))
  BY InsertIs DEF F, G
<1>13. cache' = I \/ cache' = C
  BY <1>1 DEF Insert, R, n
<1> HIDE DEF I, C
<1>11. CacheInv(cache')
  BY <1>8, <1>9, <1>10, <1>12, <1>13, EvictInv
<1> QED
  BY <1>2, <1>11, CacheStep DEF IInv, Counters, writers

LEMMA ClientsKeepIInv ==
    ASSUME IInv,
           \/ \E bytes \in Budgets : set_budget(bytes)
           \/ \E index_db \in IndexDbs \cup {None}, user_data_db \in UserDbs \cup {None} :
                clear(index_db, user_data_db)
    PROVE  IInv'
<1>1. CacheInv(cache')
  BY EmptyInv, EvictInv, DropInv DEF IInv, set_budget, clear
<1>2. UNCHANGED writers /\ request' = request
  BY DEF set_budget, clear, writers
<1>3. RequestInv'
  BY <1>2, RequestSame
<1> QED
  BY <1>1, <1>2, <1>3, CacheStep DEF IInv, Counters, writers

-----------------------------------------------------------------------------
LEMMA InitIInv == Init => IInv
BY DepsAssumption, BoundsAssumption, EmptyInv
DEF Init, IInv, Counters, RequestInv

LEMMA NextIInv == IInv /\ [Next]_vars => IInv'
<1> SUFFICES ASSUME IInv, [Next]_vars PROVE IInv'
  OBVIOUS
<1>1. CASE UNCHANGED vars
  <2>1. UNCHANGED writers /\ cache' = cache /\ request' = request
    BY <1>1 DEF vars, writers
  <2>2. RequestInv'
    BY <2>1, RequestSame
  <2> QED
    BY <2>1, <2>2, CacheStep DEF IInv, Counters, writers
<1>2. CASE Next
  <2>1. ASSUME NEW r \in Requests, NEW ask \in Asks[r], Search(r, ask.query, ask.window)
        PROVE  IInv'
    <3>1. ask.query \in Queries /\ ask.window \in Windows
      BY AsksAssumption
    <3> QED
      BY <2>1, <3>1, SearchesKeepIInv
  <2> QED
    BY <1>2, <2>1, WritersKeepIInv, SearchesKeepIInv, LookupKeepsIInv, InsertKeepsIInv, ClientsKeepIInv
    DEF Next
<1> QED
  BY <1>1, <1>2

THEOREM Invariance == Spec => []IInv
BY InitIInv, NextIInv, PTL DEF Spec

(* Every lookup that hits while no commit of its databases waits for its   *)
(* bump returns what executing the query now would: lookup_rows and        *)
(* lookup_count of search_cache.rs against every interleaving of inserts,  *)
(* evictions, clears and commits.                                          *)
THEOREM HitsAreFresh == Spec => []HitIsFresh
<1>1. IInv => HitIsFresh
  <2> SUFFICES ASSUME IInv, NEW q \in Queries, Settled(q)
               PROVE  /\ q \in Counts /\ HitsCount(q) => cache.spans[Key(q, 0)].seen = Now(version, q)
                      /\ \A w \in Windows :
                            q \notin Counts /\ HitsRows(q, w.offset, w.limit) =>
                                RowsAnswer(q, w.offset, w.limit) = FreshRows(q, w.offset, w.limit)
    BY DEF HitIsFresh
  <2>0. CacheInv(cache) /\ Shape(cache) /\ Counters
    BY DEF IInv, CacheInv
  <2>1. is_current(q) => GroupTrue(cache, q) /\ cache.groups[q] \in Group(q)
    BY <2>0 DEF is_current, Vouched, CacheInv, Shape
  <2>2. Count(q) \in Nat
    <3>1. Now(version, q) \in Seen(q)
      BY DepsAssumption DEF Now, Seen, IInv, Counters
    <3> QED
      BY <3>1, RowCountAssumption DEF Count
  <2>3. ASSUME HitsCount(q) PROVE cache.spans[Key(q, 0)].seen = Now(version, q)
    BY <2>1, <2>3 DEF HitsCount, GroupTrue, Keys, Key, SpanTrue
  <2>4. ASSUME NEW w \in Windows, HitsRows(q, w.offset, w.limit)
        PROVE  RowsAnswer(q, w.offset, w.limit) = FreshRows(q, w.offset, w.limit)
    <3> DEFINE want == WantEnd(q, w.offset, w.limit)
               end == IF w.limit = None THEN Count(q) ELSE Min2(w.offset + w.limit, Count(q))
               rows == w.offset .. want - 1
               Span(i) == CHOOSE k \in Keys(cache, q) : i \in k.start .. k.start + cache.spans[k].len - 1
    <3>0. w.offset \in Nat /\ (w.limit = None \/ w.limit \in Nat)
      BY WindowsAssumption
    <3>1. is_current(q) /\ GroupTrue(cache, q) /\ cache.groups[q] \in Group(q)
          /\ want # None /\ \A i \in rows : HoldsRow(cache, q, i)
      BY <2>1, <2>4 DEF HitsRows
    <3>2. want \in Nat /\ end <= want /\ end \in Nat
      BY <2>2, <3>0, <3>1, NoneAssumption DEF WantEnd, Group, GroupTrue, Min2
    <3>3. ASSUME NEW i \in rows
          PROVE  cache.spans[Span(i)].seen = Now(version, q) /\ i < Count(q)
      <4>1. PICK k \in Keys(cache, q) : i \in k.start .. k.start + cache.spans[k].len - 1
        BY <3>1 DEF HoldsRow
      <4> DEFINE j == Span(i)
      <4>2. j \in Keys(cache, q) /\ i \in j.start .. j.start + cache.spans[j].len - 1
        BY <4>1
      <4> HIDE DEF j
      <4>3. SpanTrue(q, j.start, cache.spans[j]) /\ j.start \in Nat /\ cache.spans[j].len \in Nat
        BY <2>0, <3>1, <4>2 DEF GroupTrue, Keys, Shape
      <4>4. cache.spans[j].seen = Now(version, q) /\ i < Count(q)
        BY <2>2, <4>2, <4>3 DEF SpanTrue
      <4> QED
        BY <4>4 DEF j
    <3>4. rows = w.offset .. end - 1
      <4>1. \A i \in rows : i < Count(q)
        BY <3>3
      <4>2. w.limit # None => want <= w.offset + w.limit
        BY <3>0, <3>1, NoneAssumption DEF WantEnd, Group, Min2
      <4> HIDE DEF want, Span
      <4>3. ASSUME NEW i \in rows PROVE i \in w.offset .. end - 1
        BY <4>1, <4>2, <3>0, <3>2, <2>2 DEF Min2
      <4>4. \A i \in w.offset .. end - 1 : i \in rows
        BY <3>0, <3>2
      <4> QED
        BY <4>3, <4>4
    <3>5. RowsAnswer(q, w.offset, w.limit) = [i \in rows |-> cache.spans[Span(i)].seen]
      BY DEF RowsAnswer
    <3>6. FreshRows(q, w.offset, w.limit) = [i \in w.offset .. end - 1 |-> Now(version, q)]
      BY DEF FreshRows, Count
    <3> HIDE DEF rows, end, want, Span
    <3> QED
      BY <3>3, <3>4, <3>5, <3>6
  <2> QED
    BY <2>3, <2>4
<1> QED
  BY <1>1, Invariance, PTL

-----------------------------------------------------------------------------
(* How the spans of a query lie: on the grid, none starting inside another, *)
(* and each of them in the index of its group.                              *)
OnGrid(start, len) == len > 0 => start \div SPAN_ROWS = (start + len - 1) \div SPAN_ROWS

Apart(c) ==
    \A j, k \in DOMAIN c.spans :
        j.query = k.query /\ j # k => j.start \notin k.start .. k.start + c.spans[k].len - 1

Laid(c) ==
    /\ \A k \in DOMAIN c.spans : OnGrid(k.start, c.spans[k].len)
    /\ Apart(c)
    /\ \A q \in DOMAIN c.groups : \A s \in c.groups[q].starts : Key(q, s) \in DOMAIN c.spans

(* Every group owns a span, except for the one an insert is filling.        *)
Owned(c, but) == \A q \in DOMAIN c.groups \ but : c.groups[q].starts # {}

LEMMA EmptyLaid == Laid(EmptyCache) /\ Owned(EmptyCache, {})
BY DEF Laid, Apart, Owned, EmptyCache

(* Taking spans away leaves the others as they lay.                         *)
LEMMA FewerApart ==
    ASSUME NEW c, NEW d, Laid(c), DOMAIN d.spans \subseteq DOMAIN c.spans,
           \A k \in DOMAIN d.spans : d.spans[k] = c.spans[k],
           \A q \in DOMAIN d.groups : \A s \in d.groups[q].starts : Key(q, s) \in DOMAIN d.spans
    PROVE  Laid(d)
BY DEF Laid, Apart

LEMMA DetachLaid ==
    ASSUME NEW c, NEW keys, CacheInv(c), Laid(c), Owned(c, {})
    PROVE  Laid(Detach(c, keys)) /\ Owned(Detach(c, keys), {})
<1> DEFINE hit == {q \in DOMAIN c.groups : \E k \in keys : k.query = q}
           Left(q) == {s \in c.groups[q].starts : Key(q, s) \notin keys}
           gone == {q \in hit : Left(q) = {}}
           D == Detach(c, keys)
<1>1. /\ D.groups = [q \in DOMAIN c.groups \ gone |-> [c.groups[q] EXCEPT !.starts = Left(q)]]
      /\ D.spans = [k \in DOMAIN c.spans \ keys |-> c.spans[k]]
  BY DEF Detach
<1> HIDE DEF D
<1>2. ASSUME NEW q \in DOMAIN D.groups
      PROVE  q \in DOMAIN c.groups \ gone /\ D.groups[q].starts = Left(q)
  <2>1. q \in DOMAIN c.groups \ gone /\ D.groups[q] = [c.groups[q] EXCEPT !.starts = Left(q)]
    BY <1>1
  <2>2. c.groups[q] \in Group(q)
    BY <2>1 DEF CacheInv, Shape
  <2> QED
    BY <2>1, <2>2 DEF Group
<1>3. \A q \in DOMAIN D.groups : \A s \in D.groups[q].starts : Key(q, s) \in DOMAIN D.spans
  BY <1>1, <1>2 DEF Laid
<1>4. Laid(D)
  BY <1>1, <1>3, FewerApart
<1>5. ASSUME NEW q \in DOMAIN D.groups PROVE D.groups[q].starts # {}
  <2>1. q \in DOMAIN c.groups \ gone /\ c.groups[q].starts # {}
    BY <1>2 DEF Owned
  <2>2. CASE q \in hit
    BY <2>1, <2>2, <1>2
  <2>3. CASE q \notin hit
    <3>1. Left(q) = c.groups[q].starts
      BY <2>1, <2>3 DEF Key
    <3> QED
      BY <2>1, <3>1, <1>2
  <2> QED
    BY <2>2, <2>3
<1> QED
  BY <1>4, <1>5 DEF Owned, D

LEMMA EvictLaid ==
    ASSUME NEW c, NEW bytes, CacheInv(c), Laid(c), Owned(c, {})
    PROVE  Laid(evict_to_budget(c, bytes)) /\ Owned(evict_to_budget(c, bytes), {})
BY EmptyLaid, DetachLaid DEF evict_to_budget

LEMMA DropLaid ==
    ASSUME NEW c, NEW qs, CacheInv(c), Laid(c), Owned(c, {})
    PROVE  Laid(drop_groups(c, qs)) /\ Owned(drop_groups(c, qs), {})
<1> DEFINE D == drop_groups(c, qs)
           keys == {k \in DOMAIN c.spans : k.query \in qs}
<1>1. /\ D.groups = [p \in DOMAIN c.groups \ qs |-> c.groups[p]]
      /\ D.spans = [k \in DOMAIN c.spans \ keys |-> c.spans[k]]
  BY DEF drop_groups
<1> HIDE DEF D
<1>2. \A q \in DOMAIN D.groups : \A s \in D.groups[q].starts : Key(q, s) \in DOMAIN D.spans
  BY <1>1 DEF Laid, Key
<1>3. Laid(D)
  BY <1>1, <1>2, FewerApart
<1> QED
  BY <1>1, <1>3 DEF Owned, D

LEMMA ReconcileLaid ==
    ASSUME NEW c, NEW q \in Queries, NEW snapshot \in Snapshot(q),
           CacheInv(c), Laid(c), Owned(c, {})
    PROVE  Laid(reconcile_epochs(c, q, snapshot)) /\ Owned(reconcile_epochs(c, q, snapshot), {q})
<1> DEFINE R == reconcile_epochs(c, q, snapshot)
           group == [starts |-> {}, stamp |-> snapshot, known_end |-> None]
<1>0. Shape(c) /\ DOMAIN c = Fields
  BY DEF CacheInv, Shape
<1>1. CASE q \notin DOMAIN c.groups
  <2>1. /\ R.groups = [p \in DOMAIN c.groups \cup {q} |-> IF p = q THEN group ELSE c.groups[p]]
        /\ R.spans = c.spans
    BY <1>0, <1>1 DEF reconcile_epochs, Fields
  <2> HIDE DEF R
  <2>2. \A p \in DOMAIN R.groups : \A s \in R.groups[p].starts : Key(p, s) \in DOMAIN R.spans
    BY <2>1 DEF Laid
  <2> QED
    BY <2>1, <2>2, FewerApart DEF Owned, R
<1>2. CASE q \in DOMAIN c.groups /\ c.groups[q].stamp = snapshot
  <2>1. R = c
    BY <1>2 DEF reconcile_epochs
  <2> QED
    BY <2>1 DEF Owned
<1>3. CASE q \in DOMAIN c.groups /\ c.groups[q].stamp # snapshot
  <2>1. c.groups[q] \in Group(q)
    BY <1>0, <1>3 DEF Shape
  <2> DEFINE C == clear_group_spans(c, q)
  <2>2. /\ C.groups = [c.groups EXCEPT ![q].starts = {}, ![q].known_end = None]
        /\ C.spans = [k \in DOMAIN c.spans \ Keys(c, q) |-> c.spans[k]]
        /\ DOMAIN C = Fields
    BY DEF clear_group_spans, Fields
  <2>3. R = [C EXCEPT !.groups[q].stamp = snapshot]
    BY <1>3 DEF reconcile_epochs
  <2> HIDE DEF C, R
  <2>4. /\ R.spans = C.spans
        /\ R.groups = [C.groups EXCEPT ![q].stamp = snapshot]
    BY <2>2, <2>3 DEF Fields
  <2>5. /\ DOMAIN R.groups = DOMAIN c.groups
        /\ R.groups[q].starts = {}
        /\ \A p \in DOMAIN c.groups \ {q} : R.groups[p] = c.groups[p]
    BY <2>1, <2>2, <2>4, <1>3 DEF Group
  <2>6. \A p \in DOMAIN R.groups : \A s \in R.groups[p].starts : Key(p, s) \in DOMAIN R.spans
    BY <2>2, <2>4, <2>5 DEF Laid, Key, Keys
  <2>7. /\ DOMAIN R.spans \subseteq DOMAIN c.spans
        /\ \A k \in DOMAIN R.spans : R.spans[k] = c.spans[k]
    BY <2>2, <2>4
  <2>8. Laid(R)
    BY <2>6, <2>7, FewerApart
  <2>9. Owned(R, {q})
    BY <2>5 DEF Owned
  <2> QED
    BY <2>8, <2>9 DEF R
<1> QED
  BY <1>1, <1>2, <1>3

LEMMA WithEndLaid ==
    ASSUME NEW c, NEW q \in DOMAIN c.groups, NEW executed_limit, NEW offset, NEW returned,
           CacheInv(c), Laid(c), Owned(c, {q})
    PROVE  LET E == WithEnd(c, q, executed_limit, offset, returned)
           IN  Laid(E) /\ Owned(E, {q})
<1> DEFINE E == WithEnd(c, q, executed_limit, offset, returned)
<1>0. DOMAIN c = Fields /\ c.groups[q] \in Group(q)
  BY DEF CacheInv, Shape
<1>1. /\ E.spans = c.spans /\ DOMAIN E.groups = DOMAIN c.groups
      /\ \A p \in DOMAIN c.groups : E.groups[p].starts = c.groups[p].starts
  BY <1>0 DEF WithEnd, Fields, Group
<1> HIDE DEF E
<1>2. \A p \in DOMAIN E.groups : \A s \in E.groups[p].starts : Key(p, s) \in DOMAIN E.spans
  BY <1>1 DEF Laid
<1>3. Laid(E)
  BY <1>1, <1>2, FewerApart
<1>4. Owned(E, {q})
  BY <1>1 DEF Owned
<1> QED
  BY <1>3, <1>4 DEF E

(* Spans that lie clear of one another and of those that stay may be        *)
(* stored.                                                                  *)
LEMMA StoreLaid ==
    ASSUME NEW c, NEW q \in DOMAIN c.groups, NEW new,
           CacheInv(c), Laid(c), Owned(c, {q}), DOMAIN new \subseteq Nat,
           \A s \in DOMAIN new : OnGrid(s, new[s].len),
           \A s, t \in DOMAIN new : s # t => t \notin s .. s + new[s].len - 1,
           \A s \in DOMAIN new : \A k \in Keys(c, q) :
                k.start # s => /\ k.start \notin s .. s + new[s].len - 1
                               /\ s \notin k.start .. k.start + c.spans[k].len - 1
    PROVE  LET S == store_spans(c, q, new)
           IN  /\ Laid(S) /\ Owned(S, {q})
               /\ S.groups[q].starts = c.groups[q].starts \cup DOMAIN new
<1> DEFINE S == store_spans(c, q, new)
           keys == {Key(q, s) : s \in DOMAIN new}
<1>0. c.groups[q] \in Group(q) /\ q \in Queries
  BY DEF CacheInv, Shape
<1>1. /\ S.groups = [c.groups EXCEPT ![q].starts = @ \cup DOMAIN new]
      /\ S.spans = [k \in DOMAIN c.spans \cup keys |->
                        IF k \in keys THEN new[k.start] ELSE c.spans[k]]
  BY DEF store_spans
<1> HIDE DEF S
<1>2. \A k \in keys : k.query = q /\ k.start \in DOMAIN new
  BY DEF Key
<1>3. /\ DOMAIN S.groups = DOMAIN c.groups
      /\ S.groups[q].starts = c.groups[q].starts \cup DOMAIN new
      /\ \A p \in DOMAIN c.groups \ {q} : S.groups[p] = c.groups[p]
  BY <1>0, <1>1 DEF Group
<1>4. ASSUME NEW k \in DOMAIN S.spans PROVE OnGrid(k.start, S.spans[k].len)
  BY <1>1, <1>2 DEF Laid
<1>5. Apart(S)
  <2> SUFFICES ASSUME NEW j \in DOMAIN S.spans, NEW k \in DOMAIN S.spans,
                      j.query = k.query, j # k
               PROVE  j.start \notin k.start .. k.start + S.spans[k].len - 1
    BY DEF Apart
  <2>0. \A i \in DOMAIN S.spans : i \in [query : Queries, start : Nat]
    BY <1>0, <1>1 DEF CacheInv, Shape, Key
  <2>1. j.start # k.start
    BY <2>0
  <2>2. CASE j \in keys /\ k \in keys
    BY <2>1, <2>2, <1>1, <1>2
  <2>3. CASE j \in keys /\ k \notin keys
    <3>1. k \in Keys(c, q) /\ S.spans[k] = c.spans[k] /\ j.start \in DOMAIN new
      BY <2>3, <1>1, <1>2 DEF Keys
    <3> QED
      BY <2>1, <3>1
  <2>4. CASE j \notin keys /\ k \in keys
    <3>1. j \in Keys(c, q) /\ S.spans[k] = new[k.start] /\ k.start \in DOMAIN new
      BY <2>4, <1>1, <1>2 DEF Keys
    <3> QED
      BY <2>1, <3>1
  <2>5. CASE j \notin keys /\ k \notin keys
    BY <2>5, <1>1 DEF Laid, Apart
  <2> QED
    BY <2>2, <2>3, <2>4, <2>5
<1>6. \A p \in DOMAIN S.groups : \A s \in S.groups[p].starts : Key(p, s) \in DOMAIN S.spans
  <2>1. ASSUME NEW p \in DOMAIN S.groups, NEW s \in S.groups[p].starts
        PROVE  Key(p, s) \in DOMAIN c.spans \cup keys
    <3>1. CASE p = q
      BY <3>1, <1>3 DEF Laid
    <3>2. CASE p # q
      BY <3>2, <1>3 DEF Laid
    <3> QED
      BY <3>1, <3>2
  <2> QED
    BY <2>1, <1>1
<1>7. Owned(S, {q})
  BY <1>3 DEF Owned
<1> QED
  BY <1>3, <1>4, <1>5, <1>6, <1>7 DEF Laid, S

-----------------------------------------------------------------------------
(* No multiple of n between s and e: they are in the same cell of the grid. *)
LEMMA SameCell ==
    ASSUME NEW n \in Nat \ {0}, NEW s \in Nat, NEW e \in Nat, s <= e,
           \A i \in s + 1 .. e : i % n # 0
    PROVE  s \div n = e \div n
<1> DEFINE a == s \div n
           b == e \div n
           x == s % n
           y == e % n
<1>1. /\ a \in Int /\ x \in 0 .. n - 1 /\ s = (n * a) + x
      /\ b \in Int /\ y \in 0 .. n - 1 /\ e = (n * b) + y
  OBVIOUS
<1>2. (n * b) % n = 0
  OBVIOUS
<1> HIDE DEF a, b, x, y
<1>3. a <= b
  BY <1>1
<1>4. CASE a < b
  <2>1. a + 1 <= b
    BY <1>1, <1>4
  <2>2. n * (a + 1) <= n * b
    BY <1>1, <2>1
  <2>3. n * (a + 1) = (n * a) + n
    BY <1>1
  <2>4. n * b \in Int /\ s < n * b /\ n * b <= e
    BY <1>1, <2>2, <2>3
  <2> QED
    BY <1>2, <2>4
<1> QED
  BY <1>1, <1>3, <1>4 DEF a, b

(* A piece holds free rows, and nothing starts after its first.             *)
LEMMA PieceRows ==
    ASSUME NEW c, NEW q, NEW offset \in Nat, NEW end \in Nat,
           NEW s \in DOMAIN Pieces(c, q, offset, end),
           NEW i \in s .. s + Pieces(c, q, offset, end)[s] - 1
    PROVE  i # s => /\ i \notin DOMAIN Pieces(c, q, offset, end)
                    /\ (i % SPAN_ROWS) # 0 /\ i \notin Starts(c, q)
<1> DEFINE free == {j \in offset .. end - 1 : ~HoldsRow(c, q, j)}
           starts == {j \in free : j - 1 \notin free \/ j % SPAN_ROWS = 0 \/ j \in Starts(c, q)}
           Keeps(t) == {j \in t .. end - 1 : t + 1 .. j \subseteq free \ starts}
<1>1. Pieces(c, q, offset, end) = [t \in starts |-> Cardinality(Keeps(t))]
  BY DEF Pieces
<1>2. s \in starts /\ s \in Nat /\ s <= end - 1 /\ s \in free
  BY <1>1
<1>3. i \in s .. s + Cardinality(Keeps(s)) - 1
  BY <1>1, <1>2
<1>4. Keeps(s) \subseteq s .. end - 1 /\ Cardinality(Keeps(s)) \in Nat /\ s + Cardinality(Keeps(s)) <= end
  BY <1>1, <1>2, PiecesRange
<1>5. i \in Keeps(s)
  <2> SUFFICES ASSUME i \notin Keeps(s) PROVE FALSE
    OBVIOUS
  <2>1. i \in Int /\ s <= i /\ i <= end - 1 /\ i - s < Cardinality(Keeps(s))
    BY <1>2, <1>3, <1>4
  <2>2. \A j \in Keeps(s) : j < i
    <3>1. ASSUME NEW j \in Keeps(s), i <= j PROVE i \in Keeps(s)
      <4>1. j \in Int /\ s + 1 .. j \subseteq free \ starts
        BY <1>2
      <4>2. s + 1 .. i \subseteq s + 1 .. j
        BY <1>2, <2>1, <3>1, <4>1
      <4> QED
        BY <1>2, <2>1, <4>1, <4>2
    <3> QED
      BY <3>1, <2>1, <1>2, <1>4
  <2>3. Keeps(s) \subseteq s .. i - 1
    BY <2>1, <2>2, <1>2, <1>4
  <2>4. i - 1 \in Int /\ s \in Int
    BY <2>1, <1>2
  <2>5. IsFiniteSet(s .. i - 1) /\ Cardinality(s .. i - 1) = (IF s > i - 1 THEN 0 ELSE (i - 1) - s + 1)
    BY <2>4, FS_Interval
  <2>6. Cardinality(Keeps(s)) <= Cardinality(s .. i - 1)
    BY <2>3, <2>5, FS_Subset
  <2>7. Cardinality(s .. i - 1) = i - s
    BY <2>1, <2>4, <2>5
  <2> HIDE DEF Keeps
  <2> QED
    BY <2>1, <2>4, <2>6, <2>7, <1>4
<1>6. ASSUME i # s
      PROVE i \in free \ starts
  <2>1. i \in s + 1 .. i
    BY <1>2, <1>3, <1>4, <1>6
  <2> QED
    BY <2>1, <1>5
<1> HIDE DEF free
<1>7. i # s => i \notin starts /\ (i % SPAN_ROWS) # 0 /\ i \notin Starts(c, q)
  BY <1>6
<1> QED
  BY <1>1, <1>7

(* Keeps that are free are in no span.                                       *)
LEMMA PieceIsFree ==
    ASSUME NEW c, NEW q, NEW offset, NEW end,
           NEW s \in DOMAIN Pieces(c, q, offset, end)
    PROVE  s \in offset .. end - 1 /\ ~HoldsRow(c, q, s)
BY DEF Pieces

(* The pieces of an answer lie on the grid, clear of each other and of the  *)
(* spans that were there.                                                   *)
LEMMA PiecesLie ==
    ASSUME NEW c, NEW q \in DOMAIN c.groups, CacheInv(c),
           NEW offset \in Nat, NEW end \in Nat
    PROVE  LET P == Pieces(c, q, offset, end)
           IN  /\ \A s \in DOMAIN P : OnGrid(s, P[s])
               /\ \A s, t \in DOMAIN P : s # t => t \notin s .. s + P[s] - 1
               /\ \A s \in DOMAIN P : \A k \in Keys(c, q) :
                    k.start # s => /\ k.start \notin s .. s + P[s] - 1
                                   /\ s \notin k.start .. k.start + c.spans[k].len - 1
<1> DEFINE P == Pieces(c, q, offset, end)
<1>1. ASSUME NEW s \in DOMAIN P
      PROVE  s \in Nat /\ P[s] \in Nat /\ ~HoldsRow(c, q, s)
  BY PiecesRange, PieceIsFree
<1>2. ASSUME NEW s \in DOMAIN P, NEW i \in s .. s + P[s] - 1, i # s
      PROVE  i \notin DOMAIN P /\ (i % SPAN_ROWS) # 0 /\ i \notin Starts(c, q)
  BY <1>2, PieceRows
<1> HIDE DEF P
<1>3. ASSUME NEW s \in DOMAIN P PROVE OnGrid(s, P[s])
  <2> SUFFICES ASSUME P[s] > 0 PROVE s \div SPAN_ROWS = (s + P[s] - 1) \div SPAN_ROWS
    BY DEF OnGrid
  <2> DEFINE e == s + P[s] - 1
  <2>1. e \in Nat /\ s \in Nat /\ s <= e
    BY <1>1
  <2>2. \A i \in s + 1 .. e : (i % SPAN_ROWS) # 0
    BY <1>1, <1>2
  <2> HIDE DEF e
  <2>3. s \div SPAN_ROWS = e \div SPAN_ROWS
    BY <2>1, <2>2, SameCell, BytesAssumption
  <2> QED
    BY <2>3 DEF e
<1>4. ASSUME NEW s \in DOMAIN P, NEW k \in Keys(c, q), k.start # s
      PROVE  /\ k.start \notin s .. s + P[s] - 1
             /\ s \notin k.start .. k.start + c.spans[k].len - 1
  <2>1. k.start \in Starts(c, q)
    BY DEF Keys, Starts, CacheInv, Shape
  <2> QED
    BY <2>1, <1>1, <1>2, <1>4 DEF HoldsRow
<1> QED
  BY <1>2, <1>3, <1>4 DEF P

LEMMA FilledRowsLaid ==
    ASSUME CacheInv(cache), Laid(cache), Owned(cache, {}),
           NEW q \in Queries, Count(q) \in Nat, NEW snapshot \in Snapshot(q), Behind(q, snapshot),
           NEW offset \in Nat, NEW limit, NEW returned \in Nat, NEW seen,
           Vouched(q, snapshot) =>
                /\ seen = Now(version, q)
                /\ returned = 0 \/ offset + returned <= Count(q)
                /\ limit = None \/ returned < limit => Count(q) <= offset + returned
    PROVE  LET F == FilledRows(cache, q, snapshot, offset, limit, returned, seen)
           IN  CacheInv(F) /\ Laid(F) /\ Owned(F, {})
<1> DEFINE R == reconcile_epochs(cache, q, snapshot)
           K == WithEnd(R, q, limit, offset, returned)
           pieces == Pieces(K, q, offset, offset + returned)
           new == [s \in DOMAIN pieces |-> [len |-> pieces[s], seen |-> seen]]
           S == store_spans(K, q, new)
           A == Anchored(S, q, offset, seen)
<1>1. CacheInv(R) /\ q \in DOMAIN R.groups /\ R.groups[q].stamp = snapshot
  BY ReconcileInv
<1>2. Laid(R) /\ Owned(R, {q})
  BY ReconcileLaid
<1> HIDE DEF R
<1>3. CacheInv(K) /\ q \in DOMAIN K.groups /\ K.groups[q].stamp = snapshot
  BY <1>1, WithEndInv
<1>4. Laid(K) /\ Owned(K, {q})
  BY <1>1, <1>2, WithEndLaid
<1> HIDE DEF K
<1>5. offset + returned \in Nat
  OBVIOUS
<1>6. /\ \A s \in DOMAIN pieces : OnGrid(s, pieces[s])
      /\ \A s, t \in DOMAIN pieces : s # t => t \notin s .. s + pieces[s] - 1
      /\ \A s \in DOMAIN pieces : \A k \in Keys(K, q) :
            k.start # s => /\ k.start \notin s .. s + pieces[s] - 1
                           /\ s \notin k.start .. k.start + K.spans[k].len - 1
  BY <1>3, <1>5, PiecesLie
<1>7. /\ DOMAIN pieces \subseteq offset .. (offset + returned) - 1
      /\ \A s \in DOMAIN pieces : pieces[s] \in Nat /\ s + pieces[s] <= offset + returned
  BY <1>5, PiecesRange
<1> HIDE DEF pieces
<1>8. /\ DOMAIN new \subseteq Nat
      /\ \A s \in DOMAIN new : new[s].len \in Nat
      /\ Vouched(q, snapshot) => \A s \in DOMAIN new : SpanTrue(q, s, new[s])
  <2>1. DOMAIN new \subseteq Nat /\ \A s \in DOMAIN new : new[s].len \in Nat
    BY <1>7
  <2>2. ASSUME Vouched(q, snapshot), NEW s \in DOMAIN new PROVE SpanTrue(q, s, new[s])
    <3>1. new[s].seen = Now(version, q) /\ new[s].len = pieces[s]
      BY <2>2
    <3>2. s >= offset /\ s < offset + returned /\ s + pieces[s] <= offset + returned /\ s \in Int
      BY <1>7
    <3>3. offset + returned <= Count(q)
      BY <2>2, <3>2
    <3>4. s + pieces[s] <= Count(q)
      BY <3>2, <3>3, <1>7
    <3> QED
      BY <3>1, <3>4 DEF SpanTrue
  <2> QED
    BY <2>1, <2>2
<1>9. /\ DOMAIN new = DOMAIN pieces
      /\ \A s \in DOMAIN new : new[s].len = pieces[s]
  OBVIOUS
<1> HIDE DEF new
<1>10. CacheInv(S) /\ q \in DOMAIN S.groups /\ S.groups[q].stamp = snapshot
  BY <1>3, <1>8, StoreInv
<1>11. Laid(S) /\ Owned(S, {q})
  BY <1>3, <1>4, <1>6, <1>8, <1>9, StoreLaid
<1> HIDE DEF S
<1>12. CacheInv(A) /\ Laid(A) /\ Owned(A, {})
  <2> DEFINE anchor == [s \in {offset} |-> [len |-> 0, seen |-> seen]]
             T == store_spans(S, q, anchor)
  <2>1. CASE Starts(S, q) # {}
    <3>1. A = S
      BY <2>1 DEF Anchored
    <3>2. Owned(S, {})
      BY <2>1, <1>10, <1>11 DEF Owned, Starts
    <3> QED
      BY <3>1, <3>2, <1>10, <1>11
  <2>2. CASE Starts(S, q) = {}
    <3>1. A = T
      BY <2>2 DEF Anchored
    <3>2. Keys(S, q) = {}
      BY <2>2, <1>10 DEF CacheInv, Shape, Keys, Starts
    <3>3. /\ DOMAIN anchor = {offset} /\ offset \in Nat
          /\ \A s \in DOMAIN anchor : anchor[s].len = 0 /\ OnGrid(s, anchor[s].len)
          /\ Vouched(q, snapshot) => \A s \in DOMAIN anchor : SpanTrue(q, s, anchor[s])
      BY DEF SpanTrue, OnGrid
    <3> HIDE DEF anchor
    <3>4. CacheInv(T)
      BY <3>3, <1>10, StoreInv
    <3>5. \A s, t \in DOMAIN anchor : s = t
      BY <3>3
    <3>6. Laid(T) /\ Owned(T, {q}) /\ T.groups[q].starts = S.groups[q].starts \cup DOMAIN anchor
      BY <3>2, <3>3, <3>5, <1>10, <1>11, StoreLaid
    <3>7. Owned(T, {})
      BY <3>3, <3>6 DEF Owned
    <3> HIDE DEF T
    <3> QED
      BY <3>1, <3>4, <3>6, <3>7
  <2> QED
    BY <2>1, <2>2
<1> HIDE DEF A
<1> QED
  BY <1>12 DEF FilledRows, R, K, pieces, new, S, A

LEMMA FilledCountLaid ==
    ASSUME CacheInv(cache), Laid(cache), Owned(cache, {}),
           NEW q \in Queries, NEW snapshot \in Snapshot(q),
           Behind(q, snapshot), NEW seen, Vouched(q, snapshot) => seen = Now(version, q)
    PROVE  LET F == FilledCount(cache, q, snapshot, seen)
           IN  CacheInv(F) /\ Laid(F) /\ Owned(F, {})
<1> DEFINE R == reconcile_epochs(cache, q, snapshot)
           new == [s \in {0} |-> [len |-> 0, seen |-> seen]]
           S == store_spans(R, q, new)
<1>1. CacheInv(R) /\ q \in DOMAIN R.groups /\ R.groups[q].stamp = snapshot
  BY ReconcileInv
<1>2. Laid(R) /\ Owned(R, {q})
  BY ReconcileLaid
<1> HIDE DEF R
<1>3. /\ DOMAIN new = {0}
      /\ \A s \in DOMAIN new : s = 0 /\ new[s].len = 0 /\ OnGrid(s, new[s].len)
      /\ Vouched(q, snapshot) => \A s \in DOMAIN new : SpanTrue(q, s, new[s])
  BY DEF SpanTrue, OnGrid
<1> HIDE DEF new
<1>4. CacheInv(S)
  BY <1>1, <1>3, StoreInv
<1>5. \A k \in Keys(R, q) : k.start # 0 =>
            /\ k.start \notin 0 .. 0 + 0 - 1 /\ 0 \notin k.start .. k.start + R.spans[k].len - 1
  BY <1>1 DEF CacheInv, Shape, Keys
<1>6. \A s, t \in DOMAIN new : s = t
  BY <1>3
<1>7. Laid(S) /\ Owned(S, {q}) /\ S.groups[q].starts = R.groups[q].starts \cup DOMAIN new
  BY <1>1, <1>2, <1>3, <1>5, <1>6, StoreLaid
<1>8. Owned(S, {})
  BY <1>3, <1>7 DEF Owned
<1> HIDE DEF S
<1> QED
  BY <1>4, <1>7, <1>8 DEF FilledCount, R, new, S

-----------------------------------------------------------------------------
Orderly == Laid(cache) /\ Owned(cache, {})

LEMMA SameCacheOrderly ==
    ASSUME Orderly, cache'.groups = cache.groups, cache'.spans = cache.spans
    PROVE  Orderly'
BY DEF Orderly, Laid, Apart, Owned

LEMMA InsertKeepsOrderly ==
    ASSUME IInv, Orderly, NEW r \in Requests, Insert(r)
    PROVE  Laid(cache') /\ Owned(cache', {})
<1>1. PICK q \in Queries : RequestTrue(request[r], q) /\ request[r].query = q
  BY RequestKnown DEF Insert
<1> DEFINE R == request[r]
<1>2. /\ R.snapshot \in Snapshot(q) /\ Behind(q, R.snapshot)
      /\ R.seen \in Seen(q) /\ R.window \in Windows
      /\ R.window.limit = None => R.window.offset = 0
      /\ Vouched(q, R.snapshot) => R.seen = Now(version, q)
  BY <1>1 DEF Insert, RequestTrue, RequestOf, NoRequest, Behind, Snapshot
<1>3. R.window.offset \in Nat
  BY <1>2, WindowsAssumption
<1>4. Count(q) \in Nat
  <2>1. Now(version, q) \in Seen(q)
    BY DepsAssumption DEF Now, Seen, IInv, Counters
  <2> QED
    BY <2>1, RowCountAssumption DEF Count
<1> HIDE DEF R
<1> DEFINE n == Returned(q, R.seen, R.window)
<1>5. /\ n \in Nat
      /\ n = 0 \/ R.window.offset + n <= RowCount(q, R.seen)
      /\ ExecutedLimit(R.window) = None \/ n < ExecutedLimit(R.window)
            => RowCount(q, R.seen) <= R.window.offset + n
  BY <1>2, ReturnedRows
<1>6. Vouched(q, R.snapshot) =>
            /\ R.seen = Now(version, q)
            /\ n = 0 \/ R.window.offset + n <= Count(q)
            /\ ExecutedLimit(R.window) = None \/ n < ExecutedLimit(R.window)
                => Count(q) <= R.window.offset + n
  BY <1>2, <1>5 DEF Count
<1> HIDE DEF n
<1>7. CacheInv(cache) /\ Laid(cache) /\ Owned(cache, {})
  BY DEF IInv, Orderly
<1> DEFINE I == insert_rows(cache, q, R.snapshot, R.window.offset, ExecutedLimit(R.window), n, R.seen)
           C == insert_count(cache, q, R.snapshot, R.seen)
           F == FilledRows(cache, q, R.snapshot, R.window.offset, ExecutedLimit(R.window), n, R.seen)
           G == FilledCount(cache, q, R.snapshot, R.seen)
<1>8. CacheInv(F) /\ Laid(F) /\ Owned(F, {})
  BY <1>2, <1>3, <1>4, <1>5, <1>6, <1>7, FilledRowsLaid
<1>9. CacheInv(G) /\ Laid(G) /\ Owned(G, {})
  BY <1>2, <1>7, FilledCountLaid
<1>11. (I = cache \/ I = evict_to_budget(F, budget)) /\ (C = cache \/ C = evict_to_budget(G, budget))
  BY InsertIs
<1>10. cache' = I \/ cache' = C
  BY <1>1 DEF Insert, R, n
<1> HIDE DEF I, C, F, G
<1> QED
  BY <1>7, <1>8, <1>9, <1>10, <1>11, EvictLaid

LEMMA OrderlyIsState ==
    ASSUME Laid(cache'), Owned(cache', {})
    PROVE  Orderly'
BY DEF Orderly, Laid, Apart, Owned

LEMMA NextOrderly ==
    ASSUME IInv, Orderly, [Next]_vars
    PROVE  Orderly'
<1>0. CacheInv(cache) /\ Laid(cache) /\ Owned(cache, {})
  BY DEF IInv, Orderly
<1>1. CASE cache' = cache
  BY <1>1, SameCacheOrderly
<1>2. ASSUME NEW r \in Requests, Lookup(r) PROVE Orderly'
  <2>1. cache'.groups = cache.groups /\ cache'.spans = cache.spans
    BY <1>0, <1>2 DEF Lookup, CacheInv, Shape, Fields
  <2> QED
    BY <2>1, SameCacheOrderly
<1>3. ASSUME NEW r \in Requests, Insert(r) PROVE Orderly'
  BY <1>3, InsertKeepsOrderly, OrderlyIsState
<1>4. ASSUME NEW bytes \in Budgets, set_budget(bytes) PROVE Orderly'
  <2>1. Laid(cache') /\ Owned(cache', {})
    BY <1>0, <1>4, EmptyLaid, EvictLaid DEF set_budget
  <2> QED
    BY <2>1, OrderlyIsState
<1>5. ASSUME NEW index_db, NEW user_data_db, clear(index_db, user_data_db) PROVE Orderly'
  <2>1. Laid(cache') /\ Owned(cache', {})
    BY <1>0, <1>5, EmptyLaid, DropLaid DEF clear
  <2> QED
    BY <2>1, OrderlyIsState
<1>6. CASE UNCHANGED vars
  BY <1>1, <1>6 DEF vars
<1>7. CASE Next
  <2>1. CASE \/ \E d \in IndexDbs : IndexCommit(d) \/ IndexBump(d)
             \/ \E d \in UserDbs : OpenUserWrite(d) \/ UserCommit(d) \/ ReleaseUserWrite(d)
    BY <2>1, <1>1 DEF IndexCommit, IndexBump, OpenUserWrite, UserCommit, ReleaseUserWrite
  <2>2. CASE \E r \in Requests :
                \/ \E ask \in Asks[r] : Search(r, ask.query, ask.window)
                \/ TakeUserEpoch(r) \/ Execute(r) \/ Abandon(r)
    BY <2>2, <1>1 DEF Search, TakeUserEpoch, Execute, Abandon
  <2> QED
    BY <2>1, <2>2, <1>2, <1>3, <1>4, <1>5, <1>7 DEF Next
<1> QED
  BY <1>6, <1>7

(* However searches insert, replace and evict spans, and clients clear the  *)
(* cache and set its budget: insert_rows, store_span and detach_span        *)
(* leave the spans of a query apart, each within a cell of the grid and in  *)
(* the index of its group, and no group without a span, which no eviction   *)
(* would ever reclaim.                                                      *)
THEOREM SpansStayOrderly == Spec => [](GroupsOwnSpans /\ SpansOnGrid)
<1>1. Init => Orderly
  BY EmptyLaid DEF Init, Orderly
<1>2. IInv /\ Orderly /\ [Next]_vars => Orderly'
  BY NextOrderly
<1>3. Spec => []Orderly
  BY <1>1, <1>2, Invariance, PTL DEF Spec
<1>4. IInv /\ Orderly => GroupsOwnSpans /\ SpansOnGrid
  <2> SUFFICES ASSUME IInv, Orderly PROVE GroupsOwnSpans /\ SpansOnGrid
    OBVIOUS
  <2>1. GroupsOwnSpans
    BY DEF GroupsOwnSpans, IInv, CacheInv, Shape, Starts, Orderly, Laid, Owned
  <2>2. SpansOnGrid
    BY DEF SpansOnGrid, Keys, Orderly, Laid, Apart, OnGrid
  <2> QED
    BY <2>1, <2>2
<1> QED
  BY <1>3, <1>4, Invariance, PTL

-----------------------------------------------------------------------------
(* Induction over the naturals and over finite sets, from the well-founded *)
(* orders < and strict inclusion.                                          *)
LEMMA LeastElement ==
    ASSUME NEW T \in SUBSET Nat, T # {}
    PROVE  \E n \in T : \A m \in T : n <= m
<1> DEFINE R == OpToRel(<, Nat)
<1>1. IsWellFoundedOn(R, Nat)
  BY NatLessThanWellFounded
<1>2. \A x, y \in Nat : <<x, y>> \in R <=> x < y
  BY DEF OpToRel
<1> HIDE DEF R
<1>3. PICK x \in T : \A y \in T : ~ (<<y, x>> \in R)
  BY <1>1, WFMin
<1>4. \A y \in T : ~ (y < x)
  <2> TAKE y \in T
  <2>1. x \in Nat /\ y \in Nat
    OBVIOUS
  <2> QED
    BY <2>1, <1>2, <1>3
<1> QED
  BY <1>4

LEMMA Induction ==
    ASSUME NEW P \in SUBSET Nat, 0 \in P, \A n \in P : n + 1 \in P
    PROVE  Nat \subseteq P
<1> SUFFICES ASSUME Nat \ P # {} PROVE FALSE
  OBVIOUS
<1>1. PICK n \in Nat \ P : \A m \in Nat \ P : n <= m
  BY LeastElement
<1>2. n # 0 /\ n - 1 \in Nat
  BY <1>1
<1>3. n - 1 \in P
  BY <1>1, <1>2
<1> QED
  BY <1>1, <1>2, <1>3

LEMMA MinimalSet ==
    ASSUME NEW S, IsFiniteSet(S), NEW F \in SUBSET SUBSET S, F # {}
    PROVE  \E T \in F : \A U \in F : U \subseteq T => U = T
<1> DEFINE R == StrictSubsetOrdering(S)
<1>1. IsWellFoundedOn(R, SUBSET S)
  BY FS_StrictSubsetOrderingWellFounded, FS_FiniteSubsetsOfFinite
<1>2. \A U, T \in SUBSET S : <<U, T>> \in R <=> U \subseteq T /\ U # T
  BY DEF StrictSubsetOrdering
<1> HIDE DEF R
<1>3. PICK T \in F : \A U \in F : ~ (<<U, T>> \in R)
  BY <1>1, WFMin
<1> QED
  BY <1>2, <1>3

LEMMA SetInduction ==
    ASSUME NEW S, IsFiniteSet(S), NEW F \in SUBSET SUBSET S, {} \in F,
           \A T \in F : \A x \in S \ T : T \cup {x} \in F
    PROVE  S \in F
<1> SUFFICES ASSUME S \notin F PROVE FALSE
  OBVIOUS
<1> DEFINE B == (SUBSET S) \ F
<1>1. PICK T \in B : \A U \in B : U \subseteq T => U = T
  <2>1. S \in B /\ B \in SUBSET SUBSET S
    OBVIOUS
  <2> HIDE DEF B
  <2> QED
    BY <2>1, MinimalSet
<1>2. PICK x \in T : TRUE
  BY <1>1
<1>3. T \ {x} \in F
  BY <1>1, <1>2
<1>4. (T \ {x}) \cup {x} \in F
  BY <1>1, <1>2, <1>3
<1>5. (T \ {x}) \cup {x} = T
  BY <1>2
<1> QED
  BY <1>1, <1>4, <1>5

-----------------------------------------------------------------------------
(* Sums over finite sets.                                                  *)
FoldStep(h, f, s) ==
    IF s = {} THEN 0 ELSE f[CHOOSE x \in s : TRUE] + h[s \ {CHOOSE x \in s : TRUE}]

IsFold(h, f, S) == h \in [SUBSET S -> Nat] /\ \A s \in SUBSET S : h[s] = FoldStep(h, f, s)

LEMMA ChosenSmaller ==
    ASSUME NEW S, IsFiniteSet(S), NEW s \in SUBSET S, s # {}
    PROVE  LET x == CHOOSE x \in s : TRUE
           IN  /\ x \in s /\ s \ {x} \in SUBSET S
               /\ Cardinality(s) \in Nat /\ Cardinality(s \ {x}) = Cardinality(s) - 1
<1> DEFINE x == CHOOSE x \in s : TRUE
<1>1. x \in s
  OBVIOUS
<1>2. IsFiniteSet(s) /\ Cardinality(s) \in Nat
  BY FS_Subset, FS_CardinalityType
<1> HIDE DEF x
<1>3. Cardinality(s \ {x}) = Cardinality(s) - 1
  BY <1>1, <1>2, FS_RemoveElement
<1>4. s \ {x} \in SUBSET S
  OBVIOUS
<1> QED
  BY <1>1, <1>2, <1>3, <1>4 DEF x

LEMMA FoldExists ==
    ASSUME NEW S, IsFiniteSet(S), NEW f, \A x \in S : f[x] \in Nat
    PROVE  \E h : IsFold(h, f, S)
<1> DEFINE Upto(n, h) == \A s \in SUBSET S : Cardinality(s) <= n => h[s] = FoldStep(h, f, s)
<1> DEFINE P == {n \in Nat : \E h \in [SUBSET S -> Nat] : Upto(n, h)}
<1>0. \A s \in SUBSET S : IsFiniteSet(s) /\ Cardinality(s) \in Nat
  BY FS_Subset, FS_CardinalityType
<1>1. 0 \in P
  <2> DEFINE h == [s \in SUBSET S |-> 0]
  <2>1. h \in [SUBSET S -> Nat]
    OBVIOUS
  <2>2. Upto(0, h)
    <3> SUFFICES ASSUME NEW s \in SUBSET S, Cardinality(s) <= 0 PROVE h[s] = FoldStep(h, f, s)
      OBVIOUS
    <3>1. s = {}
      BY <1>0, FS_EmptySet
    <3> QED
      BY <3>1 DEF FoldStep
  <2> QED
    BY <2>1, <2>2
<1>2. \A n \in P : n + 1 \in P
  <2> TAKE n \in P
  <2>1. n \in Nat
    OBVIOUS
  <2>2. PICK h \in [SUBSET S -> Nat] : Upto(n, h)
    OBVIOUS
  <2> DEFINE k == [s \in SUBSET S |-> IF Cardinality(s) = n + 1 THEN FoldStep(h, f, s) ELSE h[s]]
  <2>3. \A s \in SUBSET S : FoldStep(h, f, s) \in Nat
    <3> TAKE s \in SUBSET S
    <3>1. CASE s = {}
      BY <3>1 DEF FoldStep
    <3>2. CASE s # {}
      BY <3>2, ChosenSmaller DEF FoldStep
    <3> QED
      BY <3>1, <3>2
  <2>4. k \in [SUBSET S -> Nat]
    BY <2>3
  <2>5. \A s \in SUBSET S : Cardinality(s) <= n + 1 => FoldStep(k, f, s) = FoldStep(h, f, s)
    <3> SUFFICES ASSUME NEW s \in SUBSET S, Cardinality(s) <= n + 1
                 PROVE  FoldStep(k, f, s) = FoldStep(h, f, s)
      OBVIOUS
    <3>1. CASE s = {}
      BY <3>1 DEF FoldStep
    <3>2. CASE s # {}
      <4> DEFINE x == CHOOSE x \in s : TRUE
      <4>1. s \ {x} \in SUBSET S /\ Cardinality(s) \in Nat /\ Cardinality(s \ {x}) = Cardinality(s) - 1
        BY <3>2, ChosenSmaller
      <4>2. Cardinality(s \ {x}) # n + 1
        BY <4>1, <2>1
      <4>3. k[s \ {x}] = h[s \ {x}]
        BY <4>1, <4>2
      <4> QED
        BY <3>2, <4>3 DEF FoldStep
    <3> QED
      BY <3>1, <3>2
  <2>6. Upto(n + 1, k)
    <3> SUFFICES ASSUME NEW s \in SUBSET S, Cardinality(s) <= n + 1 PROVE k[s] = FoldStep(k, f, s)
      OBVIOUS
    <3>1. CASE Cardinality(s) = n + 1
      BY <3>1, <2>5
    <3>2. CASE Cardinality(s) # n + 1
      <4>1. Cardinality(s) <= n
        BY <3>2, <1>0, <2>1
      <4> QED
        BY <4>1, <3>2, <2>2, <2>5
    <3> QED
      BY <3>1, <3>2
  <2> HIDE DEF k, Upto
  <2>7. \E g \in [SUBSET S -> Nat] : Upto(n + 1, g)
    BY <2>4, <2>6
  <2>8. n + 1 \in Nat
    BY <2>1
  <2> QED
    BY <2>7, <2>8, Zenon
<1>3. Cardinality(S) \in P
  <2>1. P \in SUBSET Nat
    OBVIOUS
  <2> HIDE DEF P
  <2> QED
    BY <1>0, <1>1, <1>2, <2>1, Induction
<1>4. PICK h \in [SUBSET S -> Nat] : Upto(Cardinality(S), h)
  BY <1>3
<1>5. \A s \in SUBSET S : Cardinality(s) <= Cardinality(S)
  BY FS_Subset
<1> QED
  BY <1>4, <1>5 DEF IsFold

LEMMA FoldsAgree ==
    ASSUME NEW S, IsFiniteSet(S), NEW T \in SUBSET S, NEW f, NEW g, NEW h, NEW k,
           \A x \in T : f[x] = g[x],
           \A s \in SUBSET S : h[s] = FoldStep(h, f, s),
           \A s \in SUBSET T : k[s] = FoldStep(k, g, s)
    PROVE  h[T] = k[T]
<1> DEFINE B == {s \in SUBSET T : h[s] # k[s]}
<1> SUFFICES ASSUME B # {} PROVE FALSE
  OBVIOUS
<1>1. PICK s \in B : \A U \in B : U \subseteq s => U = s
  <2>1. B \in SUBSET SUBSET T /\ IsFiniteSet(T)
    BY FS_Subset
  <2> HIDE DEF B
  <2> QED
    BY <2>1, MinimalSet
<1>2. CASE s = {}
  BY <1>1, <1>2 DEF FoldStep
<1>3. CASE s # {}
  <2> DEFINE x == CHOOSE x \in s : TRUE
  <2>1. x \in s /\ s \ {x} \in SUBSET T
    BY <1>3
  <2>2. h[s \ {x}] = k[s \ {x}]
    BY <1>1, <2>1
  <2>3. f[x] = g[x]
    BY <1>1, <2>1
  <2>4. h[s] = f[x] + h[s \ {x}] /\ k[s] = g[x] + k[s \ {x}]
    BY <1>1, <1>3 DEF FoldStep
  <2> QED
    BY <1>1, <2>2, <2>3, <2>4
<1> QED
  BY <1>2, <1>3

LEMMA SumIsFold ==
    ASSUME NEW S, IsFiniteSet(S), NEW f, \A x \in S : f[x] \in Nat
    PROVE  \E h : IsFold(h, f, S) /\ SumFunctionOnSet(f, S) = h[S]
<1> DEFINE G(g) == [s \in SUBSET S |->
                      IF s = {} THEN 0 ELSE LET x == CHOOSE x \in s : TRUE IN f[x] + g[s \ {x}]]
<1>1. PICK h : IsFold(h, f, S)
  BY FoldExists
<1>2. h = G(h)
  BY <1>1 DEF IsFold, FoldStep
<1> DEFINE g == CHOOSE g : g = G(g)
<1>3. g = G(g)
  BY <1>2
<1>4. SumFunctionOnSet(f, S) = g[S]
  BY DEF SumFunctionOnSet, FoldFunctionOnSet, MapThenFoldSet
<1> HIDE DEF g
<1>5. \A s \in SUBSET S : g[s] = FoldStep(g, f, s)
  BY <1>3 DEF FoldStep
<1>6. \A s \in SUBSET S : h[s] = FoldStep(h, f, s)
  BY <1>1 DEF IsFold
<1>7. g[S] = h[S]
  BY <1>5, <1>6, FoldsAgree
<1> QED
  BY <1>1, <1>4, <1>7

Weighed(f, S) == IsFiniteSet(S) /\ \A x \in S : f[x] \in Nat

LEMMA SumType ==
    ASSUME NEW S, NEW f, Weighed(f, S)
    PROVE  SumFunctionOnSet(f, S) \in Nat /\ (S = {} => SumFunctionOnSet(f, S) = 0)
<1>1. PICK h : IsFold(h, f, S) /\ SumFunctionOnSet(f, S) = h[S]
  BY SumIsFold DEF Weighed
<1>2. h[S] \in Nat
  BY <1>1 DEF IsFold
<1>3. S = {} => h[S] = 0
  BY <1>1 DEF IsFold, FoldStep
<1> QED
  BY <1>1, <1>2, <1>3

(* A sum depends on the weights of its elements only.                      *)
LEMMA SumSame ==
    ASSUME NEW S, NEW f, NEW g, Weighed(f, S), \A x \in S : f[x] = g[x]
    PROVE  SumFunctionOnSet(f, S) = SumFunctionOnSet(g, S)
<1>0. IsFiniteSet(S) /\ S \in SUBSET S
  BY DEF Weighed
<1>1. PICK h : IsFold(h, f, S) /\ SumFunctionOnSet(f, S) = h[S]
  BY SumIsFold DEF Weighed
<1>2. \A x \in S : g[x] \in Nat
  BY DEF Weighed
<1>3. PICK k : IsFold(k, g, S) /\ SumFunctionOnSet(g, S) = k[S]
  BY <1>0, <1>2, SumIsFold
<1>4. /\ \A s \in SUBSET S : h[s] = FoldStep(h, f, s)
      /\ \A s \in SUBSET S : k[s] = FoldStep(k, g, s)
  BY <1>1, <1>3 DEF IsFold
<1>5. h[S] = k[S]
  BY <1>0, <1>4, FoldsAgree
<1> QED
  BY <1>1, <1>3, <1>5

LEMMA SumChosen ==
    ASSUME NEW S, NEW f, Weighed(f, S), S # {}
    PROVE  LET x == CHOOSE x \in S : TRUE
           IN  SumFunctionOnSet(f, S) = f[x] + SumFunctionOnSet(f, S \ {x})
<1> DEFINE x == CHOOSE x \in S : TRUE
           T == S \ {x}
<1>0. IsFiniteSet(S) /\ x \in S
  BY DEF Weighed
<1>1. PICK h : IsFold(h, f, S) /\ SumFunctionOnSet(f, S) = h[S]
  BY SumIsFold DEF Weighed
<1>2. IsFiniteSet(T) /\ T \in SUBSET S
  BY <1>0, FS_Subset
<1>3. \A y \in T : f[y] \in Nat
  BY DEF Weighed
<1>4. h[S] = f[x] + h[T]
  BY <1>1 DEF IsFold, FoldStep
<1>5. \A s \in SUBSET S : h[s] = FoldStep(h, f, s)
  BY <1>1 DEF IsFold
<1> HIDE DEF T
<1>6. PICK k : IsFold(k, f, T) /\ SumFunctionOnSet(f, T) = k[T]
  BY <1>2, <1>3, SumIsFold
<1>7. \A s \in SUBSET T : k[s] = FoldStep(k, f, s)
  BY <1>6 DEF IsFold
<1>8. h[T] = k[T]
  BY <1>0, <1>2, <1>5, <1>7, FoldsAgree
<1>9. SumFunctionOnSet(f, S) = f[x] + SumFunctionOnSet(f, T)
  BY <1>1, <1>4, <1>6, <1>8
<1> QED
  BY <1>9 DEF T

LEMMA FewerWeighed ==
    ASSUME NEW S, NEW f, Weighed(f, S), NEW T, T \subseteq S
    PROVE  Weighed(f, T)
BY FS_Subset DEF Weighed

(* Whatever element is taken out first.                                    *)
LEMMA SumWithout ==
    ASSUME NEW S, NEW f, Weighed(f, S), NEW x \in S
    PROVE  SumFunctionOnSet(f, S) = f[x] + SumFunctionOnSet(f, S \ {x})
<1> DEFINE Sum(T) == SumFunctionOnSet(f, T)
           B == {T \in SUBSET S : \E y \in T : Sum(T) # f[y] + Sum(T \ {y})}
<1> SUFFICES ASSUME B # {} PROVE FALSE
  <2>1. B = {} => Sum(S) = f[x] + Sum(S \ {x})
    OBVIOUS
  <2> QED
    BY <2>1
<1>0. \A T \in SUBSET S : Weighed(f, T) /\ Sum(T) \in Nat
  BY FewerWeighed, SumType
<1>1. PICK T \in B : \A U \in B : U \subseteq T => U = T
  <2>1. B \in SUBSET SUBSET S /\ IsFiniteSet(S)
    BY DEF Weighed
  <2> HIDE DEF B
  <2> QED
    BY <2>1, MinimalSet
<1>2. PICK y \in T : Sum(T) # f[y] + Sum(T \ {y})
  BY <1>1
<1> DEFINE z == CHOOSE z \in T : TRUE
<1>3. z \in T
  BY <1>2
<1>4. Sum(T) = f[z] + Sum(T \ {z})
  <2>1. Weighed(f, T) /\ T # {}
    BY <1>0, <1>1, <1>2
  <2> QED
    BY <2>1, SumChosen
<1> HIDE DEF z
<1>5. z # y
  BY <1>2, <1>4
<1>6. T \ {z} \notin B /\ T \ {y} \notin B
  BY <1>1, <1>2, <1>3
<1>7. Sum(T \ {z}) = f[y] + Sum((T \ {z}) \ {y})
  <2>1. y \in T \ {z} /\ T \ {z} \in SUBSET S
    BY <1>1, <1>2, <1>5
  <2> QED
    BY <2>1, <1>6
<1>8. Sum(T \ {y}) = f[z] + Sum((T \ {y}) \ {z})
  <2>1. z \in T \ {y} /\ T \ {y} \in SUBSET S
    BY <1>1, <1>3, <1>5
  <2> QED
    BY <2>1, <1>6
<1>9. Sum((T \ {y}) \ {z}) = Sum((T \ {z}) \ {y})
  <2>1. (T \ {y}) \ {z} = (T \ {z}) \ {y}
    OBVIOUS
  <2> HIDE DEF Sum
  <2> QED
    BY <2>1
<1>10. f[y] \in Nat /\ f[z] \in Nat /\ Sum((T \ {z}) \ {y}) \in Nat
  <2>1. y \in S /\ z \in S /\ (T \ {z}) \ {y} \in SUBSET S
    BY <1>1, <1>2, <1>3
  <2> QED
    BY <2>1, <1>0 DEF Weighed
<1> HIDE DEF Sum
<1> QED
  BY <1>2, <1>4, <1>7, <1>8, <1>9, <1>10

(* The sum over a part and the sum over the rest.                          *)
LEMMA SumSplit ==
    ASSUME NEW S, NEW f, Weighed(f, S), NEW T \in SUBSET S
    PROVE  SumFunctionOnSet(f, S) = SumFunctionOnSet(f, T) + SumFunctionOnSet(f, S \ T)
<1> DEFINE Sum(U) == SumFunctionOnSet(f, U)
           F == {U \in SUBSET T : Sum(S) = Sum(U) + Sum(S \ U)}
<1>0. \A U \in SUBSET S : Weighed(f, U) /\ Sum(U) \in Nat
  BY FewerWeighed, SumType
<1>1. {} \in F
  <2>1. Weighed(f, {}) /\ Sum(S) \in Nat
    BY <1>0
  <2>2. Sum({}) = 0
    <3>1. \A U : U = {} /\ Weighed(f, U) => Sum(U) = 0
      BY SumType
    <3> QED
      BY <3>1, <2>1
  <2>3. S \ {} = S
    OBVIOUS
  <2> QED
    BY <2>1, <2>2, <2>3
<1>2. \A U \in F : \A x \in T \ U : U \cup {x} \in F
  <2> TAKE U \in F
  <2> TAKE x \in T \ U
  <2> DEFINE V == U \cup {x}
             W == S \ U
  <2>1. U \in SUBSET S /\ V \in SUBSET S /\ W \in SUBSET S /\ x \in V /\ x \in W
    OBVIOUS
  <2>2. V \ {x} = U /\ W \ {x} = S \ V
    OBVIOUS
  <2>3. f[x] \in Nat
    BY DEF Weighed
  <2>4. Sum(S) = Sum(U) + Sum(W)
    OBVIOUS
  <2> HIDE DEF V, W
  <2>5. Sum(V) = f[x] + Sum(V \ {x}) /\ Sum(W) = f[x] + Sum(W \ {x})
    BY <1>0, <2>1, SumWithout
  <2>6. Sum(U) \in Nat /\ Sum(V) \in Nat /\ Sum(W) \in Nat /\ Sum(S \ V) \in Nat /\ S \ V \in SUBSET S
    <3>1. S \ V \in SUBSET S
      OBVIOUS
    <3> QED
      BY <1>0, <2>1, <3>1
  <2>7. Sum(S) = Sum(V) + Sum(S \ V)
    <3> HIDE DEF Sum
    <3>1. Sum(V) = f[x] + Sum(U)
      BY <2>2, <2>5, Zenon
    <3>2. Sum(W) = f[x] + Sum(S \ V)
      BY <2>2, <2>5, Zenon
    <3> DEFINE rest == Sum(S \ V)
    <3>3. rest \in Nat /\ Sum(W) = f[x] + rest
      BY <2>6, <3>2
    <3> HIDE DEF rest
    <3>4. Sum(S) = Sum(V) + rest
      BY <2>3, <2>4, <2>6, <3>1, <3>3
    <3> QED
      BY <3>4 DEF rest
  <2>8. V \in SUBSET T
    BY DEF V
  <2> QED
    BY <2>7, <2>8 DEF V
<1>3. IsFiniteSet(T) /\ F \in SUBSET SUBSET T
  BY FS_Subset DEF Weighed
<1>4. T \in F
  <2> HIDE DEF F
  <2> QED
    BY <1>1, <1>2, <1>3, SetInduction
<1> QED
  BY <1>4

-----------------------------------------------------------------------------
(* The order of use.                                                       *)
ForgetStep(left, order, keys, i) ==
    IF i = 0 THEN <<>>
    ELSE IF order[i] \in keys THEN left[i - 1]
    ELSE Append(left[i - 1], order[i])

Forgets(left, order, keys, n, X) ==
    left \in [0 .. n -> Seq(X)] /\ \A i \in 0 .. n : left[i] = ForgetStep(left, order, keys, i)

LEMMA ForgetExists ==
    ASSUME NEW X, NEW order \in Seq(X), NEW keys
    PROVE  \E left : Forgets(left, order, keys, Len(order), X)
<1> DEFINE P == {n \in Nat : n <= Len(order) => \E left : Forgets(left, order, keys, n, X)}
<1>1. 0 \in P
  <2> DEFINE left == [i \in 0 .. 0 |-> <<>>]
  <2>1. left \in [0 .. 0 -> Seq(X)]
    OBVIOUS
  <2>2. \A i \in 0 .. 0 : left[i] = ForgetStep(left, order, keys, i)
    BY DEF ForgetStep
  <2> HIDE DEF left
  <2>3. Forgets(left, order, keys, 0, X)
    BY <2>1, <2>2 DEF Forgets
  <2> QED
    BY <2>3
<1>2. \A n \in P : n + 1 \in P
  <2> TAKE n \in P
  <2>0. n \in Nat /\ n + 1 \in Nat
    OBVIOUS
  <2> SUFFICES ASSUME n + 1 <= Len(order)
               PROVE  \E left : Forgets(left, order, keys, n + 1, X)
    BY <2>0
  <2>5. Len(order) \in Nat /\ n <= Len(order)
    BY <2>0
  <2>6. PICK m : Forgets(m, order, keys, n, X)
    BY <2>5
  <2>7. PICK l \in [0 .. n -> Seq(X)] : l = m
    BY <2>6 DEF Forgets
  <2>1. \A i \in 0 .. n : l[i] = ForgetStep(l, order, keys, i)
    BY <2>6, <2>7 DEF Forgets
  <2> DEFINE left == [i \in 0 .. n + 1 |-> IF i = n + 1 THEN ForgetStep(l, order, keys, i) ELSE l[i]]
  <2>2. ForgetStep(l, order, keys, n + 1) \in Seq(X)
    <3>1. order[n + 1] \in X /\ l[n] \in Seq(X)
      BY <2>0
    <3> QED
      BY <2>0, <3>1 DEF ForgetStep
  <2>3. left \in [0 .. n + 1 -> Seq(X)]
    BY <2>0, <2>2
  <2>4. \A i \in 0 .. n + 1 : left[i] = ForgetStep(left, order, keys, i)
    <3> TAKE i \in 0 .. n + 1
    <3>1. i # 0 => i - 1 \in 0 .. n /\ i - 1 # n + 1 /\ i - 1 \in 0 .. n + 1
      BY <2>0
    <3>2. i # 0 => left[i - 1] = l[i - 1]
      BY <3>1
    <3>3. i # n + 1 => i \in 0 .. n
      BY <2>0
    <3>4. left[i] = ForgetStep(l, order, keys, i)
      BY <2>1, <3>3
    <3> HIDE DEF left
    <3> QED
      BY <3>2, <3>4 DEF ForgetStep
  <2> HIDE DEF left
  <2>8. Forgets(left, order, keys, n + 1, X)
    BY <2>3, <2>4 DEF Forgets
  <2> QED
    BY <2>8
<1>3. P \in SUBSET Nat
  OBVIOUS
<1>4. Len(order) \in P
  <2>1. Len(order) \in Nat
    OBVIOUS
  <2> HIDE DEF P
  <2> QED
    BY <1>1, <1>2, <1>3, <2>1, Induction
<1> QED
  BY <1>4

(* What is left is what was there without the keys, each once.             *)
Kept(r, order, keys, i) ==
    /\ Range(r) = {order[j] : j \in 1 .. i} \ keys
    /\ IsInjective(order) => IsInjective(r)

LEMMA AppendRange ==
    ASSUME NEW X, NEW s \in Seq(X), NEW x \in X
    PROVE  /\ Append(s, x) \in Seq(X)
           /\ Range(Append(s, x)) = Range(s) \cup {x}
           /\ IsInjective(s) /\ x \notin Range(s) => IsInjective(Append(s, x))
<1> DEFINE t == Append(s, x)
<1>1. t \in Seq(X) /\ DOMAIN t = 1 .. Len(s) + 1 /\ DOMAIN s = 1 .. Len(s) /\ Len(s) \in Nat
  OBVIOUS
<1>2. t[Len(s) + 1] = x /\ \A i \in 1 .. Len(s) : t[i] = s[i]
  OBVIOUS
<1> HIDE DEF t
<1>3. Range(t) = Range(s) \cup {x}
  <2>1. \A i \in 1 .. Len(s) + 1 : i = Len(s) + 1 \/ i \in 1 .. Len(s)
    BY <1>1
  <2>2. \A i \in 1 .. Len(s) : i \in 1 .. Len(s) + 1
    BY <1>1
  <2>3. Len(s) + 1 \in 1 .. Len(s) + 1
    BY <1>1
  <2> QED
    BY <1>1, <1>2, <2>1, <2>2, <2>3 DEF Range
<1>4. IsInjective(s) /\ x \notin Range(s) => IsInjective(t)
  BY <1>1, <1>2 DEF IsInjective, Range
<1> QED
  BY <1>1, <1>3, <1>4 DEF t

LEMMA ForgetKeeps ==
    ASSUME NEW X, NEW order \in Seq(X), NEW keys
    PROVE  LET F == Forget(order, keys)
           IN  /\ F \in Seq(X)
               /\ Range(F) = Range(order) \ keys
               /\ IsInjective(order) => IsInjective(F)
<1> DEFINE n == Len(order)
           G(l) == [i \in 0 .. n |-> IF i = 0 THEN <<>>
                                     ELSE IF order[i] \in keys THEN l[i - 1]
                                     ELSE Append(l[i - 1], order[i])]
<1>0. n \in Nat /\ DOMAIN order = 1 .. n
  OBVIOUS
<1>2. \E l : l = G(l)
  <2>1. PICK l : Forgets(l, order, keys, Len(order), X)
    BY ForgetExists
  <2>2. l = G(l)
    BY <2>1 DEF Forgets, ForgetStep
  <2> QED
    BY <2>2
<1> DEFINE left == CHOOSE l : l = G(l)
<1>1. Forget(order, keys) = left[n]
  BY DEF Forget
<1>8. left = G(left)
  BY <1>2
<1> HIDE DEF left
<1>3. \A i \in 0 .. n : left[i] = ForgetStep(left, order, keys, i)
  BY <1>8 DEF ForgetStep
<1> DEFINE P == {i \in Nat : i <= n => left[i] \in Seq(X) /\ Kept(left[i], order, keys, i)}
<1> HIDE DEF n
<1>4. 0 \in P
  <2>1. left[0] = <<>>
    BY <1>0, <1>3 DEF ForgetStep
  <2>2. \A r : r = <<>> => Range(r) = {} /\ IsInjective(r) /\ r \in Seq(X)
    BY DEF Range, IsInjective
  <2>3. {order[j] : j \in 1 .. 0} = {}
    OBVIOUS
  <2> QED
    BY <2>1, <2>2, <2>3 DEF Kept
<1>5. \A i \in P : i + 1 \in P
  <2> SUFFICES ASSUME NEW i \in P, i + 1 <= n
               PROVE  left[i + 1] \in Seq(X) /\ Kept(left[i + 1], order, keys, i + 1)
    OBVIOUS
  <2>0. i \in Nat /\ i <= n /\ i + 1 \in 1 .. n /\ i + 1 \in 0 .. n /\ (i + 1) - 1 = i /\ i + 1 # 0
    BY <1>0
  <2>1. left[i] \in Seq(X) /\ Kept(left[i], order, keys, i)
    BY <2>0
  <2>2. left[i + 1] = IF order[i + 1] \in keys THEN left[i] ELSE Append(left[i], order[i + 1])
    BY <1>3, <2>0 DEF ForgetStep
  <2>3. {order[j] : j \in 1 .. i + 1} = {order[j] : j \in 1 .. i} \cup {order[i + 1]}
    <3>1. \A j : j \in 1 .. i + 1 <=> (j \in 1 .. i \/ j = i + 1)
      BY <2>0
    <3> QED
      BY <3>1
  <2>4. CASE order[i + 1] \in keys
    BY <2>1, <2>2, <2>3, <2>4 DEF Kept
  <2>5. CASE order[i + 1] \notin keys
    <3>1. order[i + 1] \in X
      BY <1>0, <2>0
    <3>2. left[i + 1] = Append(left[i], order[i + 1])
      BY <2>2, <2>5
    <3>3. /\ left[i + 1] \in Seq(X)
          /\ Range(left[i + 1]) = Range(left[i]) \cup {order[i + 1]}
          /\ IsInjective(left[i]) /\ order[i + 1] \notin Range(left[i]) => IsInjective(left[i + 1])
      BY <2>1, <3>1, <3>2, AppendRange
    <3>4. IsInjective(order) => order[i + 1] \notin {order[j] : j \in 1 .. i}
      BY <1>0, <2>0 DEF IsInjective
    <3>5. Range(left[i + 1]) = {order[j] : j \in 1 .. i + 1} \ keys
      BY <2>1, <2>3, <2>5, <3>3 DEF Kept
    <3>6. IsInjective(order) => IsInjective(left[i + 1])
      BY <2>1, <3>3, <3>4 DEF Kept
    <3> QED
      BY <3>3, <3>5, <3>6 DEF Kept
  <2> QED
    BY <2>4, <2>5
<1>6. n \in P
  <2>1. P \in SUBSET Nat
    OBVIOUS
  <2> HIDE DEF P
  <2> QED
    BY <1>0, <1>4, <1>5, <2>1, Induction
<1>7. Range(order) = {order[j] : j \in 1 .. n}
  BY <1>0 DEF Range
<1> QED
  BY <1>0, <1>1, <1>6, <1>7 DEF Kept

(* Increasing enumerations exist.                                          *)
InOrder(s, S) ==
    /\ s \in [1 .. Cardinality(S) -> S]
    /\ Range(s) = S
    /\ \A i, j \in DOMAIN s : i < j => s[i] < s[j]

Sortable(S) == \E s : InOrder(s, S)

LEMMA SmallestUnsortable ==
    ASSUME NEW S, IsFiniteSet(S), ~ Sortable(S)
    PROVE  \E T \in SUBSET S :
               ~ Sortable(T) /\ \A U \in SUBSET T : U # T => Sortable(U)
<1> DEFINE B == {T \in SUBSET S : ~ Sortable(T)}
<1>1. PICK T \in B : \A U \in B : U \subseteq T => U = T
  <2>1. B \in SUBSET SUBSET S /\ S \in B
    OBVIOUS
  <2> HIDE DEF B
  <2> QED
    BY <2>1, MinimalSet
<1> QED
  BY <1>1

LEMMA OrderExists ==
    ASSUME NEW S, S \subseteq Nat, IsFiniteSet(S)
    PROVE  Sortable(S)
<1> SUFFICES ASSUME ~ Sortable(S) PROVE FALSE
  OBVIOUS
<1>1. PICK T \in SUBSET S : ~ Sortable(T) /\ \A U \in SUBSET T : U # T => Sortable(U)
  BY SmallestUnsortable
<1>2. T \in SUBSET Nat /\ IsFiniteSet(T) /\ Cardinality(T) \in Nat
  BY <1>1, FS_Subset, FS_CardinalityType
<1>3. CASE T = {}
  <2> DEFINE s == [i \in 1 .. 0 |-> 0]
  <2>1. Cardinality(T) = 0
    BY <1>2, <1>3, FS_EmptySet
  <2>2. InOrder(s, T)
    BY <1>3, <2>1 DEF InOrder, Range
  <2> QED
    BY <1>1, <2>2 DEF Sortable
<1>4. CASE T # {}
  <2>1. PICK x \in T : \A y \in T : x <= y
    BY <1>2, <1>4, LeastElement
  <2> DEFINE U == T \ {x}
  <2>2. IsFiniteSet(U) /\ Cardinality(U) = Cardinality(T) - 1 /\ Cardinality(U) \in Nat
    BY <1>2, <2>1, FS_RemoveElement, FS_CardinalityType
  <2>3. PICK u : InOrder(u, U)
    BY <1>1, <2>1 DEF Sortable
  <2> DEFINE s == [i \in 1 .. Cardinality(T) |-> IF i = 1 THEN x ELSE u[i - 1]]
  <2>4. \A i \in 1 .. Cardinality(T) : i # 1 => i - 1 \in 1 .. Cardinality(U)
    BY <1>2, <2>2
  <2>5. \A i \in 1 .. Cardinality(U) : u[i] \in U
    BY <2>3 DEF InOrder
  <2>6. s \in [1 .. Cardinality(T) -> T]
    BY <2>4, <2>5, <2>1
  <2>7. Range(s) = T
    <3>1. Range(s) \subseteq T
      BY <2>6 DEF Range
    <3>2. ASSUME NEW y \in T PROVE y \in Range(s)
      <4>1. CASE y = x
        <5>1. 1 \in 1 .. Cardinality(T)
          BY <1>2, <2>2
        <5> QED
          BY <4>1, <5>1 DEF Range
      <4>2. CASE y # x
        <5>1. PICK i \in 1 .. Cardinality(U) : u[i] = y
          BY <2>3, <4>2 DEF InOrder, Range
        <5>2. i + 1 \in 1 .. Cardinality(T) /\ i + 1 # 1 /\ (i + 1) - 1 = i
          BY <1>2, <2>2
        <5>3. s[i + 1] = y
          BY <5>1, <5>2
        <5> QED
          BY <5>2, <5>3 DEF Range
      <4> QED
        BY <4>1, <4>2
    <3> QED
      BY <3>1, <3>2
  <2>8. \A i, j \in 1 .. Cardinality(T) : i < j => s[i] < s[j]
    <3> SUFFICES ASSUME NEW i \in 1 .. Cardinality(T), NEW j \in 1 .. Cardinality(T), i < j
                 PROVE  s[i] < s[j]
      OBVIOUS
    <3>0. j # 1 /\ j \in Nat /\ i \in Nat
      BY <1>2
    <3>1. j - 1 \in 1 .. Cardinality(U) /\ s[j] = u[j - 1] /\ u[j - 1] \in U
      BY <2>4, <2>5, <3>0
    <3>2. CASE i = 1
      <4>1. s[i] = x /\ s[j] # x /\ s[j] \in T
        BY <3>1, <3>2
      <4> HIDE DEF s
      <4>2. x <= s[j] /\ x \in Nat /\ s[j] \in Nat
        BY <4>1, <2>1, <1>2
      <4> QED
        BY <4>1, <4>2
    <3>3. CASE i # 1
      <4>1. i - 1 \in 1 .. Cardinality(U) /\ s[i] = u[i - 1] /\ i - 1 < j - 1
        BY <2>4, <3>3, <1>2
      <4> QED
        BY <3>1, <4>1, <2>3 DEF InOrder
    <3> QED
      BY <3>2, <3>3
  <2>9. InOrder(s, T)
    BY <2>6, <2>7, <2>8 DEF InOrder
  <2> QED
    BY <1>1, <2>9 DEF Sortable
<1> QED
  BY <1>3, <1>4

LEMMA KeysOnce ==
    ASSUME NEW q, NEW S, S \subseteq Nat, IsFiniteSet(S)
    PROVE  LET K == KeysInOrder(q, S)
           IN  /\ K \in Seq({Key(q, s) : s \in S})
               /\ Range(K) = {Key(q, s) : s \in S}
               /\ IsInjective(K)
<1> DEFINE order == CHOOSE s \in [1 .. Cardinality(S) -> S] :
                       /\ Range(s) = S
                       /\ \A i, j \in DOMAIN s : i < j => s[i] < s[j]
           K == [i \in DOMAIN order |-> Key(q, order[i])]
<1>1. InOrder(order, S)
  BY OrderExists DEF InOrder, Sortable
<1>2. KeysInOrder(q, S) = K
  BY DEF KeysInOrder
<1> HIDE DEF order
<1>3. DOMAIN order = 1 .. Cardinality(S) /\ Cardinality(S) \in Nat /\ \A i \in DOMAIN order : order[i] \in S
  BY <1>1, FS_CardinalityType DEF InOrder
<1>4. K \in Seq({Key(q, s) : s \in S})
  BY <1>3
<1>5. Range(K) = {Key(q, s) : s \in S}
  BY <1>1, <1>3 DEF InOrder, Range
<1>6. \A s, t \in S : Key(q, s) = Key(q, t) => s = t
  BY DEF Key
<1>7. IsInjective(K)
  <2>1. \A i, j \in DOMAIN order : i < j => order[i] < order[j]
    BY <1>1 DEF InOrder
  <2>2. \A i, j \in DOMAIN order : i # j => order[i] # order[j]
    <3> SUFFICES ASSUME NEW i \in DOMAIN order, NEW j \in DOMAIN order, i # j PROVE order[i] # order[j]
      OBVIOUS
    <3>1. i \in Nat /\ j \in Nat
      BY <1>3
    <3>3. order[i] \in Nat /\ order[j] \in Nat
      BY <1>3
    <3>2. i < j \/ j < i
      BY <3>1
    <3> QED
      BY <2>1, <3>2, <3>3
  <2> QED
    BY <1>3, <1>6, <2>2 DEF IsInjective
<1> QED
  BY <1>2, <1>4, <1>5, <1>7

LEMMA ConcatOnce ==
    ASSUME NEW X, NEW s \in Seq(X), NEW t \in Seq(X)
    PROVE  /\ s \o t \in Seq(X)
           /\ Range(s \o t) = Range(s) \cup Range(t)
           /\ IsInjective(s) /\ IsInjective(t) /\ Range(s) \cap Range(t) = {} => IsInjective(s \o t)
<1> DEFINE c == s \o t
           m == Len(s)
           n == Len(t)
<1>1. c \in Seq(X) /\ Len(c) = m + n /\ m \in Nat /\ n \in Nat
  OBVIOUS
<1>2. DOMAIN s = 1 .. m /\ DOMAIN t = 1 .. n /\ DOMAIN c = 1 .. m + n
  BY <1>1
<1>3. \A i \in 1 .. m : c[i] = s[i]
  OBVIOUS
<1>4. \A i \in 1 .. m + n : i > m => c[i] = t[i - m]
  OBVIOUS
<1> HIDE DEF c, m, n
<1>5. \A i \in 1 .. m + n : i > m => i - m \in 1 .. n
  BY <1>1
<1>6. \A i \in 1 .. n : i + m \in 1 .. m + n /\ i + m > m /\ (i + m) - m = i
  BY <1>1
<1>7. \A i \in 1 .. m : i \in 1 .. m + n /\ ~(i > m)
  BY <1>1
<1>8. \A i \in 1 .. m + n : i > m \/ i \in 1 .. m
  BY <1>1
<1>9. Range(c) = Range(s) \cup Range(t)
  <2>1. Range(c) \subseteq Range(s) \cup Range(t)
    BY <1>2, <1>3, <1>4, <1>5, <1>8 DEF Range
  <2>2. Range(s) \subseteq Range(c)
    BY <1>2, <1>3, <1>7 DEF Range
  <2>3. Range(t) \subseteq Range(c)
    <3>1. \A i \in 1 .. n : c[i + m] = t[i] /\ i + m \in 1 .. m + n
      BY <1>4, <1>6
    <3> QED
      BY <1>2, <3>1 DEF Range
  <2> QED
    BY <2>1, <2>2, <2>3
<1>10. ASSUME IsInjective(s), IsInjective(t), Range(s) \cap Range(t) = {}, NEW i \in 1 .. m + n,
              NEW j \in 1 .. m + n, c[i] = c[j]
       PROVE  i = j
  <2>1. CASE i > m /\ j > m
    <3>1. t[i - m] = t[j - m] /\ i - m \in 1 .. n /\ j - m \in 1 .. n
      BY <1>4, <1>5, <1>10, <2>1
    <3>2. i - m = j - m
      BY <1>2, <1>10, <3>1 DEF IsInjective
    <3> QED
      BY <1>1, <3>2
  <2>2. CASE ~(i > m) /\ ~(j > m)
    BY <1>2, <1>3, <1>8, <1>10, <2>2 DEF IsInjective
  <2>3. CASE i > m /\ ~(j > m)
    BY <1>2, <1>3, <1>4, <1>5, <1>8, <1>10, <2>3 DEF Range
  <2>4. CASE ~(i > m) /\ j > m
    BY <1>2, <1>3, <1>4, <1>5, <1>8, <1>10, <2>4 DEF Range
  <2> QED
    BY <2>1, <2>2, <2>3, <2>4
<1>11. IsInjective(s) /\ IsInjective(t) /\ Range(s) \cap Range(t) = {} => IsInjective(c)
  BY <1>2, <1>10 DEF IsInjective
<1> QED
  BY <1>1, <1>9, <1>11 DEF c

(* Each once: as many as there are.                                        *)
LEMMA OnceEach ==
    ASSUME NEW X, NEW s \in Seq(X), IsInjective(s), Range(s) = X
    PROVE  IsFiniteSet(X) /\ Cardinality(X) = Len(s)
<1>1. DOMAIN s = 1 .. Len(s) /\ Len(s) \in Nat /\ s \in [1 .. Len(s) -> X]
  OBVIOUS
<1>2. s \in Bijection(1 .. Len(s), X)
  BY <1>1 DEF Bijection, Injection, Surjection, IsInjective, Range
<1>3. IsFiniteSet(1 .. Len(s)) /\ Cardinality(1 .. Len(s)) = Len(s)
  BY <1>1, FS_Interval
<1> QED
  BY <1>2, <1>3, FS_Bijection DEF ExistsBijection

-----------------------------------------------------------------------------
(* The books: the order of use lists the spans, each once, and the bytes   *)
(* charged are those of the spans and the groups.                          *)
Lru(c) ==
    /\ c.recency \in Seq(DOMAIN c.spans)
    /\ Range(c.recency) = DOMAIN c.spans
    /\ IsInjective(c.recency)

Charge(c) == SumBytes(c, DOMAIN c.spans) + Cardinality(DOMAIN c.groups) * GROUP_OVERHEAD_BYTES

Ledger(c) ==
    /\ Lru(c)
    /\ IsFiniteSet(DOMAIN c.groups)
    /\ c.used = Charge(c)

LEMMA ByteTypes ==
    /\ SPAN_OVERHEAD_BYTES \in Nat /\ GROUP_OVERHEAD_BYTES \in Nat /\ ROW_BYTES \in Nat
    /\ \A span : span.len \in Nat => SpanBytes(span) \in Nat
    /\ \A n \in Nat : n * GROUP_OVERHEAD_BYTES \in Nat
    /\ \A m, n \in Nat :
         (m + n) * GROUP_OVERHEAD_BYTES = m * GROUP_OVERHEAD_BYTES + n * GROUP_OVERHEAD_BYTES
BY BytesAssumption DEF SpanBytes

LEMMA LruIsFinite ==
    ASSUME NEW c, Lru(c)
    PROVE  IsFiniteSet(DOMAIN c.spans) /\ Cardinality(DOMAIN c.spans) = Len(c.recency)
BY OnceEach DEF Lru

(* The bytes of some spans.                                                *)
LEMMA BytesOf ==
    ASSUME NEW c, NEW K, IsFiniteSet(K), \A k \in K : c.spans[k].len \in Nat
    PROVE  /\ SumBytes(c, K) \in Nat
           /\ K = {} => SumBytes(c, K) = 0
           /\ \A L \in SUBSET K : SumBytes(c, K) = SumBytes(c, L) + SumBytes(c, K \ L)
           /\ \A L \in SUBSET K : SumBytes(c, L) \in Nat
<1> DEFINE f == [k \in K |-> SpanBytes(c.spans[k])]
<1>1. Weighed(f, K)
  BY ByteTypes DEF Weighed
<1>2. \A L \in SUBSET K : Weighed(f, L) /\ SumBytes(c, L) = SumFunctionOnSet(f, L)
  <2> TAKE L \in SUBSET K
  <2> DEFINE g == [k \in L |-> SpanBytes(c.spans[k])]
  <2>1. Weighed(f, L)
    BY <1>1, FewerWeighed
  <2>2. \A k \in L : f[k] = g[k]
    OBVIOUS
  <2>3. SumBytes(c, L) = SumFunctionOnSet(g, L)
    BY DEF SumBytes
  <2> HIDE DEF f, g
  <2>4. SumFunctionOnSet(f, L) = SumFunctionOnSet(g, L)
    BY <2>1, <2>2, SumSame
  <2> QED
    BY <2>1, <2>3, <2>4
<1> HIDE DEF f
<1>3. \A L \in SUBSET K : SumBytes(c, L) \in Nat /\ (L = {} => SumBytes(c, L) = 0)
  BY <1>2, SumType
<1>4. \A L \in SUBSET K : SumFunctionOnSet(f, K) = SumFunctionOnSet(f, L) + SumFunctionOnSet(f, K \ L)
  BY <1>1, SumSplit
<1>5. \A L \in SUBSET K : SumBytes(c, K) = SumBytes(c, L) + SumBytes(c, K \ L)
  <2> TAKE L \in SUBSET K
  <2>1. K \in SUBSET K /\ K \ L \in SUBSET K
    OBVIOUS
  <2> QED
    BY <2>1, <1>2, <1>4
<1> QED
  BY <1>3, <1>5

LEMMA SameBytes ==
    ASSUME NEW c, NEW d, NEW K, IsFiniteSet(K), \A k \in K : c.spans[k].len \in Nat,
           \A k \in K : d.spans[k] = c.spans[k]
    PROVE  SumBytes(d, K) = SumBytes(c, K)
<1> DEFINE f == [k \in K |-> SpanBytes(c.spans[k])]
           g == [k \in K |-> SpanBytes(d.spans[k])]
<1>1. Weighed(f, K) /\ \A k \in K : f[k] = g[k]
  BY ByteTypes DEF Weighed
<1>2. SumBytes(c, K) = SumFunctionOnSet(f, K) /\ SumBytes(d, K) = SumFunctionOnSet(g, K)
  BY DEF SumBytes
<1> HIDE DEF f, g
<1> QED
  BY <1>1, <1>2, SumSame

(* Spans and groups go, and with them what was charged for them.           *)
LEMMA Shrinks ==
    ASSUME NEW c, Shape(c), Ledger(c), NEW keys, NEW gone \in SUBSET (DOMAIN c.groups), NEW d,
           DOMAIN d.spans = DOMAIN c.spans \ keys,
           \A k \in DOMAIN d.spans : d.spans[k] = c.spans[k],
           DOMAIN d.groups = DOMAIN c.groups \ gone,
           d.recency = Forget(c.recency, keys),
           d.used = Monus(c.used, SumBytes(c, keys \cap DOMAIN c.spans)
                                  + Cardinality(gone) * GROUP_OVERHEAD_BYTES)
    PROVE  Ledger(d) /\ d.used <= c.used
<1> DEFINE D == DOMAIN c.spans
           K == keys \cap D
           R == D \ keys
           Q == DOMAIN c.groups
<1>1. Lru(d)
  <2>1. c.recency \in Seq(D) /\ Range(c.recency) = D /\ IsInjective(c.recency)
    BY DEF Ledger, Lru
  <2>2. d.recency \in Seq(D) /\ Range(d.recency) = D \ keys /\ IsInjective(d.recency)
    <3> HIDE DEF D
    <3> QED
      BY <2>1, ForgetKeeps
  <2>3. d.recency \in Seq(D \ keys)
    <3>1. DOMAIN d.recency = 1 .. Len(d.recency) /\ Len(d.recency) \in Nat
      BY <2>2
    <3>2. \A i \in 1 .. Len(d.recency) : d.recency[i] \in D \ keys
      BY <2>2, <3>1 DEF Range
    <3> QED
      BY <2>2, <3>1, <3>2
  <2> QED
    BY <2>2, <2>3 DEF Lru
<1>2. IsFiniteSet(D) /\ \A k \in D : c.spans[k].len \in Nat
  BY LruIsFinite DEF Ledger, Shape
<1>3. IsFiniteSet(Q)
  BY DEF Ledger
<1>4. /\ SumBytes(c, D) = SumBytes(c, K) + SumBytes(c, R)
      /\ SumBytes(c, K) \in Nat /\ SumBytes(c, R) \in Nat
  <2>1. D \ K = R /\ K \in SUBSET D /\ R \in SUBSET D
    OBVIOUS
  <2> HIDE DEF D, K, R
  <2>2. SumBytes(c, D) = SumBytes(c, K) + SumBytes(c, D \ K)
    BY <1>2, <2>1, BytesOf
  <2>3. SumBytes(c, K) \in Nat /\ SumBytes(c, R) \in Nat
    BY <1>2, <2>1, BytesOf
  <2> QED
    BY <2>1, <2>2, <2>3
<1>5. SumBytes(d, R) = SumBytes(c, R)
  <2>1. IsFiniteSet(R) /\ \A k \in R : c.spans[k].len \in Nat /\ d.spans[k] = c.spans[k]
    BY <1>2, FS_Difference
  <2> HIDE DEF R
  <2> QED
    BY <2>1, SameBytes
<1>6. /\ IsFiniteSet(Q \ gone) /\ IsFiniteSet(gone)
      /\ Cardinality(Q) = Cardinality(gone) + Cardinality(Q \ gone)
      /\ Cardinality(gone) \in Nat /\ Cardinality(Q \ gone) \in Nat
  <2>1. Q \cap gone = gone
    OBVIOUS
  <2> HIDE DEF Q
  <2>2. IsFiniteSet(gone) /\ IsFiniteSet(Q \ gone)
    BY <1>3, FS_Subset, FS_Difference DEF Q
  <2>3. Cardinality(Q \ gone) = Cardinality(Q) - Cardinality(gone)
    BY <1>3, <2>1, FS_Difference
  <2>4. Cardinality(Q) \in Nat /\ Cardinality(gone) \in Nat /\ Cardinality(Q \ gone) \in Nat
    BY <1>3, <2>2, FS_CardinalityType
  <2> QED
    BY <2>2, <2>3, <2>4
<1> DEFINE a == Cardinality(gone) * GROUP_OVERHEAD_BYTES
           b == Cardinality(Q \ gone) * GROUP_OVERHEAD_BYTES
<1>7. Cardinality(Q) * GROUP_OVERHEAD_BYTES = a + b /\ a \in Nat /\ b \in Nat
  BY <1>6, ByteTypes
<1>8. c.used = SumBytes(c, K) + SumBytes(c, R) + (a + b)
  BY <1>4, <1>7 DEF Ledger, Charge
<1>9. d.used = Monus(c.used, SumBytes(c, K) + a)
  OBVIOUS
<1>10. d.used = SumBytes(c, R) + b /\ d.used <= c.used
  <2> HIDE DEF a, b, K, R
  <2> QED
    BY <1>4, <1>7, <1>8, <1>9 DEF Monus, Max2
<1> QED
  BY <1>1, <1>5, <1>6, <1>10 DEF Ledger, Charge

LEMMA EmptyLedger == Ledger(EmptyCache) /\ EmptyCache.used = 0
<1>1. /\ EmptyCache.recency = <<>> /\ DOMAIN EmptyCache.spans = {}
      /\ DOMAIN EmptyCache.groups = {} /\ EmptyCache.used = 0
  BY DEF EmptyCache
<1>2. Lru(EmptyCache)
  <2>1. \A s : s = <<>> => s \in Seq({}) /\ Range(s) = {} /\ IsInjective(s)
    BY DEF Range, IsInjective
  <2> QED
    BY <1>1, <2>1 DEF Lru
<1>3. \A S : S = {} => IsFiniteSet(S) /\ Cardinality(S) = 0
  BY FS_EmptySet
<1>4. \A S : S = {} => SumBytes(EmptyCache, S) = 0
  <2> SUFFICES ASSUME NEW S, S = {} PROVE SumBytes(EmptyCache, S) = 0
    OBVIOUS
  <2>1. IsFiniteSet(S) /\ \A k \in S : EmptyCache.spans[k].len \in Nat
    BY <1>3
  <2> QED
    BY <2>1, BytesOf
<1>5. Charge(EmptyCache) = 0
  BY <1>1, <1>3, <1>4, ByteTypes DEF Charge
<1> QED
  BY <1>1, <1>2, <1>3, <1>5 DEF Ledger

LEMMA DetachLedger ==
    ASSUME NEW c, NEW keys, CacheInv(c), Ledger(c)
    PROVE  Ledger(Detach(c, keys)) /\ Detach(c, keys).used <= c.used
<1> DEFINE d == Detach(c, keys)
           hit == {q \in DOMAIN c.groups : \E k \in keys : k.query = q}
           Left(q) == {s \in c.groups[q].starts : Key(q, s) \notin keys}
           gone == {q \in hit : Left(q) = {}}
<1>1. /\ gone \in SUBSET (DOMAIN c.groups)
      /\ DOMAIN d.spans = DOMAIN c.spans \ keys
      /\ \A k \in DOMAIN d.spans : d.spans[k] = c.spans[k]
      /\ DOMAIN d.groups = DOMAIN c.groups \ gone
      /\ d.recency = Forget(c.recency, keys)
      /\ d.used = Monus(c.used, SumBytes(c, keys \cap DOMAIN c.spans)
                                + Cardinality(gone) * GROUP_OVERHEAD_BYTES)
  BY DEF Detach
<1> HIDE DEF d, gone
<1>2. Shape(c)
  BY DEF CacheInv
<1>3. Ledger(d) /\ d.used <= c.used
  BY <1>1, <1>2, Shrinks
<1> QED
  BY <1>3 DEF d

LEMMA EvictLedger ==
    ASSUME NEW c, NEW bytes \in Nat, CacheInv(c), Ledger(c)
    PROVE  Ledger(evict_to_budget(c, bytes)) /\ evict_to_budget(c, bytes).used <= bytes
<1> DEFINE Popped(n) == Detach(c, {c.recency[i] : i \in 1..n})
           enough == {n \in 0 .. Len(c.recency) : Popped(n).used <= bytes}
           least == CHOOSE n \in enough : \A m \in enough : n <= m
<1>1. CASE enough = {}
  <2>1. evict_to_budget(c, bytes) = EmptyCache
    BY <1>1 DEF evict_to_budget
  <2> QED
    BY <2>1, EmptyLedger
<1>2. CASE enough # {}
  <2>1. enough \in SUBSET Nat
    OBVIOUS
  <2>2. \E n \in enough : \A m \in enough : n <= m
    <3> HIDE DEF enough
    <3> QED
      BY <1>2, <2>1, LeastElement
  <2>3. least \in enough
    <3> HIDE DEF enough
    <3> QED
      BY <2>2
  <2>4. evict_to_budget(c, bytes) = Popped(least)
    BY <1>2 DEF evict_to_budget
  <2> HIDE DEF least
  <2>5. Popped(least).used <= bytes
    BY <2>3
  <2>6. Ledger(Popped(least))
    BY DetachLedger
  <2> HIDE DEF Popped
  <2> QED
    BY <2>4, <2>5, <2>6
<1> QED
  BY <1>1, <1>2

LEMMA DropLedger ==
    ASSUME NEW c, NEW qs, CacheInv(c), Ledger(c)
    PROVE  Ledger(drop_groups(c, qs)) /\ drop_groups(c, qs).used <= c.used
<1> DEFINE d == drop_groups(c, qs)
           keys == {k \in DOMAIN c.spans : k.query \in qs}
           gone == qs \cap DOMAIN c.groups
<1>1. /\ DOMAIN d.spans = DOMAIN c.spans \ keys
      /\ \A k \in DOMAIN d.spans : d.spans[k] = c.spans[k]
      /\ DOMAIN d.groups = DOMAIN c.groups \ qs
      /\ d.recency = Forget(c.recency, keys)
      /\ d.used = Monus(c.used, SumBytes(c, keys) + Cardinality(gone) * GROUP_OVERHEAD_BYTES)
  BY DEF drop_groups
<1>2. keys = keys \cap DOMAIN c.spans /\ gone \in SUBSET (DOMAIN c.groups)
  OBVIOUS
<1>3. DOMAIN c.groups \ qs = DOMAIN c.groups \ gone
  OBVIOUS
<1>4. Shape(c)
  BY DEF CacheInv
<1> DEFINE both == keys \cap DOMAIN c.spans
<1>5. SumBytes(c, keys) = SumBytes(c, both)
  <2> HIDE DEF keys
  <2> QED
    BY <1>2
<1> HIDE DEF d, keys, gone
<1>6. Ledger(d) /\ d.used <= c.used
  BY <1>1, <1>2, <1>3, <1>4, <1>5, Shrinks
<1> QED
  BY <1>6 DEF d

LEMMA ClearLedger ==
    ASSUME NEW c, NEW q \in DOMAIN c.groups, CacheInv(c), Ledger(c)
    PROVE  LET d == clear_group_spans(c, q)
           IN  Ledger(d) /\ d.used <= c.used
<1> DEFINE d == clear_group_spans(c, q)
           keys == Keys(c, q)
<1>1. /\ DOMAIN d.spans = DOMAIN c.spans \ keys
      /\ \A k \in DOMAIN d.spans : d.spans[k] = c.spans[k]
      /\ DOMAIN d.groups = DOMAIN c.groups
      /\ d.recency = Forget(c.recency, keys)
      /\ d.used = Monus(c.used, SumBytes(c, keys))
  BY DEF clear_group_spans
<1>2. keys = keys \cap DOMAIN c.spans
  BY DEF Keys
<1>3. Shape(c)
  BY DEF CacheInv
<1> DEFINE both == keys \cap DOMAIN c.spans
<1>4. SumBytes(c, keys) = SumBytes(c, both)
  <2> HIDE DEF keys
  <2> QED
    BY <1>2
<1>5. \A gone : gone = {} => /\ gone \in SUBSET (DOMAIN c.groups)
                             /\ DOMAIN c.groups \ gone = DOMAIN c.groups
                             /\ Cardinality(gone) = 0
  BY FS_EmptySet
<1>6. SumBytes(c, keys) \in Nat
  <2>1. IsFiniteSet(DOMAIN c.spans) /\ \A k \in DOMAIN c.spans : c.spans[k].len \in Nat
    BY <1>3, LruIsFinite DEF Ledger, Shape
  <2>2. keys \in SUBSET (DOMAIN c.spans)
    BY <1>2
  <2> HIDE DEF keys
  <2> QED
    BY <2>1, <2>2, BytesOf
<1> HIDE DEF d, keys
<1>7. \A gone : gone = {} => Ledger(d) /\ d.used <= c.used
  <2> SUFFICES ASSUME NEW gone, gone = {} PROVE Ledger(d) /\ d.used <= c.used
    OBVIOUS
  <2>1. /\ gone \in SUBSET (DOMAIN c.groups) /\ DOMAIN d.groups = DOMAIN c.groups \ gone
        /\ Cardinality(gone) = 0
    BY <1>1, <1>5
  <2>2. SumBytes(c, both) + Cardinality(gone) * GROUP_OVERHEAD_BYTES = SumBytes(c, keys)
    BY <1>4, <1>6, <2>1, ByteTypes
  <2>3. d.used = Monus(c.used, SumBytes(c, both) + Cardinality(gone) * GROUP_OVERHEAD_BYTES)
    BY <1>1, <2>2
  <2> QED
    BY <1>1, <1>3, <2>1, <2>3, Shrinks
<1> QED
  BY <1>7 DEF d

(* New spans replace those of the same keys, and are charged.              *)
LEMMA StoreLedger ==
    ASSUME NEW c, NEW q, NEW new, CacheInv(c), Ledger(c),
           DOMAIN new \subseteq Nat, IsFiniteSet(DOMAIN new),
           \A s \in DOMAIN new : new[s].len \in Nat
    PROVE  Ledger(store_spans(c, q, new))
<1> DEFINE d == store_spans(c, q, new)
           D == DOMAIN c.spans
           keys == {Key(q, s) : s \in DOMAIN new}
           B == keys \cap D
           R == D \ keys
           E == D \cup keys
           order == KeysInOrder(q, DOMAIN new)
           f == [k \in keys |-> SpanBytes(new[k.start])]
<1>0. \A k \in keys : k.start \in DOMAIN new
  BY DEF Key
<1>1. /\ DOMAIN d.groups = DOMAIN c.groups
      /\ DOMAIN d.spans = E
      /\ \A k \in E : d.spans[k] = IF k \in keys THEN new[k.start] ELSE c.spans[k]
      /\ d.recency = Forget(c.recency, keys) \o order
      /\ d.used = Monus(c.used, SumBytes(c, B)) + SumFunctionOnSet(f, keys)
  BY DEF store_spans
<1>2. /\ order \in Seq(keys) /\ Range(order) = keys /\ IsInjective(order)
  BY KeysOnce
<1> HIDE DEF d, order
<1>3. Lru(d)
  <2> DEFINE F == Forget(c.recency, keys)
  <2>1. c.recency \in Seq(D) /\ Range(c.recency) = D /\ IsInjective(c.recency)
    BY DEF Ledger, Lru
  <2> HIDE DEF D, keys
  <2>2. F \in Seq(D) /\ Range(F) = D \ keys /\ IsInjective(F)
    BY <2>1, ForgetKeeps
  <2> HIDE DEF F
  <2>3. F \in Seq(E) /\ order \in Seq(E)
    <3>1. \A X, Y, s : X \subseteq Y /\ s \in Seq(X) => s \in Seq(Y)
      OBVIOUS
    <3>2. D \subseteq E /\ keys \subseteq E
      OBVIOUS
    <3> QED
      BY <1>2, <2>2, <3>1, <3>2
  <2>4. Range(F) \cap Range(order) = {} /\ Range(F) \cup Range(order) = E
    BY <1>2, <2>2
  <2> HIDE DEF E
  <2>7. /\ F \o order \in Seq(E)
        /\ Range(F \o order) = Range(F) \cup Range(order)
        /\ IsInjective(F \o order)
    <3>1. IsInjective(F) /\ IsInjective(order)
      BY <1>2, <2>2
    <3>2. Range(F) \cap Range(order) = {}
      BY <2>4
    <3> QED
      BY <2>3, <3>1, <3>2, ConcatOnce
  <2>5. F \o order \in Seq(E) /\ Range(F \o order) = E /\ IsInjective(F \o order)
    BY <2>4, <2>7
  <2>6. d.recency = F \o order
    BY <1>1 DEF F
  <2> QED
    BY <1>1, <2>5, <2>6 DEF Lru
<1>4. IsFiniteSet(D) /\ \A k \in D : c.spans[k].len \in Nat
  BY LruIsFinite DEF Ledger, CacheInv, Shape
<1>5. IsFiniteSet(E) /\ \A k \in E : d.spans[k].len \in Nat
  <2>1. IsFiniteSet(E)
    BY <1>1, <1>3, LruIsFinite
  <2> QED
    BY <2>1, <1>0, <1>1, <1>4
<1>6. /\ SumBytes(c, D) = SumBytes(c, B) + SumBytes(c, R)
      /\ SumBytes(c, B) \in Nat /\ SumBytes(c, R) \in Nat
  <2>1. D \ B = R /\ B \in SUBSET D /\ R \in SUBSET D
    OBVIOUS
  <2> HIDE DEF D, B, R
  <2>2. SumBytes(c, D) = SumBytes(c, B) + SumBytes(c, D \ B)
    BY <1>4, <2>1, BytesOf
  <2>3. SumBytes(c, B) \in Nat /\ SumBytes(c, R) \in Nat
    BY <1>4, <2>1, BytesOf
  <2> QED
    BY <2>1, <2>2, <2>3
<1>7. SumBytes(d, E) = SumBytes(d, keys) + SumBytes(d, R) /\ SumBytes(d, keys) \in Nat
  <2>1. E \ keys = R /\ keys \in SUBSET E
    OBVIOUS
  <2> HIDE DEF E, keys, R
  <2>2. SumBytes(d, E) = SumBytes(d, keys) + SumBytes(d, E \ keys)
    BY <1>5, <2>1, BytesOf
  <2>3. SumBytes(d, keys) \in Nat
    BY <1>5, <2>1, BytesOf
  <2> QED
    BY <2>1, <2>2, <2>3
<1>8. SumBytes(d, R) = SumBytes(c, R)
  <2>1. IsFiniteSet(R) /\ \A k \in R : c.spans[k].len \in Nat /\ d.spans[k] = c.spans[k]
    BY <1>1, <1>4, FS_Difference
  <2> HIDE DEF R
  <2> QED
    BY <2>1, SameBytes
<1>9. SumFunctionOnSet(f, keys) = SumBytes(d, keys)
  <2> DEFINE g == [k \in keys |-> SpanBytes(d.spans[k])]
  <2>1. Weighed(f, keys) /\ \A k \in keys : f[k] = g[k]
    <3>1. IsFiniteSet(keys)
      <4>1. keys \subseteq E
        OBVIOUS
      <4> HIDE DEF keys, E
      <4> QED
        BY <1>5, <4>1, FS_Subset
    <3>2. \A k \in keys : f[k] = SpanBytes(new[k.start]) /\ new[k.start].len \in Nat
      BY <1>0
    <3>3. \A k \in keys : d.spans[k] = new[k.start]
      BY <1>1
    <3>4. \A k \in keys : g[k] = SpanBytes(new[k.start])
      BY <3>3
    <3> HIDE DEF f, g, keys
    <3> QED
      BY <3>1, <3>2, <3>4, ByteTypes DEF Weighed
  <2>2. SumBytes(d, keys) = SumFunctionOnSet(g, keys)
    BY DEF SumBytes
  <2> HIDE DEF f, g, keys
  <2> QED
    BY <2>1, <2>2, SumSame
<1> DEFINE a == Cardinality(DOMAIN c.groups) * GROUP_OVERHEAD_BYTES
<1>10. a \in Nat
  BY ByteTypes, FS_CardinalityType DEF Ledger
<1>11. c.used = SumBytes(c, B) + SumBytes(c, R) + a
  BY <1>6 DEF Ledger, Charge
<1>12. d.used = SumBytes(d, E) + a
  <2> HIDE DEF a, B, R, E, keys, f
  <2> QED
    BY <1>1, <1>6, <1>7, <1>8, <1>9, <1>10, <1>11 DEF Monus, Max2
<1>13. d.used = Charge(d)
  BY <1>1, <1>12 DEF Charge
<1> QED
  BY <1>1, <1>3, <1>13 DEF Ledger, d

(* A group is created, kept or emptied.                                    *)
LEMMA ReconcileLedger ==
    ASSUME NEW c, NEW q, NEW snapshot, CacheInv(c), Ledger(c)
    PROVE  Ledger(reconcile_epochs(c, q, snapshot))
<1> DEFINE R == reconcile_epochs(c, q, snapshot)
<1>0. DOMAIN c = Fields
  BY DEF CacheInv, Shape
<1>1. CASE q \notin DOMAIN c.groups
  <2> DEFINE Q == DOMAIN c.groups
  <2>1. /\ R.spans = c.spans /\ R.recency = c.recency
        /\ DOMAIN R.groups = Q \cup {q}
        /\ R.used = c.used + GROUP_OVERHEAD_BYTES
    BY <1>0, <1>1 DEF reconcile_epochs, Fields
  <2>2. IsFiniteSet(Q) /\ q \notin Q
    BY <1>1 DEF Ledger
  <2> HIDE DEF R, Q
  <2>3. IsFiniteSet(Q \cup {q}) /\ Cardinality(Q \cup {q}) = Cardinality(Q) + 1 /\ Cardinality(Q) \in Nat
    BY <2>2, FS_AddElement, FS_CardinalityType
  <2>4. Cardinality(Q \cup {q}) * GROUP_OVERHEAD_BYTES
            = Cardinality(Q) * GROUP_OVERHEAD_BYTES + GROUP_OVERHEAD_BYTES
    BY <2>3, ByteTypes
  <2>5. SumBytes(R, DOMAIN R.spans) = SumBytes(c, DOMAIN c.spans)
    BY <2>1 DEF SumBytes
  <2>6. SumBytes(c, DOMAIN c.spans) \in Nat
    <3>1. IsFiniteSet(DOMAIN c.spans) /\ \A k \in DOMAIN c.spans : c.spans[k].len \in Nat
      BY LruIsFinite DEF Ledger, CacheInv, Shape
    <3> QED
      BY <3>1, BytesOf
  <2>7. Cardinality(Q) * GROUP_OVERHEAD_BYTES \in Nat
    BY <2>3, ByteTypes
  <2>8. c.used = SumBytes(c, DOMAIN c.spans) + Cardinality(Q) * GROUP_OVERHEAD_BYTES
    BY DEF Ledger, Charge, Q
  <2>9. R.used = Charge(R)
    <3>1. Charge(R) = SumBytes(c, DOMAIN c.spans) + Cardinality(Q \cup {q}) * GROUP_OVERHEAD_BYTES
      BY <2>1, <2>5 DEF Charge
    <3>2. R.used = SumBytes(c, DOMAIN c.spans) + Cardinality(Q) * GROUP_OVERHEAD_BYTES
                    + GROUP_OVERHEAD_BYTES
      BY <2>1, <2>8
    <3> QED
      BY <3>1, <3>2, <2>4, <2>6, <2>7, ByteTypes
  <2>10. Lru(R)
    BY <2>1 DEF Ledger, Lru
  <2>11. IsFiniteSet(DOMAIN R.groups)
    BY <2>1, <2>3
  <2> QED
    BY <2>9, <2>10, <2>11 DEF Ledger, R
<1>2. CASE q \in DOMAIN c.groups /\ c.groups[q].stamp = snapshot
  BY <1>2 DEF reconcile_epochs
<1>3. CASE q \in DOMAIN c.groups /\ c.groups[q].stamp # snapshot
  <2> DEFINE C == clear_group_spans(c, q)
  <2>1. Ledger(C)
    BY <1>3, ClearLedger
  <2>2. DOMAIN C = Fields
    BY DEF clear_group_spans, Fields
  <2> HIDE DEF C
  <2>3. /\ R.spans = C.spans /\ R.recency = C.recency /\ R.used = C.used
        /\ DOMAIN R.groups = DOMAIN C.groups
    BY <1>3, <2>2 DEF reconcile_epochs, Fields, C
  <2> HIDE DEF R
  <2>4. SumBytes(R, DOMAIN R.spans) = SumBytes(C, DOMAIN C.spans)
    BY <2>3 DEF SumBytes
  <2>5. Ledger(R)
    BY <2>1, <2>3, <2>4 DEF Ledger, Lru, Charge
  <2> QED
    BY <2>5 DEF R
<1> QED
  BY <1>1, <1>2, <1>3

LEMMA WithEndLedger ==
    ASSUME NEW c, NEW q, NEW executed_limit, NEW offset, NEW returned, CacheInv(c), Ledger(c)
    PROVE  Ledger(WithEnd(c, q, executed_limit, offset, returned))
<1> DEFINE E == WithEnd(c, q, executed_limit, offset, returned)
<1>1. /\ E.spans = c.spans /\ E.recency = c.recency /\ E.used = c.used
      /\ DOMAIN E.groups = DOMAIN c.groups
  BY DEF WithEnd, CacheInv, Shape, Fields
<1> HIDE DEF E
<1>2. SumBytes(E, DOMAIN E.spans) = SumBytes(c, DOMAIN c.spans)
  BY <1>1 DEF SumBytes
<1>3. Ledger(E)
  BY <1>1, <1>2 DEF Ledger, Lru, Charge
<1> QED
  BY <1>3 DEF E

LEMMA FilledRowsLedger ==
    ASSUME CacheInv(cache), Ledger(cache),
           NEW q \in Queries, Count(q) \in Nat, NEW snapshot \in Snapshot(q), Behind(q, snapshot),
           NEW offset \in Nat, NEW limit, NEW returned \in Nat, NEW seen,
           Vouched(q, snapshot) =>
                /\ seen = Now(version, q)
                /\ returned = 0 \/ offset + returned <= Count(q)
                /\ limit = None \/ returned < limit => Count(q) <= offset + returned
    PROVE  Ledger(FilledRows(cache, q, snapshot, offset, limit, returned, seen))
<1> DEFINE R == reconcile_epochs(cache, q, snapshot)
           K == WithEnd(R, q, limit, offset, returned)
           pieces == Pieces(K, q, offset, offset + returned)
           new == [s \in DOMAIN pieces |-> [len |-> pieces[s], seen |-> seen]]
           S == store_spans(K, q, new)
           A == Anchored(S, q, offset, seen)
<1>1. /\ CacheInv(R) /\ q \in DOMAIN R.groups /\ R.groups[q].stamp = snapshot
      /\ Ledger(R)
  BY ReconcileInv, ReconcileLedger
<1> HIDE DEF R
<1>2. /\ CacheInv(K) /\ q \in DOMAIN K.groups /\ K.groups[q].stamp = snapshot
      /\ Ledger(K)
  BY <1>1, WithEndInv, WithEndLedger
<1> HIDE DEF K
<1>3. /\ DOMAIN pieces \subseteq offset .. (offset + returned) - 1
      /\ \A s \in DOMAIN pieces : pieces[s] \in Nat /\ s + pieces[s] <= offset + returned
  <2>1. offset + returned \in Nat
    OBVIOUS
  <2> QED
    BY <2>1, PiecesRange
<1> HIDE DEF pieces
<1>4. /\ DOMAIN new \subseteq Nat /\ IsFiniteSet(DOMAIN new)
      /\ \A s \in DOMAIN new : new[s].len \in Nat
      /\ Vouched(q, snapshot) => \A s \in DOMAIN new : SpanTrue(q, s, new[s])
  <2>1. DOMAIN new \subseteq Nat /\ \A s \in DOMAIN new : new[s].len \in Nat
    BY <1>3
  <2>2. ASSUME Vouched(q, snapshot), NEW s \in DOMAIN new PROVE SpanTrue(q, s, new[s])
    <3>1. new[s].seen = Now(version, q) /\ new[s].len = pieces[s]
      BY <2>2
    <3>2. s >= offset /\ s < offset + returned /\ s + pieces[s] <= offset + returned /\ s \in Int
      BY <1>3
    <3>3. offset + returned <= Count(q)
      BY <2>2, <3>2
    <3>4. s + pieces[s] <= Count(q)
      BY <3>2, <3>3, <1>3
    <3> QED
      BY <3>1, <3>4 DEF SpanTrue
  <2>3. IsFiniteSet(offset .. (offset + returned) - 1)
    BY FS_Interval
  <2>4. IsFiniteSet(DOMAIN new)
    <3>1. DOMAIN new \in SUBSET (offset .. (offset + returned) - 1)
      BY <1>3
    <3> HIDE DEF new
    <3> QED
      BY <2>3, <3>1, FS_Subset
  <2> QED
    BY <2>1, <2>2, <2>4
<1> HIDE DEF new
<1>5. /\ CacheInv(S) /\ q \in DOMAIN S.groups /\ S.groups[q].stamp = snapshot
      /\ Ledger(S)
  BY <1>2, <1>4, StoreInv, StoreLedger
<1> HIDE DEF S
<1>6. CacheInv(A) /\ Ledger(A)
  <2> DEFINE anchor == [s \in {offset} |-> [len |-> 0, seen |-> seen]]
  <2>1. /\ DOMAIN anchor \subseteq Nat /\ IsFiniteSet(DOMAIN anchor)
        /\ \A s \in DOMAIN anchor : anchor[s].len \in Nat
        /\ Vouched(q, snapshot) => \A s \in DOMAIN anchor : SpanTrue(q, s, anchor[s])
    BY FS_Singleton DEF SpanTrue
  <2>2. A = S \/ A = store_spans(S, q, anchor)
    BY DEF Anchored
  <2> HIDE DEF anchor, A
  <2>3. CacheInv(store_spans(S, q, anchor)) /\ Ledger(store_spans(S, q, anchor))
    BY <1>5, <2>1, StoreInv, StoreLedger
  <2> QED
    BY <1>5, <2>2, <2>3
<1> HIDE DEF A
<1> QED
  BY <1>6 DEF FilledRows, R, K, pieces, new, S, A

LEMMA FilledCountLedger ==
    ASSUME CacheInv(cache), Ledger(cache),
           NEW q \in Queries, NEW snapshot \in Snapshot(q),
           Behind(q, snapshot), NEW seen, Vouched(q, snapshot) => seen = Now(version, q)
    PROVE  Ledger(FilledCount(cache, q, snapshot, seen))
<1> DEFINE R == reconcile_epochs(cache, q, snapshot)
           new == [s \in {0} |-> [len |-> 0, seen |-> seen]]
           S == store_spans(R, q, new)
<1>1. /\ CacheInv(R) /\ q \in DOMAIN R.groups /\ R.groups[q].stamp = snapshot
      /\ Ledger(R)
  BY ReconcileInv, ReconcileLedger
<1> HIDE DEF R
<1>2. /\ DOMAIN new \subseteq Nat /\ IsFiniteSet(DOMAIN new)
      /\ \A s \in DOMAIN new : new[s].len \in Nat
      /\ Vouched(q, snapshot) => \A s \in DOMAIN new : SpanTrue(q, s, new[s])
  <2>1. \A U : U = {0} => IsFiniteSet(U)
    BY FS_Singleton
  <2>2. DOMAIN new = {0} /\ new[0].len = 0 /\ new[0].seen = seen
    OBVIOUS
  <2> HIDE DEF new
  <2>3. IsFiniteSet(DOMAIN new)
    BY <2>1, <2>2
  <2> QED
    BY <2>2, <2>3 DEF SpanTrue
<1> HIDE DEF new
<1>3. CacheInv(S) /\ Ledger(S)
  BY <1>1, <1>2, StoreInv, StoreLedger
<1> HIDE DEF S
<1> QED
  BY <1>3 DEF FilledCount, R, new, S

-----------------------------------------------------------------------------
Balanced == budget \in Nat /\ Ledger(cache) /\ cache.used <= budget

LEMMA InsertKeepsBooks ==
    ASSUME IInv, Balanced, NEW r \in Requests, Insert(r)
    PROVE  Ledger(cache') /\ cache'.used <= budget
<1>1. PICK q \in Queries : RequestTrue(request[r], q) /\ request[r].query = q
  BY RequestKnown DEF Insert
<1> DEFINE R == request[r]
<1>2. /\ R.snapshot \in Snapshot(q) /\ Behind(q, R.snapshot)
      /\ R.seen \in Seen(q) /\ R.window \in Windows
      /\ R.window.limit = None => R.window.offset = 0
      /\ Vouched(q, R.snapshot) => R.seen = Now(version, q)
  BY <1>1 DEF Insert, RequestTrue, RequestOf, NoRequest, Behind, Snapshot
<1>3. R.window.offset \in Nat
  BY <1>2, WindowsAssumption
<1>4. Count(q) \in Nat
  <2>1. Now(version, q) \in Seen(q)
    BY DepsAssumption DEF Now, Seen, IInv, Counters
  <2> QED
    BY <2>1, RowCountAssumption DEF Count
<1> HIDE DEF R
<1> DEFINE n == Returned(q, R.seen, R.window)
<1>5. /\ n \in Nat
      /\ n = 0 \/ R.window.offset + n <= RowCount(q, R.seen)
      /\ ExecutedLimit(R.window) = None \/ n < ExecutedLimit(R.window)
            => RowCount(q, R.seen) <= R.window.offset + n
  BY <1>2, ReturnedRows
<1>6. Vouched(q, R.snapshot) =>
            /\ R.seen = Now(version, q)
            /\ n = 0 \/ R.window.offset + n <= Count(q)
            /\ ExecutedLimit(R.window) = None \/ n < ExecutedLimit(R.window)
                => Count(q) <= R.window.offset + n
  BY <1>2, <1>5 DEF Count
<1> HIDE DEF n
<1>7. CacheInv(cache) /\ Ledger(cache) /\ budget \in Nat /\ cache.used <= budget
  BY DEF IInv, Balanced
<1> DEFINE I == insert_rows(cache, q, R.snapshot, R.window.offset, ExecutedLimit(R.window), n, R.seen)
           C == insert_count(cache, q, R.snapshot, R.seen)
           F == FilledRows(cache, q, R.snapshot, R.window.offset, ExecutedLimit(R.window), n, R.seen)
           G == FilledCount(cache, q, R.snapshot, R.seen)
<1>8. CacheInv(F) /\ Ledger(F)
  BY <1>2, <1>3, <1>4, <1>5, <1>6, <1>7, FilledRowsInv, FilledRowsLedger
<1>9. CacheInv(G) /\ Ledger(G)
  BY <1>2, <1>7, FilledCountInv, FilledCountLedger
<1>11. (I = cache \/ I = evict_to_budget(F, budget)) /\ (C = cache \/ C = evict_to_budget(G, budget))
  BY InsertIs
<1>10. cache' = I \/ cache' = C
  BY <1>1 DEF Insert, R, n
<1> HIDE DEF I, C, F, G
<1> QED
  BY <1>7, <1>8, <1>9, <1>10, <1>11, EvictLedger

LEMMA BooksAreState ==
    ASSUME Ledger(cache'), budget' \in Nat, cache'.used <= budget'
    PROVE  Balanced'
BY DEF Balanced, Ledger, Lru, Charge, SumBytes, SpanBytes

(* A lookup moves the spans it reads to the end of the order.               *)
LEMMA LookupKeepsBooks ==
    ASSUME IInv, Orderly, Balanced, NEW r \in Requests, Lookup(r)
    PROVE  Balanced'
<1>1. PICK q \in Queries : RequestTrue(request[r], q) /\ request[r].query = q
  BY RequestKnown DEF Lookup
<1> DEFINE w == request[r].window
           walked == IF budget = 0 \/ ~is_current(q) THEN {}
                     ELSE IF q \in Counts THEN {0} \cap Starts(cache, q)
                     ELSE Walked(q, w.offset, w.limit)
           keys == {Key(q, s) : s \in walked}
           F == Forget(cache.recency, keys)
           O == KeysInOrder(q, walked)
           D == DOMAIN cache.spans
<1>0. DOMAIN cache = Fields /\ CacheInv(cache)
  BY DEF IInv, CacheInv, Shape
<1>2. /\ cache'.groups = cache.groups /\ cache'.spans = cache.spans /\ cache'.used = cache.used
      /\ cache'.recency = F \o O
      /\ budget' = budget
  BY <1>0, <1>1 DEF Lookup, Fields
<1>3. walked \subseteq Starts(cache, q)
  BY DEF Walked
<1>4. Starts(cache, q) \subseteq Nat
  BY <1>0 DEF CacheInv, Shape, Group, Starts
<1> HIDE DEF walked
<1>5. keys \subseteq D
  <2>1. \A s \in Starts(cache, q) : Key(q, s) \in D
    BY DEF Orderly, Laid, Starts
  <2> QED
    BY <1>3, <2>1
<1>6. cache.recency \in Seq(D) /\ Range(cache.recency) = D /\ IsInjective(cache.recency)
  BY DEF Balanced, Ledger, Lru
<1>7. IsFiniteSet(walked)
  <2>1. IsFiniteSet(keys)
    <3>1. IsFiniteSet(D)
      BY LruIsFinite DEF Balanced, Ledger
    <3> HIDE DEF keys, D
    <3> QED
      BY <1>5, <3>1, FS_Subset
  <2> DEFINE f == [s \in walked |-> Key(q, s)]
  <2>2. f \in Injection(walked, keys)
    BY DEF Injection, IsInjective, Key
  <2> HIDE DEF f, keys
  <2> QED
    BY <2>1, <2>2, FS_Injection
<1>8. O \in Seq(keys) /\ Range(O) = keys /\ IsInjective(O)
  <2>1. walked \subseteq Nat
    BY <1>3, <1>4
  <2> QED
    BY <1>7, <2>1, KeysOnce
<1> HIDE DEF keys, D, O
<1>9. F \in Seq(D) /\ Range(F) = D \ keys /\ IsInjective(F)
  BY <1>6, ForgetKeeps
<1> HIDE DEF F
<1>10. O \in Seq(D)
  <2>1. \A X, Y, s : X \subseteq Y /\ s \in Seq(X) => s \in Seq(Y)
    OBVIOUS
  <2> QED
    BY <1>5, <1>8, <2>1
<1>11. Range(F) \cap Range(O) = {} /\ Range(F) \cup Range(O) = D
  BY <1>5, <1>8, <1>9
<1>12. /\ F \o O \in Seq(D)
       /\ Range(F \o O) = Range(F) \cup Range(O)
       /\ IsInjective(F \o O)
  <2>1. IsInjective(F) /\ IsInjective(O)
    BY <1>8, <1>9
  <2>2. Range(F) \cap Range(O) = {}
    BY <1>11
  <2> QED
    BY <1>9, <1>10, <2>1, <2>2, ConcatOnce
<1>13. Range(F \o O) = D
  BY <1>11, <1>12
<1>14. Lru(cache')
  BY <1>2, <1>12, <1>13 DEF Lru, D
<1>15. Charge(cache') = Charge(cache)
  BY <1>2 DEF Charge, SumBytes
<1>16. Ledger(cache')
  BY <1>2, <1>14, <1>15 DEF Balanced, Ledger
<1>17. budget' \in Nat /\ cache'.used <= budget'
  BY <1>2 DEF Balanced
<1> QED
  BY <1>16, <1>17, BooksAreState

LEMMA ChargeType ==
    ASSUME NEW c, CacheInv(c), Ledger(c)
    PROVE  c.used \in Nat
<1>1. c.used = Charge(c)
  BY DEF Ledger
<1>2. SumBytes(c, DOMAIN c.spans) \in Nat
  <2>1. IsFiniteSet(DOMAIN c.spans) /\ \A k \in DOMAIN c.spans : c.spans[k].len \in Nat
    BY LruIsFinite DEF Ledger, CacheInv, Shape
  <2> QED
    BY <2>1, BytesOf
<1>3. Cardinality(DOMAIN c.groups) * GROUP_OVERHEAD_BYTES \in Nat
  BY FS_CardinalityType, ByteTypes DEF Ledger
<1> QED
  BY <1>1, <1>2, <1>3 DEF Charge

LEMMA NextBalanced ==
    ASSUME IInv, Orderly, Balanced, [Next]_vars
    PROVE  Balanced'
<1>0. CacheInv(cache) /\ Ledger(cache) /\ budget \in Nat /\ cache.used <= budget /\ cache.used \in Nat
  BY ChargeType DEF IInv, Balanced
<1>1. CASE cache' = cache /\ budget' = budget
  BY <1>0, <1>1, BooksAreState
<1>2. ASSUME NEW r \in Requests, Lookup(r) PROVE Balanced'
  BY <1>2, LookupKeepsBooks
<1>3. ASSUME NEW r \in Requests, Insert(r) PROVE Balanced'
  <2>1. Ledger(cache') /\ cache'.used <= budget /\ budget' = budget
    BY <1>3, InsertKeepsBooks DEF Insert
  <2> QED
    BY <1>0, <2>1, BooksAreState
<1>4. ASSUME NEW bytes \in Budgets, set_budget(bytes) PROVE Balanced'
  <2>0. bytes \in Nat
    BY BytesAssumption
  <2>1. budget' = bytes /\ (cache' = EmptyCache \/ cache' = evict_to_budget(cache, bytes))
    BY <1>4 DEF set_budget
  <2>2. Ledger(cache') /\ cache'.used <= bytes
    BY <1>0, <2>0, <2>1, EmptyLedger, EvictLedger
  <2> QED
    BY <2>0, <2>1, <2>2, BooksAreState
<1>5. ASSUME NEW index_db, NEW user_data_db, clear(index_db, user_data_db) PROVE Balanced'
  <2>1. budget' = budget /\ (cache' = EmptyCache \/ \E qs : cache' = drop_groups(cache, qs))
    BY <1>5 DEF clear
  <2>2. CASE cache' = EmptyCache
    BY <1>0, <2>1, <2>2, EmptyLedger, BooksAreState
  <2>3. ASSUME NEW qs, cache' = drop_groups(cache, qs) PROVE Balanced'
    <3>1. Ledger(cache') /\ cache'.used <= cache.used
      BY <1>0, <2>3, DropLedger
    <3>2. cache'.used \in Nat
      <4>1. CacheInv(drop_groups(cache, qs)) /\ Ledger(drop_groups(cache, qs))
        BY <1>0, DropInv, DropLedger
      <4> QED
        BY <2>3, <4>1, ChargeType
    <3> QED
      BY <1>0, <2>1, <3>1, <3>2, BooksAreState
  <2> QED
    BY <2>1, <2>2, <2>3
<1>6. CASE UNCHANGED vars
  BY <1>1, <1>6 DEF vars
<1>7. CASE Next
  <2>1. CASE \/ \E d \in IndexDbs : IndexCommit(d) \/ IndexBump(d)
             \/ \E d \in UserDbs : OpenUserWrite(d) \/ UserCommit(d) \/ ReleaseUserWrite(d)
    BY <2>1, <1>1 DEF IndexCommit, IndexBump, OpenUserWrite, UserCommit, ReleaseUserWrite
  <2>2. CASE \E r \in Requests :
                \/ \E ask \in Asks[r] : Search(r, ask.query, ask.window)
                \/ TakeUserEpoch(r) \/ Execute(r) \/ Abandon(r)
    BY <2>2, <1>1 DEF Search, TakeUserEpoch, Execute, Abandon
  <2> QED
    BY <2>1, <2>2, <1>2, <1>3, <1>4, <1>5, <1>7 DEF Next
<1> QED
  BY <1>6, <1>7

(* The index, the order of use, the bytes charged and the spans of the     *)
(* cache describe one cache after any sequence of inserts, replacements,   *)
(* trims, evictions, clears and changes of the budget: the LRU lists every *)
(* span once, and the bytes charged are exactly those of what is there, so *)
(* an eviction always ends within the budget (evict_to_budget).            *)
THEOREM CacheStaysConsistent == Spec => []CacheIsConsistent
<1>1. Init => Orderly /\ Balanced
  <2> SUFFICES ASSUME Init PROVE Orderly /\ Balanced
    OBVIOUS
  <2>1. cache = EmptyCache /\ budget \in Nat
    BY BytesAssumption DEF Init
  <2> QED
    BY <2>1, EmptyLaid, EmptyLedger DEF Orderly, Balanced
<1>2. IInv /\ Orderly /\ Balanced /\ [Next]_vars => Orderly' /\ Balanced'
  BY NextOrderly, NextBalanced
<1>3. Spec => [](Orderly /\ Balanced)
  BY <1>1, <1>2, Invariance, PTL DEF Spec
<1>4. Balanced => LruOrdersSpans /\ BytesAccounted
  BY LruIsFinite DEF Balanced, Ledger, Lru, Charge, LruOrdersSpans, BytesAccounted
<1> QED
  BY <1>3, <1>4, SpansStayOrderly, PTL DEF CacheIsConsistent

-----------------------------------------------------------------------------
(* What an insert makes of a cache before it evicts: apart from the rows   *)
(* of the answer, or a span that is alone in its group, its spans were     *)
(* there, and a span of a current group is there if it holds rows.         *)
Filled(c, F, q, rows) ==
    /\ DOMAIN F.groups \subseteq DOMAIN c.groups \cup {q}
    /\ \A k \in DOMAIN F.spans :
        \/ k \in DOMAIN c.spans /\ F.spans[k] = c.spans[k]
        \/ k.query = q /\ (k.start \in rows \/ Keys(F, q) = {k})
    /\ \A k \in DOMAIN c.spans : c.spans[k].len > 0 /\ is_current(k.query) =>
        k \in DOMAIN F.spans /\ F.spans[k] = c.spans[k]

(* A count is a single span without rows.                                  *)
CountsAlone(c) ==
    \A k \in DOMAIN c.spans : k.query \in Counts => k.start = 0 /\ c.spans[k].len = 0

(* An eviction takes nothing from a cache within the budget.               *)
LEMMA EvictIfOver ==
    ASSUME NEW c, NEW bytes \in Nat, CacheInv(c), Ledger(c)
    PROVE  LET E == evict_to_budget(c, bytes)
           IN  /\ DOMAIN E.spans \subseteq DOMAIN c.spans
               /\ \A k \in DOMAIN E.spans : E.spans[k] = c.spans[k]
               /\ DOMAIN E.groups \subseteq DOMAIN c.groups
               /\ c.used > bytes \/ DOMAIN E.spans = DOMAIN c.spans
<1> DEFINE Popped(n) == Detach(c, {c.recency[i] : i \in 1..n})
           enough == {n \in 0 .. Len(c.recency) : Popped(n).used <= bytes}
           least == CHOOSE n \in enough : \A m \in enough : n <= m
           E == evict_to_budget(c, bytes)
<1>1. c.used \in Nat /\ Len(c.recency) \in Nat
  BY ChargeType DEF Ledger, Lru
<1>2. /\ Popped(0).used <= c.used
      /\ Popped(0).used \in Nat
  <2>1. Ledger(Popped(0)) /\ CacheInv(Popped(0)) /\ Popped(0).used <= c.used
    BY DetachLedger, DetachInv
  <2> HIDE DEF Popped
  <2> QED
    BY <2>1, ChargeType
<1>3. c.used > bytes \/ 0 \in enough
  <2>1. 0 \in 0 .. Len(c.recency)
    BY <1>1
  <2> HIDE DEF Popped
  <2> QED
    BY <2>1, <1>1, <1>2
<1>4. \A n : /\ DOMAIN Popped(n).spans = DOMAIN c.spans \ {c.recency[i] : i \in 1..n}
             /\ \A k \in DOMAIN Popped(n).spans : Popped(n).spans[k] = c.spans[k]
             /\ DOMAIN Popped(n).groups \subseteq DOMAIN c.groups
  BY DEF Detach
<1>5. CASE enough = {}
  <2>1. E = EmptyCache
    BY <1>5 DEF evict_to_budget
  <2>2. DOMAIN E.spans = {} /\ DOMAIN E.groups = {}
    BY <2>1 DEF EmptyCache
  <2> HIDE DEF E, enough
  <2> QED
    BY <2>2, <1>3, <1>5 DEF E
<1>6. CASE enough # {}
  <2>1. enough \in SUBSET Nat
    OBVIOUS
  <2>2. \E n \in enough : \A m \in enough : n <= m
    <3> HIDE DEF enough
    <3> QED
      BY <1>6, <2>1, LeastElement
  <2>3. least \in enough /\ \A m \in enough : least <= m
    <3> HIDE DEF enough
    <3> QED
      BY <2>2
  <2>4. E = Popped(least)
    BY <1>6 DEF evict_to_budget
  <2> HIDE DEF E, least, enough
  <2>5. c.used > bytes \/ least = 0
    BY <1>3, <2>1, <2>3
  <2>6. \A n : n = 0 => {c.recency[i] : i \in 1..n} = {}
    OBVIOUS
  <2>7. c.used > bytes \/ DOMAIN E.spans = DOMAIN c.spans
    BY <1>4, <2>4, <2>5, <2>6
  <2> HIDE DEF Popped
  <2> QED
    BY <1>4, <2>4, <2>7 DEF E
<1> QED
  BY <1>5, <1>6

(* What an eviction takes from a filled cache was charged to the cache that *)
(* was filled, so that keeping it there would have cost as much.           *)
LEMMA LostIsCharged ==
    ASSUME NEW c, NEW F, NEW E, CacheInv(c), CacheInv(F), CacheInv(E),
           Ledger(c), Ledger(F), Ledger(E),
           DOMAIN E.spans \subseteq DOMAIN F.spans,
           \A k \in DOMAIN E.spans : E.spans[k] = F.spans[k],
           DOMAIN E.groups \subseteq DOMAIN F.groups,
           DOMAIN F.groups \ DOMAIN E.groups \subseteq DOMAIN c.groups,
           \A k \in DOMAIN F.spans \ DOMAIN E.spans :
                k \in DOMAIN c.spans /\ F.spans[k] = c.spans[k]
    PROVE  LET charged == E.used + SumBytes(c, DOMAIN c.spans \ DOMAIN E.spans)
                          + Cardinality(DOMAIN c.groups \ DOMAIN E.groups) * GROUP_OVERHEAD_BYTES
           IN  charged \in Nat /\ F.used <= charged
<1> DEFINE lost == DOMAIN F.spans \ DOMAIN E.spans
           all == DOMAIN c.spans \ DOMAIN E.spans
           gone == DOMAIN F.groups \ DOMAIN E.groups
           out == DOMAIN c.groups \ DOMAIN E.groups
<1>1. /\ IsFiniteSet(DOMAIN c.spans) /\ IsFiniteSet(DOMAIN F.spans) /\ IsFiniteSet(DOMAIN E.spans)
      /\ IsFiniteSet(DOMAIN c.groups) /\ IsFiniteSet(DOMAIN F.groups) /\ IsFiniteSet(DOMAIN E.groups)
  BY LruIsFinite DEF Ledger
<1>2. /\ \A k \in DOMAIN c.spans : c.spans[k].len \in Nat
      /\ \A k \in DOMAIN F.spans : F.spans[k].len \in Nat
      /\ \A k \in DOMAIN E.spans : E.spans[k].len \in Nat
  BY DEF CacheInv, Shape
<1>3. SumBytes(F, DOMAIN F.spans) = SumBytes(F, DOMAIN E.spans) + SumBytes(F, lost)
  BY <1>1, <1>2, BytesOf
<1>4. SumBytes(F, DOMAIN E.spans) = SumBytes(E, DOMAIN E.spans) /\ SumBytes(E, DOMAIN E.spans) \in Nat
  BY <1>1, <1>2, SameBytes, BytesOf
<1>5. lost \in SUBSET all /\ IsFiniteSet(lost) /\ IsFiniteSet(all)
  <2>1. lost \in SUBSET DOMAIN F.spans /\ all \in SUBSET DOMAIN c.spans /\ lost \in SUBSET all
    OBVIOUS
  <2> HIDE DEF lost, all
  <2> QED
    BY <2>1, <1>1, FS_Subset
<1>6. SumBytes(F, lost) = SumBytes(c, lost)
  <2>1. \A k \in lost : F.spans[k].len \in Nat /\ c.spans[k] = F.spans[k]
    BY <1>2
  <2> HIDE DEF lost
  <2> QED
    BY <2>1, <1>5, SameBytes
<1>7. /\ SumBytes(c, all) \in Nat /\ SumBytes(c, lost) \in Nat
      /\ SumBytes(c, lost) <= SumBytes(c, all)
  <2>1. \A k \in all : c.spans[k].len \in Nat
    BY <1>2
  <2> HIDE DEF lost, all
  <2>2. /\ SumBytes(c, all) \in Nat /\ SumBytes(c, lost) \in Nat
        /\ SumBytes(c, all) = SumBytes(c, lost) + SumBytes(c, all \ lost)
    BY <2>1, <1>5, BytesOf
  <2>3. SumBytes(c, all \ lost) \in Nat
    <3>1. all \ lost \in SUBSET all
      OBVIOUS
    <3> QED
      BY <2>1, <3>1, <1>5, BytesOf
  <2> QED
    BY <2>2, <2>3
<1>8. /\ Cardinality(gone) \in Nat /\ Cardinality(out) \in Nat /\ Cardinality(gone) <= Cardinality(out)
      /\ Cardinality(DOMAIN F.groups) = Cardinality(DOMAIN E.groups) + Cardinality(gone)
      /\ Cardinality(DOMAIN E.groups) \in Nat
  <2>1. gone \in SUBSET DOMAIN F.groups /\ out \in SUBSET DOMAIN c.groups /\ gone \in SUBSET out
    OBVIOUS
  <2>2. DOMAIN F.groups \cap DOMAIN E.groups = DOMAIN E.groups
    OBVIOUS
  <2>3. Cardinality(gone) = Cardinality(DOMAIN F.groups) - Cardinality(DOMAIN F.groups \cap DOMAIN E.groups)
    BY <1>1, FS_Difference
  <2>4. Cardinality(DOMAIN F.groups) \in Nat /\ Cardinality(DOMAIN E.groups) \in Nat
    BY <1>1, FS_CardinalityType
  <2> HIDE DEF gone, out
  <2>5. IsFiniteSet(gone) /\ IsFiniteSet(out) /\ Cardinality(gone) <= Cardinality(out)
    BY <2>1, <1>1, FS_Subset
  <2>6. Cardinality(gone) \in Nat /\ Cardinality(out) \in Nat
    BY <2>5, FS_CardinalityType
  <2> QED
    BY <2>2, <2>3, <2>4, <2>5, <2>6
<1>9. \A m, n \in Nat : m <= n =>
        /\ m * GROUP_OVERHEAD_BYTES \in Nat /\ n * GROUP_OVERHEAD_BYTES \in Nat
        /\ m * GROUP_OVERHEAD_BYTES <= n * GROUP_OVERHEAD_BYTES
  <2> SUFFICES ASSUME NEW m \in Nat, NEW n \in Nat, m <= n
               PROVE  /\ m * GROUP_OVERHEAD_BYTES \in Nat /\ n * GROUP_OVERHEAD_BYTES \in Nat
                      /\ m * GROUP_OVERHEAD_BYTES <= n * GROUP_OVERHEAD_BYTES
    OBVIOUS
  <2>1. PICK d \in Nat : n = m + d
    <3>1. n - m \in Nat /\ n = m + (n - m)
      OBVIOUS
    <3> QED
      BY <3>1
  <2>2. n * GROUP_OVERHEAD_BYTES = m * GROUP_OVERHEAD_BYTES + d * GROUP_OVERHEAD_BYTES
    BY <2>1, ByteTypes
  <2> QED
    BY <2>2, ByteTypes
<1>10. F.used = SumBytes(F, DOMAIN F.spans) + Cardinality(DOMAIN F.groups) * GROUP_OVERHEAD_BYTES
       /\ E.used = SumBytes(E, DOMAIN E.spans) + Cardinality(DOMAIN E.groups) * GROUP_OVERHEAD_BYTES
  BY DEF Ledger, Charge
<1>11. Cardinality(DOMAIN F.groups) * GROUP_OVERHEAD_BYTES
        = Cardinality(DOMAIN E.groups) * GROUP_OVERHEAD_BYTES + Cardinality(gone) * GROUP_OVERHEAD_BYTES
  <2> HIDE DEF gone
  <2> QED
    BY <1>8, ByteTypes
<1>12. /\ Cardinality(gone) * GROUP_OVERHEAD_BYTES \in Nat /\ Cardinality(out) * GROUP_OVERHEAD_BYTES \in Nat
       /\ Cardinality(gone) * GROUP_OVERHEAD_BYTES <= Cardinality(out) * GROUP_OVERHEAD_BYTES
       /\ Cardinality(DOMAIN E.groups) * GROUP_OVERHEAD_BYTES \in Nat
  <2> HIDE DEF gone, out
  <2> QED
    BY <1>8, <1>9
<1> HIDE DEF lost, all, gone, out
<1>13. \A x1, x2, x3, x4, x5, x6, x7 \in Nat :
          /\ ((x1 + x5) + x4) + x7 \in Nat
          /\ x3 <= x4 /\ x6 <= x7 => (x1 + x3) + (x5 + x6) <= ((x1 + x5) + x4) + x7
  OBVIOUS
<1> QED
  BY <1>3, <1>4, <1>6, <1>7, <1>10, <1>11, <1>12 DEF all, out


(* A group whose snapshot is not dropped as older is kept if it is current. *)
LEMMA ReconcileKeeps ==
    ASSUME Counters, CacheInv(cache), NEW q \in Queries, NEW snapshot \in Snapshot(q),
           Behind(q, snapshot), ~Older(cache, q, snapshot)
    PROVE  LET R == reconcile_epochs(cache, q, snapshot)
           IN  /\ DOMAIN R.groups \subseteq DOMAIN cache.groups \cup {q}
               /\ \A k \in DOMAIN R.spans : k \in DOMAIN cache.spans /\ R.spans[k] = cache.spans[k]
               /\ \A k \in DOMAIN cache.spans :
                    is_current(k.query) => k \in DOMAIN R.spans /\ R.spans[k] = cache.spans[k]
<1> DEFINE R == reconcile_epochs(cache, q, snapshot)
           S == clear_group_spans(cache, q)
<1>0. DOMAIN cache = Fields
  BY DEF CacheInv, Shape
<1>1. is_current(q) => cache.groups[q].stamp = snapshot
  <2> SUFFICES ASSUME is_current(q) PROVE Now(epoch, q) = snapshot
    BY DEF is_current
  <2>1. q \in DOMAIN cache.groups /\ cache.groups[q].stamp = Now(epoch, q)
    BY DEF is_current
  <2>2. \A d \in Deps[q] : snapshot[d] >= epoch[d]
    BY <2>1 DEF Older, NotBefore, Now
  <2>3. \A d \in Deps[q] : snapshot[d] \in Nat /\ epoch[d] \in Nat /\ snapshot[d] <= epoch[d]
    BY DepsAssumption DEF Snapshot, Behind, Counters
  <2>4. \A d \in Deps[q] : snapshot[d] = epoch[d]
    BY <2>2, <2>3
  <2> QED
    BY <2>4 DEF Now, Snapshot
<1>2. CASE q \notin DOMAIN cache.groups
  <2>1. DOMAIN R.groups = DOMAIN cache.groups \cup {q} /\ R.spans = cache.spans
    BY <1>0, <1>2 DEF reconcile_epochs, Fields
  <2> HIDE DEF R
  <2> QED
    BY <2>1 DEF R
<1>3. CASE q \in DOMAIN cache.groups /\ cache.groups[q].stamp = snapshot
  <2>1. R = cache
    BY <1>3 DEF reconcile_epochs
  <2> HIDE DEF R
  <2> QED
    BY <2>1 DEF R
<1>4. CASE q \in DOMAIN cache.groups /\ cache.groups[q].stamp # snapshot
  <2>1. R = [S EXCEPT !.groups[q].stamp = snapshot]
    BY <1>4 DEF reconcile_epochs
  <2>2. /\ DOMAIN S.groups = DOMAIN cache.groups
        /\ S.spans = [k \in DOMAIN cache.spans \ Keys(cache, q) |-> cache.spans[k]]
        /\ DOMAIN S = {"groups", "spans", "recency", "used"}
    BY DEF clear_group_spans
  <2> HIDE DEF S
  <2>3. DOMAIN R.groups = DOMAIN cache.groups /\ R.spans = S.spans
    BY <2>1, <2>2
  <2>4. ~is_current(q)
    BY <1>1, <1>4
  <2> HIDE DEF R
  <2> QED
    BY <2>2, <2>3, <2>4 DEF Keys, R
<1> QED
  BY <1>2, <1>3, <1>4

(* New spans go where no span holds a row.                                 *)
LEMMA StoreKeeps ==
    ASSUME NEW c, NEW q, NEW new, \A s \in DOMAIN new : ~HoldsRow(c, q, s),
           CacheInv(c), DOMAIN new \subseteq Nat
    PROVE  LET S == store_spans(c, q, new)
           IN  /\ DOMAIN S.groups = DOMAIN c.groups
               /\ DOMAIN S.spans = DOMAIN c.spans \cup {Key(q, s) : s \in DOMAIN new}
               /\ \A k \in DOMAIN S.spans :
                    \/ k \in DOMAIN c.spans /\ S.spans[k] = c.spans[k]
                    \/ k.query = q /\ k.start \in DOMAIN new /\ S.spans[k] = new[k.start]
               /\ \A k \in DOMAIN c.spans : c.spans[k].len > 0 =>
                    k \in DOMAIN S.spans /\ S.spans[k] = c.spans[k]
<1> DEFINE S == store_spans(c, q, new)
           keys == {Key(q, s) : s \in DOMAIN new}
<1>1. /\ DOMAIN S.groups = DOMAIN c.groups
      /\ S.spans = [k \in DOMAIN c.spans \cup keys |-> IF k \in keys THEN new[k.start] ELSE c.spans[k]]
  BY DEF store_spans
<1>2. \A k \in keys : k.query = q /\ k.start \in DOMAIN new /\ ~HoldsRow(c, q, k.start)
  BY DEF Key
<1>3. ASSUME NEW k \in DOMAIN c.spans, c.spans[k].len > 0 PROVE k \notin keys
  <2> SUFFICES ASSUME k \in keys PROVE FALSE
    OBVIOUS
  <2>1. k \in Keys(c, q) /\ k.start \in Nat /\ c.spans[k].len \in Nat
    BY <1>2 DEF Keys, CacheInv, Shape
  <2>2. k.start \in k.start .. k.start + c.spans[k].len - 1
    BY <1>3, <2>1
  <2> QED
    BY <1>2, <2>1, <2>2 DEF HoldsRow
<1> HIDE DEF S
<1>4. \A k \in DOMAIN S.spans :
        \/ k \in DOMAIN c.spans /\ S.spans[k] = c.spans[k]
        \/ k.query = q /\ k.start \in DOMAIN new /\ S.spans[k] = new[k.start]
  BY <1>1, <1>2
<1>5. \A k \in DOMAIN c.spans : c.spans[k].len > 0 => k \in DOMAIN S.spans /\ S.spans[k] = c.spans[k]
  <2> HIDE DEF keys
  <2> QED
    BY <1>1, <1>3
<1> QED
  BY <1>1, <1>4, <1>5 DEF S

LEMMA FilledRowsKeep ==
    ASSUME Counters, CacheInv(cache), Laid(cache), Owned(cache, {}),
           NEW q \in Queries, Count(q) \in Nat, NEW snapshot \in Snapshot(q), Behind(q, snapshot),
           ~Older(cache, q, snapshot),
           NEW offset \in Nat, NEW limit, NEW returned \in Nat, NEW seen,
           Vouched(q, snapshot) =>
                /\ seen = Now(version, q)
                /\ returned = 0 \/ offset + returned <= Count(q)
                /\ limit = None \/ returned < limit => Count(q) <= offset + returned
    PROVE  Filled(cache, FilledRows(cache, q, snapshot, offset, limit, returned, seen), q,
                  offset .. offset + returned - 1)
<1> DEFINE R == reconcile_epochs(cache, q, snapshot)
           K == WithEnd(R, q, limit, offset, returned)
           pieces == Pieces(K, q, offset, offset + returned)
           new == [s \in DOMAIN pieces |-> [len |-> pieces[s], seen |-> seen]]
           S == store_spans(K, q, new)
           A == Anchored(S, q, offset, seen)
           rows == offset .. offset + returned - 1
<1>1. CacheInv(R) /\ q \in DOMAIN R.groups /\ R.groups[q].stamp = snapshot
  BY ReconcileInv
<1>2. /\ DOMAIN R.groups \subseteq DOMAIN cache.groups \cup {q}
      /\ \A k \in DOMAIN R.spans : k \in DOMAIN cache.spans /\ R.spans[k] = cache.spans[k]
      /\ \A k \in DOMAIN cache.spans :
           is_current(k.query) => k \in DOMAIN R.spans /\ R.spans[k] = cache.spans[k]
  BY ReconcileKeeps
<1> HIDE DEF R
<1>3. CacheInv(K) /\ q \in DOMAIN K.groups /\ K.groups[q].stamp = snapshot
  BY <1>1, WithEndInv
<1>4. K.spans = R.spans /\ DOMAIN K.groups = DOMAIN R.groups
  BY <1>1 DEF WithEnd, CacheInv, Shape, Fields
<1> HIDE DEF K
<1>5. offset + returned \in Nat
  OBVIOUS
<1>6. /\ DOMAIN pieces \subseteq offset .. (offset + returned) - 1
      /\ \A s \in DOMAIN pieces : /\ pieces[s] \in Nat /\ s + pieces[s] <= offset + returned
                                  /\ ~HoldsRow(K, q, s)
  BY <1>5, PiecesRange, PieceIsFree
<1> HIDE DEF pieces
<1>7. /\ DOMAIN new \subseteq Nat /\ DOMAIN new \subseteq rows
      /\ \A s \in DOMAIN new : new[s].len \in Nat /\ ~HoldsRow(K, q, s)
      /\ Vouched(q, snapshot) => \A s \in DOMAIN new : SpanTrue(q, s, new[s])
  <2>1. /\ DOMAIN new \subseteq Nat /\ DOMAIN new \subseteq rows
        /\ \A s \in DOMAIN new : new[s].len \in Nat /\ ~HoldsRow(K, q, s)
    BY <1>6
  <2>2. ASSUME Vouched(q, snapshot), NEW s \in DOMAIN new PROVE SpanTrue(q, s, new[s])
    <3>1. new[s].seen = Now(version, q) /\ new[s].len = pieces[s]
      BY <2>2
    <3>2. s >= offset /\ s < offset + returned /\ s + pieces[s] <= offset + returned /\ s \in Int
      BY <1>6
    <3>3. offset + returned <= Count(q)
      BY <2>2, <3>2
    <3>4. s + pieces[s] <= Count(q)
      BY <3>2, <3>3, <1>6
    <3> QED
      BY <3>1, <3>4 DEF SpanTrue
  <2> QED
    BY <2>1, <2>2
<1> HIDE DEF new, rows
<1>8. CacheInv(S) /\ q \in DOMAIN S.groups /\ S.groups[q].stamp = snapshot
  BY <1>3, <1>7, StoreInv
<1>9. /\ DOMAIN S.groups = DOMAIN K.groups
      /\ \A k \in DOMAIN S.spans :
           \/ k \in DOMAIN K.spans /\ S.spans[k] = K.spans[k]
           \/ k.query = q /\ k.start \in DOMAIN new /\ S.spans[k] = new[k.start]
      /\ \A k \in DOMAIN K.spans : K.spans[k].len > 0 =>
           k \in DOMAIN S.spans /\ S.spans[k] = K.spans[k]
  BY <1>3, <1>7, StoreKeeps
<1> HIDE DEF S
<1>10. Filled(cache, S, q, rows)
  BY <1>2, <1>4, <1>7, <1>9 DEF Filled
<1>11. Filled(cache, A, q, rows)
  <2> DEFINE anchor == [s \in {offset} |-> [len |-> 0, seen |-> seen]]
             T == store_spans(S, q, anchor)
  <2>1. CASE Starts(S, q) # {}
    <3>1. A = S
      BY <2>1 DEF Anchored
    <3> QED
      BY <3>1, <1>10
  <2>2. CASE Starts(S, q) = {}
    <3>1. A = T
      BY <2>2 DEF Anchored
    <3>2. Keys(S, q) = {}
      BY <2>2, <1>8 DEF CacheInv, Shape, Keys, Starts
    <3>3. \A s : ~HoldsRow(S, q, s)
      BY <3>2 DEF HoldsRow
    <3>4. DOMAIN anchor = {offset} /\ DOMAIN anchor \subseteq Nat
      OBVIOUS
    <3> HIDE DEF anchor
    <3>5. /\ DOMAIN T.groups = DOMAIN S.groups
          /\ DOMAIN T.spans = DOMAIN S.spans \cup {Key(q, s) : s \in DOMAIN anchor}
          /\ \A k \in DOMAIN T.spans :
               \/ k \in DOMAIN S.spans /\ T.spans[k] = S.spans[k]
               \/ k.query = q /\ k.start \in DOMAIN anchor /\ T.spans[k] = anchor[k.start]
          /\ \A k \in DOMAIN S.spans : S.spans[k].len > 0 =>
               k \in DOMAIN T.spans /\ T.spans[k] = S.spans[k]
      BY <1>8, <3>3, <3>4, StoreKeeps
    <3> HIDE DEF T
    <3>6. Keys(T, q) = {Key(q, offset)}
      BY <3>2, <3>4, <3>5 DEF Keys, Key
    <3>7. \A k \in DOMAIN T.spans :
            \/ k \in DOMAIN S.spans /\ T.spans[k] = S.spans[k]
            \/ k.query = q /\ Keys(T, q) = {k}
      BY <3>5, <3>6 DEF Keys
    <3>8. \A k \in DOMAIN S.spans : k.query # q
      BY <3>2 DEF Keys
    <3>9. Filled(cache, T, q, rows)
      BY <1>10, <3>5, <3>7, <3>8 DEF Filled
    <3> QED
      BY <3>1, <3>9
  <2> QED
    BY <2>1, <2>2
<1> HIDE DEF A
<1> QED
  BY <1>11 DEF FilledRows, R, K, pieces, new, S, A, rows

LEMMA FilledCountKeeps ==
    ASSUME Counters, CacheInv(cache), CountsAlone(cache),
           NEW q \in Queries, q \in Counts, NEW snapshot \in Snapshot(q),
           Behind(q, snapshot), ~Older(cache, q, snapshot), NEW seen
    PROVE  LET F == FilledCount(cache, q, snapshot, seen)
           IN  Filled(cache, F, q, {}) /\ CountsAlone(F)
<1> DEFINE R == reconcile_epochs(cache, q, snapshot)
           new == [s \in {0} |-> [len |-> 0, seen |-> seen]]
           S == store_spans(R, q, new)
<1>1. CacheInv(R)
  BY ReconcileInv
<1>2. /\ DOMAIN R.groups \subseteq DOMAIN cache.groups \cup {q}
      /\ \A k \in DOMAIN R.spans : k \in DOMAIN cache.spans /\ R.spans[k] = cache.spans[k]
      /\ \A k \in DOMAIN cache.spans :
           is_current(k.query) => k \in DOMAIN R.spans /\ R.spans[k] = cache.spans[k]
  BY ReconcileKeeps
<1> HIDE DEF R
<1>3. CountsAlone(R)
  BY <1>2 DEF CountsAlone
<1>4. DOMAIN new = {0} /\ new[0].len = 0 /\ DOMAIN new \subseteq Nat
  OBVIOUS
<1> HIDE DEF new
<1>5. \A s \in DOMAIN new : ~HoldsRow(R, q, s)
  BY <1>3 DEF HoldsRow, Keys, CountsAlone
<1>6. /\ DOMAIN S.groups = DOMAIN R.groups
      /\ DOMAIN S.spans = DOMAIN R.spans \cup {Key(q, s) : s \in DOMAIN new}
      /\ \A k \in DOMAIN S.spans :
           \/ k \in DOMAIN R.spans /\ S.spans[k] = R.spans[k]
           \/ k.query = q /\ k.start \in DOMAIN new /\ S.spans[k] = new[k.start]
      /\ \A k \in DOMAIN R.spans : R.spans[k].len > 0 =>
           k \in DOMAIN S.spans /\ S.spans[k] = R.spans[k]
  BY <1>1, <1>4, <1>5, StoreKeeps
<1> HIDE DEF S
<1>7. CountsAlone(S)
  BY <1>3, <1>4, <1>6 DEF CountsAlone
<1>8. \A k \in Keys(S, q) : k = Key(q, 0)
  <2>1. DOMAIN R.spans \subseteq [query : Queries, start : Nat]
    BY <1>1 DEF CacheInv, Shape
  <2> QED
    BY <2>1, <1>3, <1>4, <1>6 DEF CountsAlone, Keys, Key
<1>9. \A k \in DOMAIN S.spans :
        \/ k \in DOMAIN cache.spans /\ S.spans[k] = cache.spans[k]
        \/ k.query = q /\ Keys(S, q) = {k}
  BY <1>2, <1>6, <1>8 DEF Keys
<1>10. Filled(cache, S, q, {})
  BY <1>2, <1>6, <1>9 DEF Filled
<1> QED
  BY <1>7, <1>10 DEF FilledCount, R, new, S


(* The rows of the answer a request brings.                                *)
Answer(r) ==
    LET R == request[r]
    IN  IF R.query \in Counts THEN {}
        ELSE R.window.offset .. R.window.offset + Returned(R.query, R.seen, R.window) - 1

(* An insert drops its answer, or fills the cache with it and evicts.      *)
LEMMA InsertFills ==
    ASSUME IInv, Orderly, Balanced, CountsAlone(cache), NEW r \in Requests, Insert(r)
    PROVE  \/ cache' = cache
           \/ \E F : /\ CacheInv(F) /\ Laid(F) /\ Owned(F, {}) /\ Ledger(F) /\ CountsAlone(F)
                     /\ Filled(cache, F, request[r].query, Answer(r))
                     /\ cache' = evict_to_budget(F, budget)
<1>1. PICK q \in Queries : RequestTrue(request[r], q) /\ request[r].query = q
  BY RequestKnown DEF Insert
<1> DEFINE R == request[r]
<1>2. /\ R.snapshot \in Snapshot(q) /\ Behind(q, R.snapshot)
      /\ R.seen \in Seen(q) /\ R.window \in Windows
      /\ R.window.limit = None => R.window.offset = 0
      /\ Vouched(q, R.snapshot) => R.seen = Now(version, q)
  BY <1>1 DEF Insert, RequestTrue, RequestOf, NoRequest, Behind, Snapshot
<1>3. R.window.offset \in Nat
  BY <1>2, WindowsAssumption
<1>4. Count(q) \in Nat
  <2>1. Now(version, q) \in Seen(q)
    BY DepsAssumption DEF Now, Seen, IInv, Counters
  <2> QED
    BY <2>1, RowCountAssumption DEF Count
<1>7. /\ CacheInv(cache) /\ Ledger(cache) /\ budget \in Nat
      /\ Counters /\ Laid(cache) /\ Owned(cache, {})
  BY DEF IInv, Balanced, Orderly
<1>12. Answer(r) = IF q \in Counts THEN {} ELSE R.window.offset .. R.window.offset + Returned(q, R.seen, R.window) - 1
  BY <1>1 DEF Answer
<1>13. cache' = IF q \in Counts THEN insert_count(cache, q, R.snapshot, R.seen)
                ELSE insert_rows(cache, q, R.snapshot, R.window.offset, ExecutedLimit(R.window),
                                 Returned(q, R.seen, R.window), R.seen)
  BY <1>1 DEF Insert
<1> HIDE DEF R
<1> DEFINE n == Returned(q, R.seen, R.window)
<1>5. /\ n \in Nat
      /\ n = 0 \/ R.window.offset + n <= RowCount(q, R.seen)
      /\ ExecutedLimit(R.window) = None \/ n < ExecutedLimit(R.window)
            => RowCount(q, R.seen) <= R.window.offset + n
  BY <1>2, ReturnedRows
<1>6. Vouched(q, R.snapshot) =>
            /\ R.seen = Now(version, q)
            /\ n = 0 \/ R.window.offset + n <= Count(q)
            /\ ExecutedLimit(R.window) = None \/ n < ExecutedLimit(R.window)
                => Count(q) <= R.window.offset + n
  BY <1>2, <1>5 DEF Count
<1>14. /\ q \in Counts => Answer(r) = {}
       /\ q \notin Counts => Answer(r) = R.window.offset .. R.window.offset + n - 1
  BY <1>12
<1> HIDE DEF n
<1> DEFINE I == insert_rows(cache, q, R.snapshot, R.window.offset, ExecutedLimit(R.window), n, R.seen)
           C == insert_count(cache, q, R.snapshot, R.seen)
           F == FilledRows(cache, q, R.snapshot, R.window.offset, ExecutedLimit(R.window), n, R.seen)
           G == FilledCount(cache, q, R.snapshot, R.seen)
<1>8. CacheInv(F) /\ Laid(F) /\ Owned(F, {}) /\ Ledger(F)
  BY <1>2, <1>3, <1>4, <1>5, <1>6, <1>7, FilledRowsLaid, FilledRowsLedger
<1>9. CacheInv(G) /\ Laid(G) /\ Owned(G, {}) /\ Ledger(G)
  BY <1>2, <1>7, FilledCountLaid, FilledCountLedger
<1>11. /\ I = cache \/ (~Older(cache, q, R.snapshot) /\ I = evict_to_budget(F, budget))
       /\ C = cache \/ (~Older(cache, q, R.snapshot) /\ C = evict_to_budget(G, budget))
  BY InsertIs
<1>10. cache' = IF q \in Counts THEN C ELSE I
  BY <1>13 DEF n
<1>15. ASSUME q \in Counts, ~Older(cache, q, R.snapshot)
       PROVE  Filled(cache, G, q, {}) /\ CountsAlone(G)
  BY <1>2, <1>7, <1>15, FilledCountKeeps
<1>16. ASSUME q \notin Counts, ~Older(cache, q, R.snapshot)
       PROVE  Filled(cache, F, q, R.window.offset .. R.window.offset + n - 1) /\ CountsAlone(F)
  <2>1. Filled(cache, F, q, R.window.offset .. R.window.offset + n - 1)
    BY <1>2, <1>3, <1>4, <1>5, <1>6, <1>7, <1>16, FilledRowsKeep
  <2> HIDE DEF F
  <2> QED
    BY <2>1, <1>16 DEF Filled, CountsAlone
<1> HIDE DEF I, C, F, G
<1>17. request[r].query = q
  BY <1>1
<1>18. CASE q \in Counts
  BY <1>9, <1>10, <1>11, <1>14, <1>15, <1>17, <1>18
<1>19. CASE q \notin Counts
  BY <1>8, <1>10, <1>11, <1>14, <1>16, <1>17, <1>19
<1> QED
  BY <1>18, <1>19

LEMMA FewerAlone ==
    ASSUME NEW c, CountsAlone(c), NEW d, DOMAIN d.spans \subseteq DOMAIN c.spans,
           \A k \in DOMAIN d.spans : d.spans[k] = c.spans[k]
    PROVE  CountsAlone(d)
BY DEF CountsAlone

LEMMA NextAlone ==
    ASSUME IInv, Orderly, Balanced, CountsAlone(cache), [Next]_vars
    PROVE  CountsAlone(cache')
<1>0. CacheInv(cache) /\ Ledger(cache) /\ budget \in Nat
  BY DEF IInv, Balanced
<1>e. CountsAlone(EmptyCache)
  BY DEF CountsAlone, EmptyCache
<1>1. CASE cache' = cache
  BY <1>1
<1>2. ASSUME NEW r \in Requests, Lookup(r) PROVE CountsAlone(cache')
  <2>1. cache'.spans = cache.spans
    BY <1>0, <1>2 DEF Lookup, CacheInv, Shape, Fields
  <2> QED
    BY <2>1 DEF CountsAlone
<1>3. ASSUME NEW r \in Requests, Insert(r) PROVE CountsAlone(cache')
  <2>1. ASSUME NEW F, CacheInv(F), Ledger(F), CountsAlone(F), cache' = evict_to_budget(F, budget)
        PROVE  CountsAlone(cache')
    BY <1>0, <2>1, EvictIfOver, FewerAlone
  <2> QED
    BY <1>3, <2>1, InsertFills
<1>4. ASSUME NEW bytes \in Budgets, set_budget(bytes) PROVE CountsAlone(cache')
  <2>0. bytes \in Nat
    BY BytesAssumption
  <2>1. cache' = EmptyCache \/ cache' = evict_to_budget(cache, bytes)
    BY <1>4 DEF set_budget
  <2> QED
    BY <1>0, <1>e, <2>0, <2>1, EvictIfOver, FewerAlone
<1>5. ASSUME NEW index_db, NEW user_data_db, clear(index_db, user_data_db) PROVE CountsAlone(cache')
  <2>1. cache' = EmptyCache \/ \E qs : cache' = drop_groups(cache, qs)
    BY <1>5 DEF clear
  <2>2. ASSUME NEW qs, cache' = drop_groups(cache, qs) PROVE CountsAlone(cache')
    <3>1. /\ DOMAIN cache'.spans \subseteq DOMAIN cache.spans
          /\ \A k \in DOMAIN cache'.spans : cache'.spans[k] = cache.spans[k]
      BY <2>2 DEF drop_groups
    <3> QED
      BY <3>1, FewerAlone
  <2> QED
    BY <1>e, <2>1, <2>2
<1>6. CASE UNCHANGED vars
  BY <1>6 DEF vars
<1>7. CASE Next
  <2>1. CASE \/ \E d \in IndexDbs : IndexCommit(d) \/ IndexBump(d)
             \/ \E d \in UserDbs : OpenUserWrite(d) \/ UserCommit(d) \/ ReleaseUserWrite(d)
    BY <2>1, <1>1 DEF IndexCommit, IndexBump, OpenUserWrite, UserCommit, ReleaseUserWrite
  <2>2. CASE \E r \in Requests :
                \/ \E ask \in Asks[r] : Search(r, ask.query, ask.window)
                \/ TakeUserEpoch(r) \/ Execute(r) \/ Abandon(r)
    BY <2>2, <1>1 DEF Search, TakeUserEpoch, Execute, Abandon
  <2> QED
    BY <2>1, <2>2, <1>2, <1>3, <1>4, <1>5, <1>7 DEF Next
<1> QED
  BY <1>6, <1>7


LEMMA InsertKeeps ==
    ASSUME IInv, Orderly, Balanced, CountsAlone(cache), NEW q \in Queries, NEW r \in Requests,
           is_current(q), Insert(r), ~(Held(cache, q) \subseteq Held(cache', q)), AnswerStored(r)
    PROVE  cache'.used + SumBytes(cache, DOMAIN cache.spans \ DOMAIN cache'.spans)
              + Cardinality(DOMAIN cache.groups \ DOMAIN cache'.groups) * GROUP_OVERHEAD_BYTES
              > budget
<1> DEFINE E == cache'
           p == request[r].query
<1>0. CacheInv(cache) /\ Ledger(cache) /\ budget \in Nat
  BY DEF IInv, Balanced
<1>1. cache' # cache
  OBVIOUS
<1>2. PICK F : /\ CacheInv(F) /\ Laid(F) /\ Owned(F, {}) /\ Ledger(F)
               /\ Filled(cache, F, p, Answer(r))
               /\ E = evict_to_budget(F, budget)
  BY <1>1, InsertFills
<1>3. /\ CacheInv(E) /\ Ledger(E) /\ Laid(E) /\ Owned(E, {})
  BY <1>0, <1>2, EvictInv, EvictLedger, EvictLaid
<1>4. /\ DOMAIN E.spans \subseteq DOMAIN F.spans
      /\ \A k \in DOMAIN E.spans : E.spans[k] = F.spans[k]
      /\ DOMAIN E.groups \subseteq DOMAIN F.groups
      /\ F.used > budget \/ DOMAIN E.spans = DOMAIN F.spans
  BY <1>0, <1>2, EvictIfOver
<1>5. F.used > budget
  <2> SUFFICES ASSUME DOMAIN E.spans = DOMAIN F.spans, NEW i \in Held(cache, q)
               PROVE  i \in Held(E, q)
    BY <1>4
  <2>1. PICK k \in Keys(cache, q) : i \in k.start .. k.start + cache.spans[k].len - 1
    BY DEF Held
  <2>2. k \in DOMAIN cache.spans /\ k.query = q /\ k.start \in Nat /\ cache.spans[k].len \in Nat
    BY <1>0, <2>1 DEF Keys, CacheInv, Shape
  <2>3. cache.spans[k].len > 0
    BY <2>1, <2>2
  <2>4. k \in DOMAIN F.spans /\ F.spans[k] = cache.spans[k]
    BY <1>2, <2>2, <2>3 DEF Filled
  <2>5. k \in Keys(E, q) /\ E.spans[k] = cache.spans[k]
    BY <1>4, <2>2, <2>4 DEF Keys
  <2> QED
    BY <2>1, <2>5 DEF Held
<1>6. /\ p \in DOMAIN E.groups
      /\ \A i \in Answer(r) : i \in Held(E, p)
  BY DEF AnswerStored, Answer
<1> HIDE DEF E, p
<1>7. ASSUME NEW k \in DOMAIN F.spans \ DOMAIN E.spans
      PROVE  k \in DOMAIN cache.spans /\ F.spans[k] = cache.spans[k]
  <2> SUFFICES ASSUME k.query = p, k.start \in Answer(r) \/ Keys(F, p) = {k}
               PROVE  k \in DOMAIN E.spans
    BY <1>2 DEF Filled
  <2>1. CASE Keys(F, p) = {k}
    <3>1. PICK s \in E.groups[p].starts : Key(p, s) \in DOMAIN E.spans
      BY <1>3, <1>6 DEF Owned, Laid
    <3>2. Key(p, s) \in Keys(F, p)
      BY <1>4, <3>1 DEF Keys, Key
    <3> QED
      BY <2>1, <3>1, <3>2
  <2>2. CASE k.start \in Answer(r)
    <3>1. PICK j \in Keys(E, p) : k.start \in j.start .. j.start + E.spans[j].len - 1
      BY <1>6, <2>2 DEF Held
    <3>2. j \in DOMAIN F.spans /\ j.query = k.query /\ E.spans[j] = F.spans[j] /\ j \in DOMAIN E.spans
      BY <1>4, <3>1 DEF Keys
    <3>3. j = k
      BY <1>2, <3>1, <3>2 DEF Laid, Apart
    <3> QED
      BY <3>2, <3>3
  <2> QED
    BY <2>1, <2>2
<1>8. DOMAIN F.groups \ DOMAIN E.groups \subseteq DOMAIN cache.groups
  BY <1>2, <1>6 DEF Filled
<1> DEFINE charged == E.used + SumBytes(cache, DOMAIN cache.spans \ DOMAIN E.spans)
                      + Cardinality(DOMAIN cache.groups \ DOMAIN E.groups) * GROUP_OVERHEAD_BYTES
<1>9. charged \in Nat /\ F.used <= charged
  BY <1>0, <1>2, <1>3, <1>4, <1>7, <1>8, LostIsCharged
<1>10. F.used \in Nat
  BY <1>2, ChargeType
<1> HIDE DEF charged
<1>11. charged > budget
  BY <1>0, <1>5, <1>9, <1>10
<1> QED
  BY <1>11 DEF charged, E

Alone == CountsAlone(cache)

(* A search that inserts its answer late clears nothing a newer one        *)
(* installed, and an insert takes rows of a current result only where they *)
(* and the new answer do not fit the budget together, or the answer itself *)
(* does not stay whole: insert_rows, insert_count and reconcile_epochs     *)
(* with the evict_to_budget that follows them, in every interleaving of    *)
(* searches, commits, clears and changes of the budget.                    *)
THEOREM CurrentRowsStay == Spec => InsertKeepsCurrentRows
<1>1. Init => Orderly /\ Balanced /\ Alone
  <2> SUFFICES ASSUME Init PROVE Orderly /\ Balanced /\ Alone
    OBVIOUS
  <2>1. cache = EmptyCache /\ budget \in Nat
    BY BytesAssumption DEF Init
  <2>2. CountsAlone(EmptyCache)
    BY DEF CountsAlone, EmptyCache
  <2> QED
    BY <2>1, <2>2, EmptyLaid, EmptyLedger DEF Orderly, Balanced, Alone
<1>2. IInv /\ Orderly /\ Balanced /\ Alone /\ [Next]_vars => Orderly' /\ Balanced' /\ Alone'
  <2> SUFFICES ASSUME IInv, Orderly, Balanced, Alone, [Next]_vars
               PROVE  Orderly' /\ Balanced' /\ Alone'
    OBVIOUS
  <2>1. CountsAlone(cache')
    BY NextAlone DEF Alone
  <2>2. Alone'
    BY <2>1 DEF Alone, CountsAlone
  <2> QED
    BY <2>2, NextOrderly, NextBalanced
<1>3. Spec => [](Orderly /\ Balanced /\ Alone)
  BY <1>1, <1>2, Invariance, PTL DEF Spec
<1> DEFINE Spared ==
        \A q \in Queries, r \in Requests :
            is_current(q) /\ Insert(r) /\ ~(Held(cache, q) \subseteq Held(cache', q))
            => \/ cache'.used + SumBytes(cache, DOMAIN cache.spans \ DOMAIN cache'.spans)
                    + Cardinality(DOMAIN cache.groups \ DOMAIN cache'.groups) * GROUP_OVERHEAD_BYTES
                    > budget
               \/ ~AnswerStored(r)
<1>4. IInv /\ Orderly /\ Balanced /\ Alone => Spared
  BY InsertKeeps DEF Alone
<1>5. Spec => [][Spared]_vars
  <2> HIDE DEF Spared
  <2> QED
    BY <1>3, <1>4, Invariance, PTL
<1> QED
  BY <1>5 DEF InsertKeepsCurrentRows

-----------------------------------------------------------------------------
(***************************************************************************)
(* The artifact cache.                                                     *)
(***************************************************************************)
Jobs == {"none", "commit", "resize", "open", "repair", "clear", "lookup"}
PassJobs == {"commit", "resize", "open"}

WorkRecord ==
    [at : Places, key : ArtifactKeys \cup {NoKey}, gen : Nat, limit : Nat, used : Int,
     victims : Seq(ArtifactKeys), skipHot : BOOLEAN, job : Jobs]

(* What a worker is in the middle of fits together.                        *)
Sound(x) ==
    /\ x \in WorkRecord
    /\ x.at \in {"publish", "insert"} => x.gen # 0 /\ x.key \in ArtifactKeys /\ x.job = "commit"
    /\ x.at \in {"evict", "used", "select"} => x.job \in PassJobs
    /\ x.at = "unlink" => x.job \in PassJobs \cup {"clear"}
    /\ x.at = "delete" => x.job \in PassJobs \cup {"clear", "repair"}
    /\ x.at \in {"unlink", "delete"} => x.victims # <<>> /\ IsInjective(x.victims)
    /\ x.at \in {"stat", "drop", "share"} => x.key \in ArtifactKeys /\ x.job = "lookup"

(* The order of use lists the rows, each once.                             *)
Listing ==
    /\ row \in [ArtifactKeys -> Nat]
    /\ recency \in Seq(ArtifactKeys)
    /\ Range(recency) = Rows
    /\ IsInjective(recency)

Shaped ==
    /\ Listing
    /\ file \in [ArtifactKeys -> Nat]
    /\ budget_bytes \in Nat /\ commits \in Nat /\ faults \in Nat
    /\ work \in [Workers -> WorkRecord]
    /\ \A w \in Workers : Sound(work[w])

LEMMA IdleSound == Sound(Idle)
<1>1. <<>> \in Seq(ArtifactKeys)
  OBVIOUS
<1> QED
  BY <1>1 DEF Sound, Idle, WorkRecord, Places, Jobs

(* One worker moves on.                                                    *)
LEMMA Moves ==
    ASSUME Shaped, NEW w \in Workers, NEW x, Sound(x), work' = [work EXCEPT ![w] = x]
    PROVE  /\ work' \in [Workers -> WorkRecord]
           /\ \A v \in Workers : Sound(work'[v])
           /\ work'[w] = x /\ \A v \in Workers \ {w} : work'[v] = work[v]
BY DEF Shaped, Sound

LEMMA NewRow ==
    ASSUME Listing, NEW k \in ArtifactKeys, NEW gen \in Nat \ {0},
           row' = [row EXCEPT ![k] = gen], recency' = Touched(k)
    PROVE  Listing' /\ Rows' = Rows \cup {k}
<1> DEFINE rest == Forget(recency, {k})
<1>1. rest \in Seq(ArtifactKeys) /\ Range(rest) = Rows \ {k} /\ IsInjective(rest)
  BY ForgetKeeps DEF Listing
<1>2. recency' = Append(rest, k)
  BY DEF Touched
<1> HIDE DEF rest
<1>3. k \notin Range(rest)
  BY <1>1
<1>4. recency' \in Seq(ArtifactKeys) /\ Range(recency') = Range(rest) \cup {k} /\ IsInjective(recency')
  BY <1>1, <1>2, <1>3, AppendRange
<1>5. Rows' = Rows \cup {k} /\ row' \in [ArtifactKeys -> Nat]
  BY DEF Rows, Listing
<1> QED
  BY <1>1, <1>4, <1>5 DEF Listing

LEMMA SameRows ==
    ASSUME Listing, NEW k \in Rows, row' = row, recency' = Touched(k)
    PROVE  Listing' /\ Rows' = Rows
<1> DEFINE rest == Forget(recency, {k})
<1>1. rest \in Seq(ArtifactKeys) /\ Range(rest) = Rows \ {k} /\ IsInjective(rest)
  BY ForgetKeeps DEF Listing
<1>2. recency' = Append(rest, k) /\ k \in ArtifactKeys
  BY DEF Touched, Rows
<1> HIDE DEF rest
<1>3. k \notin Range(rest)
  BY <1>1
<1>4. recency' \in Seq(ArtifactKeys) /\ Range(recency') = Range(rest) \cup {k} /\ IsInjective(recency')
  BY <1>1, <1>2, <1>3, AppendRange
<1>5. Rows' = Rows
  BY DEF Rows
<1> QED
  BY <1>1, <1>4, <1>5 DEF Listing

LEMMA RowDeleted ==
    ASSUME Listing, NEW k, DeleteRowOf(k)
    PROVE  Listing' /\ Rows' = Rows \ {k}
<1>1. recency' \in Seq(ArtifactKeys) /\ Range(recency') = Rows \ {k} /\ IsInjective(recency')
  BY ForgetKeeps DEF Listing, DeleteRowOf
<1>2. Rows' = Rows \ {k} /\ row' \in [ArtifactKeys -> Nat]
  BY DEF Rows, Listing, DeleteRowOf
<1> QED
  BY <1>1, <1>2 DEF Listing

LEMMA TailOnce ==
    ASSUME NEW X, NEW s \in Seq(X), s # <<>>, IsInjective(s)
    PROVE  /\ Head(s) \in X /\ Head(s) \in Range(s)
           /\ Tail(s) \in Seq(X) /\ IsInjective(Tail(s))
           /\ Range(Tail(s)) = Range(s) \ {Head(s)}
<1> DEFINE n == Len(s)
           t == Tail(s)
<1>1. n \in Nat \ {0} /\ DOMAIN s = 1 .. n /\ Head(s) = s[1]
  OBVIOUS
<1>2. t \in Seq(X) /\ DOMAIN t = 1 .. n - 1 /\ \A i \in 1 .. n - 1 : t[i] = s[i + 1]
  OBVIOUS
<1> HIDE DEF n, t
<1>3. \A i \in 1 .. n - 1 : i \in Nat /\ i + 1 \in 1 .. n /\ i + 1 # 1
  BY <1>1
<1>4. \A i, j \in 1 .. n : s[i] = s[j] => i = j
  BY <1>1 DEF IsInjective
<1>6. IsInjective(t)
  <2>1. \A i, j \in 1 .. n - 1 : t[i] = t[j] => i + 1 = j + 1
    BY <1>2, <1>3, <1>4
  <2>2. \A i, j \in 1 .. n - 1 : i + 1 = j + 1 => i = j
    BY <1>3
  <2>3. \A i, j \in 1 .. n - 1 : t[i] = t[j] => i = j
    BY <2>1, <2>2
  <2> QED
    BY <1>2, <2>3 DEF IsInjective
<1>7. Range(t) = Range(s) \ {Head(s)}
  <2>1. \A i \in 1 .. n - 1 : t[i] \in Range(s) /\ t[i] # s[1]
    <3>1. 1 \in 1 .. n
      BY <1>1
    <3> QED
      BY <1>1, <1>2, <1>3, <1>4, <3>1 DEF Range
  <2>2. \A i \in 1 .. n : i # 1 => i - 1 \in 1 .. n - 1 /\ (i - 1) + 1 = i
    BY <1>1
  <2>3. \A i \in 1 .. n : i # 1 => s[i] \in Range(t)
    <3> TAKE i \in 1 .. n
    <3> HAVE i # 1
    <3>1. i - 1 \in DOMAIN t /\ t[i - 1] = s[i]
      BY <1>2, <2>2
    <3> QED
      BY <3>1 DEF Range
  <2>4. \A x \in Range(t) : x \in Range(s) /\ x # s[1]
    BY <1>2, <2>1 DEF Range
  <2>5. \A x \in Range(s) : x = s[1] \/ x \in Range(t)
    BY <1>1, <2>3 DEF Range
  <2> QED
    BY <1>1, <2>4, <2>5
<1>5. Head(s) \in X /\ Head(s) \in Range(s)
  BY <1>1 DEF Range
<1> QED
  BY <1>2, <1>5, <1>6, <1>7 DEF t

(* The victims of a batch are rows, each named once.                       *)
LEMMA CandidatesAreRows ==
    ASSUME Listing, NEW w, NEW hot
    PROVE  LET v == Candidates(w, hot)
           IN  /\ v \in Seq(ArtifactKeys) /\ IsInjective(v) /\ Range(v) \subseteq Rows
               /\ v = <<>> => Rows \subseteq {work[w].key} \cup hot
<1> DEFINE e == Forget(recency, {work[w].key} \cup hot)
           m == IF Len(e) < EvictBatch THEN Len(e) ELSE EvictBatch
           v == SubSeq(e, 1, m)
<1>1. e \in Seq(ArtifactKeys) /\ Range(e) = Rows \ ({work[w].key} \cup hot) /\ IsInjective(e)
  BY ForgetKeeps DEF Listing
<1>2. Candidates(w, hot) = v
  BY DEF Candidates
<1> HIDE DEF e
<1>3. Len(e) \in Nat /\ DOMAIN e = 1 .. Len(e) /\ EvictBatch \in Nat \ {0}
  BY <1>1, CacheAssumption
<1>4. m \in 0 .. Len(e) /\ (m = 0 => Len(e) = 0)
  BY <1>3
<1> HIDE DEF m
<1>5. v \in Seq(ArtifactKeys) /\ Len(v) = m /\ DOMAIN v = 1 .. m /\ \A i \in 1 .. m : v[i] = e[i]
  BY <1>1, <1>3, <1>4
<1> HIDE DEF v
<1>6. IsInjective(v) /\ Range(v) \subseteq Range(e)
  <2>1. \A i \in 1 .. m : i \in 1 .. Len(e)
    BY <1>3, <1>4
  <2> QED
    BY <1>1, <1>3, <1>5, <2>1 DEF IsInjective, Range
<1>7. ASSUME v = <<>> PROVE Rows \subseteq {work[w].key} \cup hot
  <2>1. Len(v) = 0
    BY <1>7
  <2>2. DOMAIN e = {}
    BY <1>3, <1>4, <1>5, <2>1
  <2>3. Range(e) = {}
    BY <2>2 DEF Range
  <2> QED
    BY <1>1, <2>3
<1> QED
  BY <1>1, <1>2, <1>5, <1>6, <1>7

(* What SetToSeq lists.                                                    *)
LEMMA Enumerated ==
    ASSUME NEW S \in SUBSET ArtifactKeys, IsFiniteSet(S)
    PROVE  LET s == SetToSeq(S)
           IN  s \in Seq(ArtifactKeys) /\ IsInjective(s) /\ Range(s) = S
<1> DEFINE n == Cardinality(S)
           OK(f) == f \in [1 .. n -> S] /\ IsInjective(f)
<1>1. n \in Nat
  BY FS_CardinalityType
<1>2. PICK f : f \in Bijection(1 .. n, S)
  BY FS_CardinalityType DEF ExistsBijection
<1>3. OK(f)
  BY <1>2 DEF Bijection, Injection, IsInjective
<1> DEFINE s == SetToSeq(S)
<1>4. s = CHOOSE g \in [1 .. n -> S] : IsInjective(g)
  BY DEF SetToSeq
<1>5. OK(s)
  BY <1>3, <1>4
<1> HIDE DEF s
<1>6. s \in Seq(ArtifactKeys)
  BY <1>1, <1>5
<1>7. Range(s) = S
  <2>1. Range(s) \subseteq S
    BY <1>5 DEF Range
  <2>2. s \in Bijection(1 .. n, Range(s))
    BY <1>5 DEF Bijection, Injection, Surjection, IsInjective, Range
  <2>3. IsFiniteSet(1 .. n) /\ Cardinality(1 .. n) = n
    BY <1>1, FS_Interval
  <2>4. Cardinality(Range(s)) = n
    BY <2>2, <2>3, FS_Bijection DEF ExistsBijection
  <2> QED
    BY <2>1, <2>4, FS_Subset
<1> QED
  BY <1>5, <1>6, <1>7 DEF s

LEMMA ListingStays ==
    ASSUME Listing, row' = row, recency' = recency
    PROVE  Listing' /\ Rows' = Rows
BY DEF Listing, Rows

(* The places a worker may go to next.                                     *)
LEMMA NextPlace ==
    ASSUME NEW x, Sound(x)
    PROVE  /\ \A b \in Nat : x.at = "evict" => Sound([x EXCEPT !.at = "used", !.limit = b])
           /\ x.at = "publish" => Sound([x EXCEPT !.at = "insert"])
           /\ x.at = "insert" => Sound([x EXCEPT !.at = "evict"])
           /\ \A total \in Nat : x.at = "used" => Sound([x EXCEPT !.at = "select", !.used = total])
           /\ \A v \in Seq(ArtifactKeys) : x.at = "select" /\ v # <<>> /\ IsInjective(v)
                => Sound([x EXCEPT !.at = "unlink", !.victims = v])
           /\ x.at = "select" => Sound([x EXCEPT !.skipHot = FALSE])
           /\ x.at = "unlink" => Sound([x EXCEPT !.at = "delete"])
           /\ x.at = "stat" => Sound([x EXCEPT !.at = "share"]) /\ Sound([x EXCEPT !.at = "drop"])
<1>1. x \in WorkRecord
  BY DEF Sound
<1>2. \A b \in Nat : x.at = "evict" => Sound([x EXCEPT !.at = "used", !.limit = b])
  BY <1>1 DEF Sound, WorkRecord, Places
<1>3. x.at = "publish" => Sound([x EXCEPT !.at = "insert"])
  BY <1>1 DEF Sound, WorkRecord, Places
<1>4. x.at = "insert" => Sound([x EXCEPT !.at = "evict"])
  BY <1>1 DEF Sound, WorkRecord, Places, PassJobs
<1>5. \A total \in Nat : x.at = "used" => Sound([x EXCEPT !.at = "select", !.used = total])
  <2> TAKE total \in Nat
  <2> HAVE x.at = "used"
  <2>1. total \in Int
    OBVIOUS
  <2> QED
    BY <1>1, <2>1 DEF Sound, WorkRecord, Places
<1>6. \A v \in Seq(ArtifactKeys) : x.at = "select" /\ v # <<>> /\ IsInjective(v)
        => Sound([x EXCEPT !.at = "unlink", !.victims = v])
  <2> TAKE v \in Seq(ArtifactKeys)
  <2> HAVE x.at = "select" /\ v # <<>> /\ IsInjective(v)
  <2> QED
    BY <1>1 DEF Sound, WorkRecord, Places
<1>7. x.at = "select" => Sound([x EXCEPT !.skipHot = FALSE])
  BY <1>1 DEF Sound, WorkRecord, Places
<1>8. x.at = "unlink" => Sound([x EXCEPT !.at = "delete"])
  BY <1>1 DEF Sound, WorkRecord, Places
<1>9. x.at = "stat" => Sound([x EXCEPT !.at = "share"]) /\ Sound([x EXCEPT !.at = "drop"])
  BY <1>1 DEF Sound, WorkRecord, Places
<1> QED
  BY <1>2, <1>3, <1>4, <1>5, <1>6, <1>7, <1>8, <1>9

(* A worker that has deleted the row of its first victim.                  *)
LEMMA NextVictim ==
    ASSUME NEW x, Sound(x), x.at = "delete", NEW used \in Int
    PROVE  LET next == [x EXCEPT !.victims = Tail(x.victims)]
               rest == Tail(x.victims)
           IN  /\ x.job = "clear" /\ rest # <<>> => Sound([next EXCEPT !.at = "unlink"])
               /\ x.job = "repair" /\ rest # <<>> => Sound(next)
               /\ Sound([next EXCEPT !.at = "evict", !.job = "open"])
               /\ x.job \in PassJobs =>
                    Sound([next EXCEPT !.used = used, !.at = IF rest = <<>> THEN "select" ELSE "unlink"])
<1>1. x.victims \in Seq(ArtifactKeys) /\ x.victims # <<>> /\ IsInjective(x.victims) /\ x \in WorkRecord
  BY DEF Sound, WorkRecord
<1> DEFINE rest == Tail(x.victims)
<1>2. rest \in Seq(ArtifactKeys) /\ IsInjective(rest)
  BY <1>1, TailOnce
<1> HIDE DEF rest
<1> DEFINE next == [x EXCEPT !.victims = rest]
<1>3. next \in WorkRecord /\ next.at = "delete" /\ next.job = x.job /\ next.victims = rest /\ next.key = x.key
      /\ next.gen = x.gen
  BY <1>1, <1>2 DEF WorkRecord
<1>4. x.job \in PassJobs \cup {"clear", "repair"}
  BY DEF Sound
<1> HIDE DEF next
<1>5. x.job = "clear" /\ rest # <<>> => Sound([next EXCEPT !.at = "unlink"])
  BY <1>2, <1>3 DEF Sound, WorkRecord, Places
<1>6. x.job = "repair" /\ rest # <<>> => Sound(next)
  BY <1>2, <1>3 DEF Sound
<1>7. Sound([next EXCEPT !.at = "evict", !.job = "open"])
  BY <1>2, <1>3 DEF Sound, WorkRecord, Places, Jobs, PassJobs
<1>8. x.job \in PassJobs =>
        Sound([next EXCEPT !.used = used, !.at = IF rest = <<>> THEN "select" ELSE "unlink"])
  <2>1. CASE rest = <<>>
    BY <1>2, <1>3, <2>1 DEF Sound, WorkRecord, Places
  <2>2. CASE rest # <<>>
    BY <1>2, <1>3, <2>2 DEF Sound, WorkRecord, Places
  <2> QED
    BY <2>1, <2>2
<1> QED
  BY <1>5, <1>6, <1>7, <1>8 DEF next, rest

LEMMA RowsWeighed ==
    ASSUME Listing
    PROVE  /\ Weighed(Size, Rows) /\ Total \in Nat
           /\ Cardinality(Rows) \in Nat
<1>1. IsFiniteSet(Rows)
  <2>1. recency \in Seq(Rows)
    BY DEF Listing, Range
  <2> QED
    BY <2>1, OnceEach DEF Listing
<1>2. \A k \in Rows : Size[k] \in Nat
  BY CacheAssumption DEF Rows
<1> QED
  BY <1>1, <1>2, SumType, FS_CardinalityType DEF Weighed, Total

LEMMA ShapedInit == ArtifactInit => Shaped
<1> SUFFICES ASSUME ArtifactInit PROVE Shaped
  OBVIOUS
<1>1. Rows = {} /\ row \in [ArtifactKeys -> Nat] /\ file \in [ArtifactKeys -> Nat]
  BY DEF Rows, ArtifactInit
<1>2. \A s : s = <<>> => s \in Seq(ArtifactKeys) /\ Range(s) = {} /\ IsInjective(s)
  BY DEF Range, IsInjective
<1>3. Listing
  BY <1>1, <1>2 DEF Listing, ArtifactInit
<1>4. work = [w \in Workers |-> Idle] /\ Idle \in WorkRecord
  BY IdleSound DEF ArtifactInit, Sound
<1>5. budget_bytes \in Nat /\ commits \in Nat /\ faults \in Nat
  BY CacheAssumption DEF ArtifactInit
<1> HIDE DEF ArtifactInit
<1> QED
  BY <1>1, <1>3, <1>4, <1>5, IdleSound DEF Shaped

LEMMA ShapedStep ==
    ASSUME Shaped, NEW w \in Workers, Step(w)
    PROVE  Shaped'
<1> DEFINE x == work[w]
<1>0. Sound(x) /\ x \in WorkRecord
  BY DEF Shaped, Sound
<1>00. budget_bytes \in Nat /\ commits \in Nat /\ faults \in Nat /\ Listing /\ file \in [ArtifactKeys -> Nat]
  BY DEF Shaped
<1> HIDE DEF x
(* It is enough to look at where the worker goes, the rows and the files.  *)
<1>1. ASSUME NEW y, Sound(y), work' = [work EXCEPT ![w] = y], Listing', file' \in [ArtifactKeys -> Nat],
             UNCHANGED <<budget_bytes, counters>>
      PROVE  Shaped'
  BY <1>1, <1>00, Moves DEF Shaped, counters
<1>2. CASE Publish(w)
  <2>1. Sound([x EXCEPT !.at = "insert"])
    BY <1>0, <1>2, NextPlace DEF Publish, x
  <2>2. Listing'
    BY <1>2, <1>00, ListingStays DEF Publish, index
  <2>3. file' \in [ArtifactKeys -> Nat]
    <3>1. x.gen \in Nat
      BY <1>0 DEF WorkRecord
    <3> QED
      BY <1>2, <1>00, <3>1 DEF Publish, x
  <2> QED
    <3>1. /\ work' = [work EXCEPT ![w] = [x EXCEPT !.at = "insert"]]
          /\ budget_bytes' = budget_bytes /\ commits' = commits /\ faults' = faults
      BY <1>2 DEF Publish, Goes, x
    <3> QED
      BY <1>00, <2>1, <2>2, <2>3, <3>1, Moves DEF Shaped
<1>3. CASE InsertRow(w)
  <2>1. Sound([x EXCEPT !.at = "evict"])
    BY <1>0, <1>3, NextPlace DEF InsertRow, x
  <2>2. x.gen \in Nat \ {0} /\ x.key \in ArtifactKeys
    BY <1>0, <1>3 DEF InsertRow, x, Sound, WorkRecord
  <2>3. Listing'
    BY <1>3, <1>00, <2>2, NewRow DEF InsertRow, x
  <2> QED
    BY <1>1, <1>3, <1>00, <2>1, <2>3 DEF InsertRow, Goes, x, disk
<1>4. CASE BeginPass(w)
  <2>1. Sound([x EXCEPT !.at = "used", !.limit = budget_bytes])
    BY <1>0, <1>00, <1>4, NextPlace DEF BeginPass, x
  <2>2. Listing'
    BY <1>4, <1>00, ListingStays DEF BeginPass, index
  <2> QED
    BY <1>1, <1>4, <1>00, <2>1, <2>2 DEF BeginPass, Goes, x, disk
<1>5. CASE ReadUsed(w)
  <2>1. Listing' /\ file' \in [ArtifactKeys -> Nat] /\ UNCHANGED <<budget_bytes, counters>>
    BY <1>5, <1>00, ListingStays DEF ReadUsed, index, disk
  <2>2. Sound([x EXCEPT !.at = "select", !.used = Total])
    BY <1>0, <1>00, <1>5, NextPlace, RowsWeighed DEF ReadUsed, x
  <2> QED
    BY <1>1, <1>5, <2>1, <2>2, IdleSound DEF ReadUsed, Goes, Ends, x
<1>6. CASE Select(w)
  <2>1. Listing' /\ file' \in [ArtifactKeys -> Nat] /\ UNCHANGED <<budget_bytes, counters>>
    BY <1>6, <1>00, ListingStays DEF Select, index, disk
  <2>2. PICK hot :
          LET victims == Candidates(w, hot)
          IN CASE victims # <<>> ->
                    Goes(w, [work[w] EXCEPT !.at = "unlink", !.victims = victims])
               [] victims = <<>> /\ work[w].skipHot ->
                    Goes(w, [work[w] EXCEPT !.skipHot = FALSE])
               [] OTHER -> Ends(w)
    BY <1>6 DEF Select
  <2> DEFINE v == Candidates(w, hot)
  <2>3. v \in Seq(ArtifactKeys) /\ IsInjective(v)
    BY <1>00, CandidatesAreRows
  <2>4. x.at = "select"
    BY <1>6 DEF Select, x
  <2>5. /\ v # <<>> => Sound([x EXCEPT !.at = "unlink", !.victims = v])
        /\ Sound([x EXCEPT !.skipHot = FALSE])
    BY <1>0, <2>3, <2>4, NextPlace
  <2>6. \/ v # <<>> /\ work' = [work EXCEPT ![w] = [x EXCEPT !.at = "unlink", !.victims = v]]
        \/ work' = [work EXCEPT ![w] = [x EXCEPT !.skipHot = FALSE]]
        \/ work' = [work EXCEPT ![w] = Idle]
    BY <2>2 DEF Goes, Ends, x
  <2> HIDE DEF v
  <2> QED
    BY <1>1, <2>1, <2>5, <2>6, IdleSound
<1>7. CASE Unlink(w)
  <2>1. Sound([x EXCEPT !.at = "delete"])
    BY <1>0, <1>7, NextPlace DEF Unlink, x
  <2>2. Listing'
    BY <1>7, <1>00, ListingStays DEF Unlink, index
  <2>3. file' \in [ArtifactKeys -> Nat]
    BY <1>7, <1>00 DEF Unlink
  <2> QED
    BY <1>1, <1>7, <2>1, <2>2, <2>3 DEF Unlink, Goes, x
<1>8. CASE DeleteRow(w)
  <2> DEFINE k == Head(x.victims)
             rest == Tail(x.victims)
             left == x.used - Size[k]
             next == [x EXCEPT !.victims = rest]
  <2>1. DeleteRowOf(k) /\ x.at = "delete" /\ UNCHANGED <<file, budget_bytes, counters>>
    BY <1>8 DEF DeleteRow, x
  <2>2. Listing' /\ file' \in [ArtifactKeys -> Nat]
    BY <1>00, <2>1, RowDeleted
  <2>3. left \in Int
    <3>1. x.victims \in Seq(ArtifactKeys) /\ x.victims # <<>> /\ x.used \in Int
      BY <1>0, <2>1 DEF Sound, WorkRecord
    <3>2. k \in ArtifactKeys
      BY <3>1
    <3> QED
      BY <3>1, <3>2, CacheAssumption
  <2>4. \/ x.job = "clear" /\ rest # <<>> /\ work' = [work EXCEPT ![w] = [next EXCEPT !.at = "unlink"]]
        \/ x.job = "repair" /\ rest # <<>> /\ work' = [work EXCEPT ![w] = next]
        \/ work' = [work EXCEPT ![w] = [next EXCEPT !.at = "evict", !.job = "open"]]
        \/ x.job \in PassJobs /\ work' = [work EXCEPT ![w] =
                [next EXCEPT !.used = left, !.at = IF rest = <<>> THEN "select" ELSE "unlink"]]
        \/ work' = [work EXCEPT ![w] = Idle]
    <3>1. x.job \in PassJobs \cup {"clear", "repair"}
      BY <1>0, <2>1 DEF Sound
    <3> QED
      BY <1>8, <3>1 DEF DeleteRow, Goes, Ends, x
  <2>5. /\ x.job = "clear" /\ rest # <<>> => Sound([next EXCEPT !.at = "unlink"])
        /\ x.job = "repair" /\ rest # <<>> => Sound(next)
        /\ Sound([next EXCEPT !.at = "evict", !.job = "open"])
        /\ x.job \in PassJobs =>
             Sound([next EXCEPT !.used = left, !.at = IF rest = <<>> THEN "select" ELSE "unlink"])
    BY <1>0, <1>00, <2>1, <2>3, NextVictim
  <2> HIDE DEF k, rest, left, next
  <2> QED
    BY <1>1, <2>1, <2>2, <2>4, <2>5, IdleSound
<1>9. CASE Hit(w)
  <2>1. Sound([x EXCEPT !.at = "share"])
    BY <1>0, <1>9, NextPlace DEF Hit, x
  <2>2. Listing'
    <3>1. CASE row[x.key] # 0
      <4>1. x.key \in Rows
        BY <1>0, <1>9, <3>1 DEF Hit, Sound, Rows, x
      <4> QED
        BY <1>9, <1>00, <3>1, <4>1, SameRows DEF Hit, x
    <3>2. CASE row[x.key] = 0
      BY <1>9, <1>00, <3>2, ListingStays DEF Hit, x
    <3> QED
      BY <3>1, <3>2
  <2> QED
    BY <1>1, <1>9, <1>00, <2>1, <2>2 DEF Hit, Goes, x, disk
<1>10. CASE Miss(w)
  <2>1. Sound([x EXCEPT !.at = "drop"])
    BY <1>0, <1>10, NextPlace DEF Miss, x
  <2>2. Listing'
    BY <1>10, <1>00, ListingStays DEF Miss, index
  <2> QED
    BY <1>1, <1>10, <1>00, <2>1, <2>2 DEF Miss, Goes, x, disk
<1>11. CASE DropRow(w)
  <2>1. Listing'
    BY <1>11, <1>00, RowDeleted DEF DropRow
  <2> QED
    BY <1>1, <1>11, <1>00, <2>1, IdleSound DEF DropRow, Goes
<1>12. CASE Share(w)
  <2>1. Listing'
    BY <1>12, <1>00, ListingStays DEF Share, index
  <2> QED
    BY <1>1, <1>12, <1>00, <2>1, IdleSound DEF Share, Goes
<1> QED
  BY <1>2, <1>3, <1>4, <1>5, <1>6, <1>7, <1>8, <1>9, <1>10, <1>11, <1>12 DEF Step

LEMMA ShapedNext == Shaped /\ [ArtifactNext]_artifactVars => Shaped'
<1> SUFFICES ASSUME Shaped, [ArtifactNext]_artifactVars PROVE Shaped'
  OBVIOUS
<1>00. /\ budget_bytes \in Nat /\ commits \in Nat /\ faults \in Nat /\ Listing
       /\ file \in [ArtifactKeys -> Nat] /\ row \in [ArtifactKeys -> Nat]
  BY DEF Shaped, Listing
<1>1. ASSUME NEW w \in Workers, NEW y, Sound(y), work' = [work EXCEPT ![w] = y], Listing',
             file' \in [ArtifactKeys -> Nat], budget_bytes' \in Nat, commits' \in Nat, faults' \in Nat
      PROVE  Shaped'
  BY <1>1, Moves DEF Shaped
<1>2. ASSUME NEW w \in Workers, StatementFails(w) PROVE Shaped'
  <2>1. Listing'
    BY <1>2, <1>00, ListingStays DEF StatementFails, index
  <2>2. /\ work' = [work EXCEPT ![w] = Idle] /\ faults' = faults + 1 /\ file' = file
        /\ budget_bytes' = budget_bytes /\ commits' = commits
    BY <1>2 DEF StatementFails, Goes, disk
  <2>3. file' \in [ArtifactKeys -> Nat] /\ budget_bytes' \in Nat /\ commits' \in Nat /\ faults' \in Nat
    BY <1>00, <2>2
  <2> QED
    BY <1>1, <2>1, <2>2, <2>3, IdleSound
<1>3. ASSUME NEW w \in Workers, Clear(w) PROVE Shaped'
  <2>1. Listing' /\ recency \in Seq(ArtifactKeys) /\ IsInjective(recency)
    BY <1>3, <1>00, ListingStays DEF Clear, index, Listing
  <2>2. Sound([Idle EXCEPT !.at = "unlink", !.victims = recency, !.job = "clear"])
    BY <1>3, <2>1, IdleSound DEF Clear, Sound, WorkRecord, Places, Jobs, Idle
  <2>3. /\ work' = [work EXCEPT ![w] = [Idle EXCEPT !.at = "unlink", !.victims = recency, !.job = "clear"]]
        /\ faults' = faults /\ file' = file /\ budget_bytes' = budget_bytes /\ commits' = commits
    BY <1>3 DEF Clear, Goes, disk
  <2> QED
    BY <1>1, <1>00, <2>1, <2>2, <2>3
<1>4. ASSUME NEW w \in Workers, Open(w) PROVE Shaped'
  <2> DEFINE live == {k \in Rows : file[k] # 0}
             orphans == SetToSeq(Rows \ live)
             repair == [Idle EXCEPT !.at = "delete", !.victims = orphans, !.job = "repair"]
             pass == [Idle EXCEPT !.at = "evict", !.job = "open"]
  <2>1. Listing'
    BY <1>4, <1>00, ListingStays DEF Open, index
  <2>2. orphans \in Seq(ArtifactKeys) /\ IsInjective(orphans)
    <3>1. Rows \ live \in SUBSET ArtifactKeys /\ Rows \ live \subseteq Rows
      BY DEF Rows
    <3>2. IsFiniteSet(Rows)
      BY <1>00, RowsWeighed DEF Weighed
    <3>3. IsFiniteSet(Rows \ live)
      BY <3>1, <3>2, FS_Subset
    <3> HIDE DEF live
    <3> QED
      BY <3>1, <3>3, Enumerated
  <2>3. file' = [k \in ArtifactKeys |-> IF k \in live \/ <<"file", k>> \in young THEN file[k] ELSE 0]
    BY <1>4 DEF Open
  <2>4. file' \in [ArtifactKeys -> Nat]
    BY <1>00, <2>3
  <2>5. work' = [work EXCEPT ![w] = IF orphans = <<>> THEN pass ELSE repair]
    BY <1>4 DEF Open, Goes
  <2> HIDE DEF orphans, live
  <2>6. orphans # <<>> => Sound(repair)
    BY <2>2, IdleSound DEF Sound, WorkRecord, Places, Jobs, Idle
  <2>7. Sound(pass)
    BY IdleSound DEF Sound, WorkRecord, Places, Jobs, PassJobs, Idle
  <2>8. budget_bytes' \in Nat /\ commits' \in Nat /\ faults' \in Nat
    BY <1>4, <1>00 DEF Open, counters
  <2> HIDE DEF repair, pass
  <2>9. CASE orphans = <<>>
    BY <1>1, <2>1, <2>4, <2>5, <2>7, <2>8, <2>9
  <2>10. CASE orphans # <<>>
    BY <1>1, <2>1, <2>4, <2>5, <2>6, <2>8, <2>10
  <2> QED
    BY <2>9, <2>10
<1>5. ASSUME NEW w \in Workers, NEW k \in ArtifactKeys, BeginCommit(w, k) PROVE Shaped'
  <2>1. Listing' /\ commits + 1 \in Nat \ {0}
    BY <1>5, <1>00, ListingStays DEF BeginCommit, index
  <2>2. Sound([Idle EXCEPT !.at = "publish", !.key = k, !.gen = commits + 1, !.job = "commit"])
    BY <2>1, IdleSound DEF Sound, WorkRecord, Places, Jobs, Idle
  <2> QED
    BY <1>1, <1>5, <1>00, <2>1, <2>2 DEF BeginCommit, Goes, disk
<1>6. ASSUME NEW w \in Workers, NEW k \in ArtifactKeys, lookup(w, k) PROVE Shaped'
  <2>1. Listing'
    BY <1>6, <1>00, ListingStays DEF lookup, index
  <2>2. Sound([Idle EXCEPT !.at = "stat", !.key = k, !.job = "lookup"])
    BY IdleSound DEF Sound, WorkRecord, Places, Jobs, Idle
  <2> QED
    BY <1>1, <1>6, <1>00, <2>1, <2>2 DEF lookup, Goes, disk, counters
<1>7. ASSUME NEW w \in Workers, NEW b \in ByteBudgets, Resize(w, b) PROVE Shaped'
  <2>1. Listing' /\ b \in Nat
    BY <1>7, <1>00, ListingStays, CacheAssumption DEF Resize, index
  <2>2. Sound([Idle EXCEPT !.at = "evict", !.job = "resize"])
    BY IdleSound DEF Sound, WorkRecord, Places, Jobs, PassJobs, Idle
  <2> QED
    BY <1>1, <1>7, <1>00, <2>1, <2>2 DEF Resize, Goes, disk, counters
<1>8. CASE Crash
  <2>1. Listing'
    BY <1>8, <1>00, ListingStays DEF Crash, index
  <2>2. work' = [w \in Workers |-> Idle] /\ Idle \in WorkRecord
    BY <1>8, IdleSound DEF Crash, Sound
  <2>3. work' \in [Workers -> WorkRecord] /\ \A w \in Workers : Sound(work'[w])
    BY <2>2, IdleSound
  <2>4. file' = file /\ budget_bytes' \in Nat /\ commits' = commits /\ faults' = faults
    BY <1>8, CacheAssumption DEF Crash
  <2> QED
    BY <1>00, <2>1, <2>3, <2>4 DEF Shaped
<1>9. CASE UNCHANGED artifactVars
  BY <1>9, <1>00, ListingStays DEF Shaped, artifactVars, disk, index, counters
<1> QED
  BY <1>2, <1>3, <1>4, <1>5, <1>6, <1>7, <1>8, <1>9, ShapedStep DEF ArtifactNext

(* As long as no publish of a key came between those of others or was      *)
(* interrupted, one commit at most has published and has no row; the bytes *)
(* under its name are its own, if they are still there, and while there is *)
(* no such commit the row describes them.                                  *)
DescribedKey(k) ==
    /\ \A u, v \in Published(k) : u = v
    /\ \A w \in Published(k) : file[k] \in {0, work[w].gen}
    /\ Published(k) = {} /\ row[k] # 0 /\ file[k] # 0 => row[k] = file[k]

Described == \A k \in ArtifactKeys \ crossed : DescribedKey(k)

Inserting(x) == x.at = "insert"

(* A worker that neither has published nor does now, and rows and files    *)
(* that only go away.                                                      *)
LEMMA DescribedFewer ==
    ASSUME Shaped, Described, NEW w \in Workers, NEW y, work' = [work EXCEPT ![w] = y],
           ~Inserting(work[w]), ~Inserting(y), crossed' = crossed,
           \A k \in ArtifactKeys : row'[k] \in {0, row[k]} /\ file'[k] \in {0, file[k]}
    PROVE  Described'
<1>1. work'[w] = y /\ \A v \in Workers \ {w} : work'[v] = work[v]
  BY DEF Shaped
<1>2. ASSUME NEW k \in ArtifactKeys
      PROVE  Published(k)' = Published(k) /\ \A v \in Published(k) : work'[v] = work[v]
  BY <1>1 DEF Published, Inserting
<1> QED
  BY <1>2 DEF Described, DescribedKey

LEMMA DescribedPublish ==
    ASSUME Shaped, Described, NEW w \in Workers, Publish(w)
    PROVE  Described'
<1> DEFINE x == work[w]
           y == [x EXCEPT !.at = "insert"]
<1>1. x \in WorkRecord /\ x.at = "publish" /\ x.key \in ArtifactKeys
  BY DEF Publish, Shaped, Sound
<1>2. y.at = "insert" /\ y.key = x.key /\ y.gen = x.gen
  BY <1>1 DEF WorkRecord
<1>3. work'[w] = y /\ \A v \in Workers \ {w} : work'[v] = work[v]
  BY DEF Shaped, Publish, Goes
<1>4. /\ row' = row /\ file'[x.key] = x.gen
      /\ \A k \in ArtifactKeys \ {x.key} : file'[k] = file[k]
  BY <1>1 DEF Publish, index, Shaped
<1>5. crossed' = IF Published(x.key) = {} THEN crossed \ {x.key} ELSE crossed \cup {x.key}
  BY DEF Publish
<1> HIDE DEF x, y
<1>6. ASSUME NEW k \in ArtifactKeys, k = x.key PROVE Published(k)' = Published(k) \cup {w}
  BY <1>6, <1>2, <1>3 DEF Published
<1>7. ASSUME NEW k \in ArtifactKeys, k # x.key
      PROVE  Published(k)' = Published(k) /\ \A v \in Published(k) : work'[v] = work[v]
  <2>1. work[w].at # "insert"
    BY <1>1 DEF x
  <2> QED
    BY <1>2, <1>3, <1>7, <2>1 DEF Published
<1>8. ASSUME NEW k \in ArtifactKeys \ crossed' PROVE DescribedKey(k)'
  <2>1. CASE k = x.key
    <3>1. Published(k)' = {w}
      <4>1. Published(k) = {}
        BY <1>5, <1>8, <2>1
      <4> QED
        BY <1>6, <2>1, <4>1
    <3>2. file'[k] = work'[w].gen
      BY <1>2, <1>3, <1>4, <2>1
    <3> QED
      BY <3>1, <3>2 DEF DescribedKey
  <2>2. CASE k # x.key
    <3>1. k \notin crossed
      BY <1>5, <1>8, <2>2
    <3>2. DescribedKey(k)
      BY <3>1 DEF Described
    <3> QED
      BY <1>4, <1>7, <2>2, <3>2 DEF DescribedKey
  <2> QED
    BY <2>1, <2>2
<1> QED
  BY <1>8 DEF Described

LEMMA DescribedInsert ==
    ASSUME Shaped, Described, NEW w \in Workers, InsertRow(w)
    PROVE  Described'
<1> DEFINE x == work[w]
           y == [x EXCEPT !.at = "evict"]
<1>1. x \in WorkRecord /\ x.at = "insert" /\ x.key \in ArtifactKeys
  BY DEF InsertRow, Shaped, Sound
<1>2. y.at # "insert"
  BY <1>1 DEF WorkRecord
<1>3. work'[w] = y /\ \A v \in Workers \ {w} : work'[v] = work[v]
  BY DEF Shaped, InsertRow, Goes
<1>4. /\ file' = file /\ row'[x.key] = x.gen /\ crossed' = crossed
      /\ \A k \in ArtifactKeys \ {x.key} : row'[k] = row[k]
  BY <1>1 DEF InsertRow, disk, counters, Shaped, Listing
<1>5. w \in Published(x.key)
  BY <1>1 DEF Published
<1>6. ASSUME NEW k \in ArtifactKeys, k # x.key
      PROVE  Published(k)' = Published(k) /\ \A v \in Published(k) : work'[v] = work[v]
  BY <1>2, <1>3, <1>6 DEF Published
<1>7. ASSUME NEW k \in ArtifactKeys, k = x.key PROVE Published(k)' = Published(k) \ {w}
  BY <1>2, <1>3 DEF Published
<1>8. ASSUME NEW k \in ArtifactKeys \ crossed PROVE DescribedKey(k)'
  <2>1. DescribedKey(k)
    BY DEF Described
  <2>2. CASE k = x.key
    <3>1. Published(k)' = {} /\ file[k] \in {0, x.gen}
      BY <1>5, <1>7, <2>1, <2>2 DEF DescribedKey
    <3> HIDE DEF x
    <3> QED
      BY <1>4, <2>2, <3>1 DEF DescribedKey
  <2>3. CASE k # x.key
    <3> HIDE DEF x
    <3> QED
      BY <1>4, <1>6, <2>1, <2>3 DEF DescribedKey
  <2> QED
    BY <2>2, <2>3
<1> QED
  BY <1>4, <1>8 DEF Described

(* A commit that ends between its publish and its row leaves a crossed key.*)
LEMMA DescribedFails ==
    ASSUME Shaped, Described, NEW w \in Workers, StatementFails(w)
    PROVE  Described'
<1>1. /\ work'[w] = Idle /\ \A v \in Workers \ {w} : work'[v] = work[v]
      /\ file' = file /\ row' = row
  BY DEF StatementFails, Shaped, Goes, disk, index
<1>2. Idle.at # "insert"
  BY DEF Idle
<1>3. crossed \subseteq crossed' /\ (work[w].at = "insert" => work[w].key \in crossed')
  BY DEF StatementFails
<1>4. ASSUME NEW k \in ArtifactKeys \ crossed'
      PROVE  Published(k)' = Published(k) /\ \A v \in Published(k) : work'[v] = work[v]
  BY <1>1, <1>2, <1>3 DEF Published
<1> QED
  BY <1>1, <1>3, <1>4 DEF Described, DescribedKey

LEMMA DescribedCrash ==
    ASSUME Described, Crash
    PROVE  Described'
<1>1. \A k \in ArtifactKeys : Published(k)' = {}
  BY DEF Crash, Published, Idle
<1>2. \A k \in ArtifactKeys \ crossed' : k \notin crossed /\ Published(k) = {}
  BY DEF Crash
<1> QED
  BY <1>1, <1>2 DEF Described, DescribedKey, Crash, index

LEMMA DescribedInit == ArtifactInit => Described
<1> SUFFICES ASSUME ArtifactInit PROVE Described
  OBVIOUS
<1>1. \A k \in ArtifactKeys : Published(k) = {}
  BY DEF ArtifactInit, Published, Idle
<1>2. \A k \in ArtifactKeys : row[k] = 0
  BY DEF ArtifactInit
<1> QED
  BY <1>1, <1>2 DEF Described, DescribedKey

LEMMA DescribedStep ==
    ASSUME Shaped, Described, NEW w \in Workers, Step(w)
    PROVE  Described'
<1> DEFINE x == work[w]
<1>0. x \in WorkRecord /\ row \in [ArtifactKeys -> Nat] /\ file \in [ArtifactKeys -> Nat]
  BY DEF Shaped, Listing
<1>1. CASE BeginPass(w)
  <2>0. ~Inserting(work[w]) /\ crossed' = crossed
    BY <1>1 DEF BeginPass, Inserting, counters
  <2>1. ~Inserting([x EXCEPT !.at = "used", !.limit = budget_bytes])
    BY <1>0 DEF Inserting, WorkRecord
  <2> HIDE DEF x
  <2> QED
    BY <1>1, <2>1, <2>0, DescribedFewer DEF BeginPass, Goes, disk, index, x
<1>2. CASE ReadUsed(w)
  <2>0. ~Inserting(work[w]) /\ crossed' = crossed
    BY <1>2 DEF ReadUsed, Inserting, counters
  <2>1. ~Inserting([x EXCEPT !.at = "select", !.used = Total]) /\ ~Inserting(Idle)
    BY <1>0 DEF Inserting, WorkRecord, Idle
  <2> HIDE DEF x
  <2> QED
    BY <1>2, <2>1, <2>0, DescribedFewer DEF ReadUsed, Goes, Ends, disk, index, x
<1>3. CASE Select(w)
  <2>0. ~Inserting(work[w]) /\ crossed' = crossed
    BY <1>3 DEF Select, Inserting, counters
  <2>1. PICK hot :
          LET victims == Candidates(w, hot)
          IN CASE victims # <<>> ->
                    Goes(w, [work[w] EXCEPT !.at = "unlink", !.victims = victims])
               [] victims = <<>> /\ work[w].skipHot ->
                    Goes(w, [work[w] EXCEPT !.skipHot = FALSE])
               [] OTHER -> Ends(w)
    BY <1>3 DEF Select
  <2> DEFINE v == Candidates(w, hot)
  <2>2. \/ work' = [work EXCEPT ![w] = [x EXCEPT !.at = "unlink", !.victims = v]]
        \/ work' = [work EXCEPT ![w] = [x EXCEPT !.skipHot = FALSE]]
        \/ work' = [work EXCEPT ![w] = Idle]
    BY <2>1 DEF Goes, Ends
  <2> HIDE DEF v
  <2>3. /\ ~Inserting([x EXCEPT !.at = "unlink", !.victims = v]) /\ ~Inserting(Idle)
        /\ ~Inserting([x EXCEPT !.skipHot = FALSE])
    BY <1>0, <1>3 DEF Inserting, WorkRecord, Idle, Select
  <2> HIDE DEF x
  <2> QED
    BY <1>3, <2>2, <2>3, <2>0, DescribedFewer DEF Select, disk, index
<1>4. CASE Unlink(w)
  <2>0. ~Inserting(work[w]) /\ crossed' = crossed
    BY <1>4 DEF Unlink, Inserting, counters
  <2>1. ~Inserting([x EXCEPT !.at = "delete"])
    BY <1>0 DEF Inserting, WorkRecord
  <2>2. \A k \in ArtifactKeys : row'[k] \in {0, row[k]} /\ file'[k] \in {0, file[k]}
    BY <1>0, <1>4 DEF Unlink, index
  <2> HIDE DEF x
  <2> QED
    BY <1>4, <2>1, <2>2, <2>0, DescribedFewer DEF Unlink, Goes, x
<1>5. CASE DeleteRow(w)
  <2>0. ~Inserting(work[w]) /\ crossed' = crossed
    BY <1>5 DEF DeleteRow, Inserting, counters
  <2> DEFINE rest == Tail(x.victims)
             left == x.used - Size[Head(x.victims)]
             next == [x EXCEPT !.victims = rest]
  <2>1. \A k \in ArtifactKeys : row'[k] \in {0, row[k]} /\ file'[k] \in {0, file[k]}
    BY <1>0, <1>5 DEF DeleteRow, DeleteRowOf
  <2>2. x.at = "delete"
    BY <1>5 DEF DeleteRow
  <2>3. \/ work' = [work EXCEPT ![w] = [next EXCEPT !.at = "unlink"]]
        \/ work' = [work EXCEPT ![w] = next]
        \/ work' = [work EXCEPT ![w] = [next EXCEPT !.at = "evict", !.job = "open"]]
        \/ work' = [work EXCEPT ![w] =
                [next EXCEPT !.used = left, !.at = IF rest = <<>> THEN "select" ELSE "unlink"]]
        \/ work' = [work EXCEPT ![w] = Idle]
    BY <1>5 DEF DeleteRow, Goes, Ends
  <2> HIDE DEF rest, left
  <2>4. next.at = "delete" /\ DOMAIN next = DOMAIN x
    BY <1>0, <2>2 DEF WorkRecord
  <2>5. DOMAIN x = {"at", "key", "gen", "limit", "used", "victims", "skipHot", "job"}
    BY <1>0 DEF WorkRecord
  <2> HIDE DEF next, x
  <2>6. /\ ~Inserting([next EXCEPT !.at = "unlink"]) /\ ~Inserting(next)
        /\ ~Inserting([next EXCEPT !.at = "evict", !.job = "open"])
        /\ ~Inserting([next EXCEPT !.used = left, !.at = IF rest = <<>> THEN "select" ELSE "unlink"])
        /\ ~Inserting(Idle)
    BY <2>4, <2>5 DEF Inserting, Idle
  <2> QED
    BY <2>1, <2>3, <2>6, <2>0, DescribedFewer
<1>6. CASE Hit(w)
  <2>0. ~Inserting(work[w]) /\ crossed' = crossed
    BY <1>6 DEF Hit, Inserting, counters
  <2>1. ~Inserting([x EXCEPT !.at = "share"])
    BY <1>0 DEF Inserting, WorkRecord
  <2> HIDE DEF x
  <2> QED
    BY <1>6, <2>1, <2>0, DescribedFewer DEF Hit, Goes, disk, x
<1>7. CASE Miss(w)
  <2>0. ~Inserting(work[w]) /\ crossed' = crossed
    BY <1>7 DEF Miss, Inserting, counters
  <2>1. ~Inserting([x EXCEPT !.at = "drop"])
    BY <1>0 DEF Inserting, WorkRecord
  <2> HIDE DEF x
  <2> QED
    BY <1>7, <2>1, <2>0, DescribedFewer DEF Miss, Goes, disk, index, x
<1>8. CASE DropRow(w)
  <2>0. ~Inserting(work[w]) /\ crossed' = crossed
    BY <1>8 DEF DropRow, Inserting, counters
  <2>1. ~Inserting(Idle)
    BY DEF Inserting, Idle
  <2>2. \A k \in ArtifactKeys : row'[k] \in {0, row[k]} /\ file'[k] \in {0, file[k]}
    BY <1>0, <1>8 DEF DropRow, DeleteRowOf
  <2> QED
    BY <1>8, <2>1, <2>2, <2>0, DescribedFewer DEF DropRow, Goes
<1>9. CASE Share(w)
  <2>0. ~Inserting(work[w]) /\ crossed' = crossed
    BY <1>9 DEF Share, Inserting, counters
  <2>1. ~Inserting(Idle)
    BY DEF Inserting, Idle
  <2> QED
    BY <1>9, <2>1, <2>0, DescribedFewer DEF Share, Goes, index
<1> QED
  BY <1>1, <1>2, <1>3, <1>4, <1>5, <1>6, <1>7, <1>8, <1>9, DescribedPublish, DescribedInsert DEF Step

LEMMA DescribedNext ==
    ASSUME Shaped, Described, [ArtifactNext]_artifactVars,
           phase = "down" => \A w \in Workers : work[w] = Idle
    PROVE  Described'
<1>0. row \in [ArtifactKeys -> Nat] /\ file \in [ArtifactKeys -> Nat]
  BY DEF Shaped, Listing
<1>3. ASSUME NEW w \in Workers, Clear(w) PROVE Described'
  <2>0. ~Inserting(work[w]) /\ crossed' = crossed
    BY <1>3 DEF Clear, May, Idle, Inserting, counters
  <2>1. ~Inserting([Idle EXCEPT !.at = "unlink", !.victims = recency, !.job = "clear"])
    BY DEF Inserting, Idle
  <2> QED
    BY <1>3, <2>1, <2>0, DescribedFewer DEF Clear, Goes, disk, index
<1>4. ASSUME NEW w \in Workers, Open(w) PROVE Described'
  <2>0. ~Inserting(work[w]) /\ crossed' = crossed
    BY <1>4 DEF Open, Idle, Inserting, counters
  <2> DEFINE live == {k \in Rows : file[k] # 0}
             orphans == SetToSeq(Rows \ live)
             repair == [Idle EXCEPT !.at = "delete", !.victims = orphans, !.job = "repair"]
             pass == [Idle EXCEPT !.at = "evict", !.job = "open"]
  <2>1. row' = row /\ file' = [k \in ArtifactKeys |-> IF k \in live \/ <<"file", k>> \in young
                                                      THEN file[k] ELSE 0]
    BY <1>4 DEF Open, index
  <2>2. work' = [work EXCEPT ![w] = IF orphans = <<>> THEN pass ELSE repair]
    BY <1>4 DEF Open, Goes
  <2> HIDE DEF orphans, live
  <2>3. ~Inserting(pass) /\ ~Inserting(repair)
    BY DEF Inserting, Idle
  <2>4. \A k \in ArtifactKeys : row'[k] \in {0, row[k]} /\ file'[k] \in {0, file[k]}
    BY <2>1
  <2> HIDE DEF pass, repair
  <2>5. ~Inserting(IF orphans = <<>> THEN pass ELSE repair)
    BY <2>3
  <2> QED
    BY <2>2, <2>4, <2>5, <2>0, DescribedFewer
<1>5. ASSUME NEW w \in Workers, NEW k \in ArtifactKeys, lookup(w, k) PROVE Described'
  <2>0. ~Inserting(work[w]) /\ crossed' = crossed
    BY <1>5 DEF lookup, May, Idle, Inserting, counters
  <2>1. ~Inserting([Idle EXCEPT !.at = "stat", !.key = k, !.job = "lookup"])
    BY DEF Inserting, Idle
  <2> QED
    BY <1>5, <2>1, <2>0, DescribedFewer DEF lookup, Goes, disk, index
<1>6. ASSUME NEW w \in Workers, NEW b \in ByteBudgets, Resize(w, b) PROVE Described'
  <2>0. ~Inserting(work[w]) /\ crossed' = crossed
    BY <1>6 DEF Resize, May, Idle, Inserting, counters
  <2>1. ~Inserting([Idle EXCEPT !.at = "evict", !.job = "resize"])
    BY DEF Inserting, Idle
  <2> QED
    BY <1>6, <2>1, <2>0, DescribedFewer DEF Resize, Goes, disk, index
<1>2. ASSUME NEW w \in Workers, NEW k \in ArtifactKeys, BeginCommit(w, k) PROVE Described'
  <2>0. ~Inserting(work[w]) /\ crossed' = crossed
    BY <1>2 DEF BeginCommit, May, Idle, Inserting
  <2>1. ~Inserting([Idle EXCEPT !.at = "publish", !.key = k, !.gen = commits + 1, !.job = "commit"])
    BY DEF Inserting, Idle
  <2> QED
    BY <1>0, <1>2, <2>0, <2>1, DescribedFewer DEF BeginCommit, Goes, disk, index
<1>8. CASE UNCHANGED artifactVars
  BY <1>8 DEF Described, DescribedKey, Published, artifactVars, disk, index, counters
<1> QED
  BY <1>2, <1>3, <1>4, <1>5, <1>6, <1>8, DescribedStep, DescribedFails, DescribedCrash DEF ArtifactNext

(* Less is kept, and what was in V is counted either way.                  *)
LEMMA SumFewer ==
    ASSUME NEW f, NEW R, NEW Q \in SUBSET R, NEW V, Weighed(f, R), Weighed(f, V)
    PROVE  /\ SumFunctionOnSet(f, Q) + SumFunctionOnSet(f, V \ Q)
                <= SumFunctionOnSet(f, R) + SumFunctionOnSet(f, V \ R)
           /\ SumFunctionOnSet(f, Q) <= SumFunctionOnSet(f, R)
<1> DEFINE Sum(T) == SumFunctionOnSet(f, T)
           A == V \ Q
           B == V \ R
           C == R \ Q
           D == A \ B
           E == C \ D
<1>1. Weighed(f, A) /\ Weighed(f, B) /\ Weighed(f, C) /\ Weighed(f, Q)
  BY FewerWeighed
<1>2. B \in SUBSET A /\ D \in SUBSET C
  OBVIOUS
<1>3. Sum(R) = Sum(Q) + Sum(C)
  BY SumSplit
<1> HIDE DEF A, B, C
<1>4. Weighed(f, D) /\ Weighed(f, E)
  BY <1>1, <1>2, FewerWeighed
<1>5. Sum(A) = Sum(B) + Sum(D)
  BY <1>1, <1>2, SumSplit
<1>6. Sum(C) = Sum(D) + Sum(E)
  BY <1>1, <1>2, SumSplit
<1> HIDE DEF D, E
<1>7. /\ Sum(A) \in Nat /\ Sum(B) \in Nat /\ Sum(C) \in Nat /\ Sum(D) \in Nat /\ Sum(E) \in Nat
      /\ Sum(Q) \in Nat /\ Sum(R) \in Nat
  BY <1>1, <1>4, SumType
<1> HIDE DEF Sum
<1>8. Sum(Q) + Sum(A) <= Sum(R) + Sum(B) /\ Sum(Q) <= Sum(R)
  BY <1>3, <1>5, <1>6, <1>7
<1> QED
  BY <1>8 DEF Sum, A, B

(* One of V is taken off, whether it was still in R or not.                *)
LEMMA SumTakenOff ==
    ASSUME NEW f, NEW R, NEW V, NEW k \in V, Weighed(f, R), Weighed(f, V), NEW used \in Int,
           SumFunctionOnSet(f, R) + SumFunctionOnSet(f, V \ R) <= used
    PROVE  SumFunctionOnSet(f, R \ {k}) + SumFunctionOnSet(f, (V \ {k}) \ (R \ {k})) <= used - f[k]
<1> DEFINE Sum(T) == SumFunctionOnSet(f, T)
           A == R \ {k}
           B == V \ R
           C == (V \ {k}) \ (R \ {k})
<1>1. Weighed(f, A) /\ Weighed(f, B) /\ Weighed(f, C) /\ f[k] \in Nat
  BY FewerWeighed DEF Weighed
<1>2. Sum(A) \in Nat /\ Sum(B) \in Nat /\ Sum(C) \in Nat /\ Sum(R) \in Nat
  BY <1>1, SumType
<1>3. Sum(R) + Sum(B) <= used
  OBVIOUS
<1>4. CASE k \in R
  <2>1. Sum(R) = f[k] + Sum(A)
    BY <1>4, SumWithout
  <2>2. C = B
    BY <1>4
  <2>3. Sum(C) = Sum(B)
    BY <2>2, Zenon
  <2> HIDE DEF Sum, A, B, C
  <2>4. Sum(A) + Sum(C) <= used - f[k]
    BY <1>1, <1>2, <1>3, <2>1, <2>3
  <2> QED
    BY <2>4 DEF Sum, A, C
<1>5. CASE k \notin R
  <2> DEFINE D == B \ {k}
  <2>1. A = R /\ C = D /\ k \in B
    BY <1>5
  <2> HIDE DEF A, B, C
  <2>2. Sum(B) = f[k] + Sum(D)
    BY <1>1, <2>1, SumWithout
  <2>3. Sum(A) = Sum(R) /\ Sum(C) = Sum(D)
    BY <2>1, Zenon
  <2> HIDE DEF D, Sum
  <2>4. Sum(A) + Sum(C) <= used - f[k]
    BY <1>1, <1>2, <1>3, <2>2, <2>3
  <2> QED
    BY <2>4 DEF Sum, A, C
<1> QED
  BY <1>4, <1>5

WithinBudget ==
    \/ Total <= budget_bytes
    \/ \E k : Rows \subseteq {k}

(* A worker that has yet to read the total, under the budget in force.     *)
Due(w) ==
    \/ work[w].at = "evict"
    \/ work[w].at = "used" /\ work[w].limit = budget_bytes
    \/ work[w].at = "delete" /\ work[w].job = "repair"

(* The victims of a batch that others have deleted meanwhile.              *)
Lost(w) == IF work[w].at = "select" THEN {} ELSE Range(work[w].victims) \ Rows

(* A pass under the budget in force whose count is not below what is       *)
(* there, the victims it has yet to take off included.                     *)
Covers(w) ==
    /\ work[w].at \in {"select", "unlink", "delete"}
    /\ work[w].job \in PassJobs
    /\ work[w].limit = budget_bytes
    /\ Total + SumFunctionOnSet(Size, Lost(w)) <= work[w].used

Bounded ==
    phase # "down" /\ faults = 0 => WithinBudget \/ \E w \in Workers : Due(w) \/ Covers(w)

LEMMA LostWeighed ==
    ASSUME Shaped, NEW w \in Workers, work[w].at \in {"select", "unlink", "delete"}
    PROVE  /\ work[w].at # "select" => Weighed(Size, Range(work[w].victims))
           /\ Weighed(Size, Lost(w)) /\ SumFunctionOnSet(Size, Lost(w)) \in Nat
<1> DEFINE v == work[w].victims
<1>1. CASE work[w].at = "select"
  <2>1. Lost(w) = {}
    BY <1>1 DEF Lost
  <2>2. IsFiniteSet(Lost(w))
    BY <2>1, FS_EmptySet
  <2> QED
    BY <1>1, <2>1, <2>2, SumType DEF Weighed
<1>2. CASE work[w].at # "select"
  <2>1. v \in Seq(ArtifactKeys) /\ IsInjective(v)
    BY <1>2 DEF Shaped, Sound, WorkRecord
  <2> HIDE DEF v
  <2>2. v \in Seq(Range(v)) /\ Range(v) \subseteq ArtifactKeys
    BY <2>1 DEF Range
  <2>3. IsFiniteSet(Range(v))
    BY <2>1, <2>2, OnceEach
  <2>4. Weighed(Size, Range(v))
    BY <2>2, <2>3, CacheAssumption DEF Weighed
  <2>5. Lost(w) = Range(v) \ Rows
    BY <1>2 DEF Lost, v
  <2>6. Weighed(Size, Lost(w))
    BY <2>4, <2>5, FewerWeighed
  <2> QED
    BY <2>4, <2>6, SumType DEF v
<1> QED
  BY <1>1, <1>2

(* What another worker counts stays enough when rows go away.              *)
LEMMA CoversStays ==
    ASSUME Shaped, NEW w \in Workers, Covers(w), work'[w] = work[w], Rows' \subseteq Rows,
           budget_bytes' = budget_bytes
    PROVE  Covers(w)'
<1> DEFINE R == Rows
           Q == Rows'
           V == Range(work[w].victims)
           s == Total + SumFunctionOnSet(Size, Lost(w))
           t == Total' + SumFunctionOnSet(Size, Lost(w)')
<1>0. Weighed(Size, R) /\ work[w].at \in {"select", "unlink", "delete"} /\ work[w].used \in Int
  BY RowsWeighed DEF Shaped, Covers, WorkRecord
<1>1. Total = SumFunctionOnSet(Size, R) /\ Total' = SumFunctionOnSet(Size, Q) /\ Q \in SUBSET R
  BY DEF Total
<1>2. Total \in Nat /\ Total' \in Nat
  BY <1>0, <1>1, FewerWeighed, SumType
<1>3. SumFunctionOnSet(Size, Lost(w)) \in Nat
  BY <1>0, LostWeighed
<1>4. t <= s
  <2>1. CASE work[w].at = "select"
    <3>1. Lost(w)' = Lost(w)
      BY <2>1 DEF Lost
    <3>2. SumFunctionOnSet(Size, Lost(w)') = SumFunctionOnSet(Size, Lost(w))
      BY <3>1, Zenon
    <3> HIDE DEF R, Q
    <3>3. SumFunctionOnSet(Size, Q) <= SumFunctionOnSet(Size, R)
      BY <1>0, <1>1, SumFewer
    <3> QED
      BY <1>1, <1>2, <1>3, <3>2, <3>3
  <2>2. CASE work[w].at # "select"
    <3>1. Weighed(Size, V)
      BY <1>0, <2>2, LostWeighed
    <3>2. Lost(w) = V \ R /\ Lost(w)' = V \ Q
      BY <2>2 DEF Lost
    <3> HIDE DEF R, Q, V
    <3>3. SumFunctionOnSet(Size, Q) + SumFunctionOnSet(Size, V \ Q)
            <= SumFunctionOnSet(Size, R) + SumFunctionOnSet(Size, V \ R)
      BY <1>0, <1>1, <3>1, SumFewer
    <3> QED
      BY <1>1, <3>2, <3>3, Zenon
  <2> QED
    BY <2>1, <2>2
<1>5. s <= work[w].used
  BY DEF Covers
<1>6. t \in Int /\ s \in Int
  <2>1. SumFunctionOnSet(Size, Lost(w)') \in Nat
    <3>1. Lost(w)' \subseteq Lost(w) \cup Range(work[w].victims)
      BY DEF Lost
    <3>2. CASE work[w].at = "select"
      <4>1. Lost(w)' = Lost(w)
        BY <3>2 DEF Lost
      <4> QED
        BY <1>3, <4>1, Zenon
    <3>3. CASE work[w].at # "select"
      <4>1. Weighed(Size, V)
        BY <1>0, <3>3, LostWeighed
      <4>2. Lost(w)' \in SUBSET V
        BY <3>3 DEF Lost
      <4> HIDE DEF V
      <4> QED
        BY <4>1, <4>2, FewerWeighed, SumType
    <3> QED
      BY <3>2, <3>3
  <2> QED
    BY <1>2, <1>3, <2>1
<1> HIDE DEF s, t
<1>7. t <= work[w].used
  BY <1>0, <1>4, <1>5, <1>6
<1> QED
  BY <1>7 DEF Covers, t

LEMMA BoundedStays ==
    ASSUME Shaped, Bounded, NEW w \in Workers, ~Due(w), ~Covers(w), Rows' \subseteq Rows,
           budget_bytes' = budget_bytes, \A v \in Workers \ {w} : work'[v] = work[v],
           phase' # "down" /\ faults' = 0 => phase # "down" /\ faults = 0
    PROVE  Bounded'
<1> SUFFICES ASSUME phase' # "down", faults' = 0
             PROVE  WithinBudget' \/ \E v \in Workers : Due(v)' \/ Covers(v)'
  BY DEF Bounded
<1>1. CASE WithinBudget
  <2>1. CASE Total <= budget_bytes
    <3>1. Weighed(Size, Rows) /\ Total \in Nat /\ budget_bytes \in Nat
      BY RowsWeighed DEF Shaped
    <3>2. Rows' \in SUBSET Rows
      OBVIOUS
    <3>3. Total' <= Total /\ Total' \in Nat
      BY <3>1, <3>2, SumFewer, FewerWeighed, SumType DEF Total
    <3>4. Total' <= budget_bytes'
      BY <2>1, <3>1, <3>3
    <3> QED
      BY <3>4 DEF WithinBudget
  <2>2. CASE \E k : Rows \subseteq {k}
    BY <2>2 DEF WithinBudget
  <2> QED
    BY <1>1, <2>1, <2>2 DEF WithinBudget
<1>2. CASE \E v \in Workers : Due(v) \/ Covers(v)
  <2>1. PICK v \in Workers : Due(v) \/ Covers(v)
    BY <1>2
  <2>2. work'[v] = work[v]
    BY <2>1
  <2>3. Due(v) => Due(v)'
    BY <2>2 DEF Due
  <2>4. Covers(v) => Covers(v)'
    BY <2>2, CoversStays
  <2> QED
    BY <2>1, <2>3, <2>4
<1> QED
  BY <1>1, <1>2 DEF Bounded

LEMMA BoundedMover ==
    ASSUME NEW w \in Workers, WithinBudget' \/ Due(w)' \/ Covers(w)'
    PROVE  Bounded'
BY DEF Bounded

(* Nobody is at work while the cache is down, and one while it opens.      *)
Phased ==
    /\ phase \in {"down", "opening", "up"}
    /\ phase = "down" => \A w \in Workers : work[w] = Idle
    /\ phase = "opening" => \A v, w \in Workers : v # w => work[v] = Idle \/ work[w] = Idle
    /\ phase = "opening" => \A w \in Workers : work[w] # Idle => work[w].job \in {"open", "repair"}

LEMMA PhasedMove ==
    ASSUME Shaped, Phased, NEW w \in Workers, NEW y, work[w] # Idle, work' = [work EXCEPT ![w] = y],
           phase' \in {phase, "up"}, y = Idle \/ y.job \in {work[w].job, "open"}
    PROVE  Phased'
<1>1. work'[w] = y /\ \A v \in Workers \ {w} : work'[v] = work[v]
  BY DEF Shaped
<1>2. phase # "down"
  BY DEF Phased
<1>3. phase' = "opening" => \A v \in Workers \ {w} : work'[v] = Idle
  BY <1>1, <1>2 DEF Phased
<1>4. phase' = "opening" => \A u, v \in Workers : u # v => work'[u] = Idle \/ work'[v] = Idle
  BY <1>3
<1>5. phase' = "opening" => work[w].job \in {"open", "repair"}
  BY <1>2 DEF Phased
<1>6. phase' = "opening" => \A v \in Workers : work'[v] # Idle => work'[v].job \in {"open", "repair"}
  BY <1>1, <1>3, <1>5
<1>7. phase' \in {"down", "opening", "up"} /\ phase' # "down"
  BY <1>2 DEF Phased
<1> QED
  BY <1>4, <1>6, <1>7 DEF Phased

LEMMA PhasedStep ==
    ASSUME Shaped, Phased, NEW w \in Workers, Step(w)
    PROVE  Phased' /\ phase # "down" /\ work[w] # Idle
<1> DEFINE x == work[w]
<1>0. x \in WorkRecord
  BY DEF Shaped
<1>1. work[w] # Idle
  <2>1. work[w].at # "idle"
    BY DEF Step, Publish, InsertRow, BeginPass, ReadUsed, Select, Unlink, DeleteRow, Hit, Miss, DropRow,
           Share
  <2>2. Idle.at = "idle"
    BY DEF Idle
  <2> QED
    BY <2>1, <2>2
<1>2. phase # "down"
  BY <1>1 DEF Phased
<1>3. ASSUME NEW y, work' = [work EXCEPT ![w] = y], phase' \in {phase, "up"},
             y = Idle \/ y.job \in {x.job, "open"}
      PROVE  Phased'
  BY <1>1, <1>3, PhasedMove
<1>4. ASSUME Publish(w) PROVE Phased'
  <2>1. [x EXCEPT !.at = "insert"].job = x.job
    BY <1>0 DEF WorkRecord
  <2>2. work' = [work EXCEPT ![w] = [x EXCEPT !.at = "insert"]] /\ phase' = phase
    BY <1>4 DEF Publish, Goes
  <2> HIDE DEF x
  <2> QED
    BY <1>3, <2>1, <2>2
<1>5. ASSUME InsertRow(w) PROVE Phased'
  <2>1. [x EXCEPT !.at = "evict"].job = x.job
    BY <1>0 DEF WorkRecord
  <2>2. work' = [work EXCEPT ![w] = [x EXCEPT !.at = "evict"]] /\ phase' = phase
    BY <1>5 DEF InsertRow, Goes
  <2> HIDE DEF x
  <2> QED
    BY <1>3, <2>1, <2>2
<1>6. ASSUME BeginPass(w) PROVE Phased'
  <2>1. [x EXCEPT !.at = "used", !.limit = budget_bytes].job = x.job
    BY <1>0 DEF WorkRecord
  <2>2. work' = [work EXCEPT ![w] = [x EXCEPT !.at = "used", !.limit = budget_bytes]] /\ phase' = phase
    BY <1>6 DEF BeginPass, Goes
  <2> HIDE DEF x
  <2> QED
    BY <1>3, <2>1, <2>2
<1>7. ASSUME ReadUsed(w) PROVE Phased'
  <2>1. [x EXCEPT !.at = "select", !.used = Total].job = x.job
    BY <1>0 DEF WorkRecord
  <2>2. /\ \/ work' = [work EXCEPT ![w] = [x EXCEPT !.at = "select", !.used = Total]]
           \/ work' = [work EXCEPT ![w] = Idle]
        /\ phase' \in {phase, "up"}
    BY <1>7 DEF ReadUsed, Goes, Ends
  <2> HIDE DEF x
  <2> QED
    BY <1>3, <2>1, <2>2
<1>8. ASSUME Select(w) PROVE Phased'
  <2>1. PICK hot :
          LET victims == Candidates(w, hot)
          IN CASE victims # <<>> ->
                    /\ Goes(w, [work[w] EXCEPT !.at = "unlink", !.victims = victims])
                    /\ UNCHANGED phase
               [] victims = <<>> /\ work[w].skipHot ->
                    /\ Goes(w, [work[w] EXCEPT !.skipHot = FALSE])
                    /\ UNCHANGED phase
               [] OTHER -> Ends(w)
    BY <1>8 DEF Select
  <2> DEFINE v == Candidates(w, hot)
  <2>2. /\ \/ work' = [work EXCEPT ![w] = [x EXCEPT !.at = "unlink", !.victims = v]]
           \/ work' = [work EXCEPT ![w] = [x EXCEPT !.skipHot = FALSE]]
           \/ work' = [work EXCEPT ![w] = Idle]
        /\ phase' \in {phase, "up"}
    BY <2>1 DEF Goes, Ends
  <2> HIDE DEF v
  <2>3. /\ [x EXCEPT !.at = "unlink", !.victims = v].job = x.job
        /\ [x EXCEPT !.skipHot = FALSE].job = x.job
    BY <1>0 DEF WorkRecord
  <2> HIDE DEF x
  <2> QED
    BY <1>3, <2>2, <2>3
<1>9. ASSUME Unlink(w) PROVE Phased'
  <2>1. [x EXCEPT !.at = "delete"].job = x.job
    BY <1>0 DEF WorkRecord
  <2>2. work' = [work EXCEPT ![w] = [x EXCEPT !.at = "delete"]] /\ phase' = phase
    BY <1>9 DEF Unlink, Goes
  <2> HIDE DEF x
  <2> QED
    BY <1>3, <2>1, <2>2
<1>10. ASSUME DeleteRow(w) PROVE Phased'
  <2> DEFINE rest == Tail(x.victims)
             left == x.used - Size[Head(x.victims)]
             next == [x EXCEPT !.victims = rest]
  <2>1. /\ \/ work' = [work EXCEPT ![w] = [next EXCEPT !.at = "unlink"]]
           \/ work' = [work EXCEPT ![w] = next]
           \/ work' = [work EXCEPT ![w] = [next EXCEPT !.at = "evict", !.job = "open"]]
           \/ work' = [work EXCEPT ![w] =
                [next EXCEPT !.used = left, !.at = IF rest = <<>> THEN "select" ELSE "unlink"]]
           \/ work' = [work EXCEPT ![w] = Idle]
        /\ phase' \in {phase, "up"}
    BY <1>10 DEF DeleteRow, Goes, Ends
  <2> HIDE DEF rest, left
  <2>2. next.job = x.job /\ DOMAIN next = DOMAIN x
    BY <1>0 DEF WorkRecord
  <2>3. DOMAIN x = {"at", "key", "gen", "limit", "used", "victims", "skipHot", "job"}
    BY <1>0 DEF WorkRecord
  <2> HIDE DEF next, x
  <2>4. /\ [next EXCEPT !.at = "unlink"].job = x.job
        /\ [next EXCEPT !.at = "evict", !.job = "open"].job = "open"
        /\ [next EXCEPT !.used = left, !.at = IF rest = <<>> THEN "select" ELSE "unlink"].job = x.job
    BY <2>2, <2>3
  <2> QED
    BY <1>3, <2>1, <2>2, <2>4
<1>11. ASSUME Hit(w) PROVE Phased'
  <2>1. [x EXCEPT !.at = "share"].job = x.job
    BY <1>0 DEF WorkRecord
  <2>2. work' = [work EXCEPT ![w] = [x EXCEPT !.at = "share"]] /\ phase' = phase
    BY <1>11 DEF Hit, Goes
  <2> HIDE DEF x
  <2> QED
    BY <1>3, <2>1, <2>2
<1>12. ASSUME Miss(w) PROVE Phased'
  <2>1. [x EXCEPT !.at = "drop"].job = x.job
    BY <1>0 DEF WorkRecord
  <2>2. work' = [work EXCEPT ![w] = [x EXCEPT !.at = "drop"]] /\ phase' = phase
    BY <1>12 DEF Miss, Goes
  <2> HIDE DEF x
  <2> QED
    BY <1>3, <2>1, <2>2
<1>13. ASSUME DropRow(w) PROVE Phased'
  <2>1. work' = [work EXCEPT ![w] = Idle] /\ phase' = phase
    BY <1>13 DEF DropRow, Goes
  <2> QED
    BY <1>3, <2>1
<1>14. ASSUME Share(w) PROVE Phased'
  <2>1. work' = [work EXCEPT ![w] = Idle] /\ phase' = phase
    BY <1>14 DEF Share, Goes
  <2> QED
    BY <1>3, <2>1
<1> QED
  BY <1>1, <1>2, <1>4, <1>5, <1>6, <1>7, <1>8, <1>9, <1>10, <1>11, <1>12, <1>13, <1>14 DEF Step

LEMMA PhasedNext ==
    ASSUME Shaped, Phased, [ArtifactNext]_artifactVars
    PROVE  Phased'
<1>1. ASSUME NEW w \in Workers, StatementFails(w) PROVE Phased'
  <2>1. work'[w] = Idle /\ \A v \in Workers \ {w} : work'[v] = work[v]
    BY <1>1 DEF StatementFails, Goes, Shaped
  <2>2. work[w] # Idle /\ phase' = IF phase = "opening" THEN "down" ELSE phase
    BY <1>1 DEF StatementFails, Idle
  <2>3. CASE phase = "opening"
    <3>1. \A v \in Workers : work'[v] = Idle
      BY <2>1, <2>2, <2>3 DEF Phased
    <3> QED
      BY <2>2, <2>3, <3>1 DEF Phased
  <2>4. CASE phase = "up"
    BY <2>2, <2>4 DEF Phased
  <2>5. phase # "down"
    BY <2>2 DEF Phased
  <2> QED
    BY <2>3, <2>4, <2>5 DEF Phased
<1>2. ASSUME NEW w \in Workers, Open(w) PROVE Phased'
  <2> DEFINE orphans == SetToSeq(Rows \ {k \in Rows : file[k] # 0})
             repair == [Idle EXCEPT !.at = "delete", !.victims = orphans, !.job = "repair"]
             pass == [Idle EXCEPT !.at = "evict", !.job = "open"]
  <2>1. work' = [work EXCEPT ![w] = IF orphans = <<>> THEN pass ELSE repair] /\ phase' = "opening"
    BY <1>2 DEF Open, Goes
  <2> HIDE DEF orphans
  <2>2. pass.job = "open" /\ repair.job = "repair"
    BY DEF Idle
  <2> HIDE DEF pass, repair
  <2>3. work'[w] \in {pass, repair} /\ \A v \in Workers \ {w} : work'[v] = work[v]
    BY <2>1 DEF Shaped
  <2>4. \A v \in Workers \ {w} : work'[v] = Idle
    BY <1>2, <2>3 DEF Open, Phased
  <2>5. \A v \in Workers : work'[v] # Idle => work'[v].job \in {"open", "repair"}
    BY <2>2, <2>3, <2>4
  <2>6. \A u, v \in Workers : u # v => work'[u] = Idle \/ work'[v] = Idle
    BY <2>4
  <2> QED
    BY <2>1, <2>5, <2>6 DEF Phased
<1>3. CASE Crash
  BY <1>3 DEF Crash, Phased
<1>4. CASE UNCHANGED artifactVars
  BY <1>4 DEF Phased, artifactVars
<1>5. ASSUME NEW w \in Workers, Clear(w) PROVE Phased'
  BY <1>5 DEF Clear, May, Phased
<1>6. ASSUME NEW w \in Workers, NEW k \in ArtifactKeys, BeginCommit(w, k) PROVE Phased'
  BY <1>6 DEF BeginCommit, May, Phased
<1>7. ASSUME NEW w \in Workers, NEW k \in ArtifactKeys, lookup(w, k) PROVE Phased'
  BY <1>7 DEF lookup, May, Phased
<1>8. ASSUME NEW w \in Workers, NEW b \in ByteBudgets, Resize(w, b) PROVE Phased'
  BY <1>8 DEF Resize, May, Phased
<1> QED
  BY <1>1, <1>2, <1>3, <1>4, <1>5, <1>6, <1>7, <1>8, PhasedStep DEF ArtifactNext

LEMMA BoundedReadUsed ==
    ASSUME Shaped, Phased, Bounded, NEW w \in Workers, ReadUsed(w)
    PROVE  Bounded'
<1> DEFINE x == work[w]
<1>1. /\ x \in WorkRecord /\ x.at = "used" /\ x.job \in PassJobs /\ Total \in Nat /\ x.limit \in Nat
  BY RowsWeighed DEF Shaped, Sound, ReadUsed, WorkRecord
<1>2. /\ row' = row /\ budget_bytes' = budget_bytes /\ faults' = faults
      /\ \A v \in Workers \ {w} : work'[v] = work[v]
  BY DEF ReadUsed, index, counters, Goes, Ends, Shaped
<1>3. Rows' = Rows
  BY <1>2 DEF Rows
<1>4. Total' = Total
  BY <1>3, Zenon DEF Total
<1>5. phase # "down"
  BY PhasedStep DEF Step
<1>6. CASE x.limit = budget_bytes /\ Total <= x.limit
  BY <1>2, <1>4, <1>6, BoundedMover DEF WithinBudget
<1>7. CASE x.limit = budget_bytes /\ ~(Total <= x.limit)
  <2>1. work'[w] = [x EXCEPT !.at = "select", !.used = Total]
    BY <1>7 DEF ReadUsed, Goes, Shaped
  <2>2. work'[w].at = "select" /\ work'[w].used = Total /\ work'[w].job \in PassJobs /\ work'[w].limit = x.limit
    BY <1>1, <2>1 DEF WorkRecord
  <2>3. Lost(w)' = {}
    BY <2>2 DEF Lost
  <2>4. SumFunctionOnSet(Size, {}) = 0
    BY FS_EmptySet, SumType DEF Weighed
  <2>5. SumFunctionOnSet(Size, Lost(w)') = 0
    BY <2>3, <2>4, Zenon
  <2>6. Total' + SumFunctionOnSet(Size, Lost(w)') <= work'[w].used
    BY <1>1, <1>4, <2>2, <2>5
  <2>7. Covers(w)'
    BY <1>2, <1>7, <2>2, <2>6 DEF Covers
  <2> QED
    BY <2>7, BoundedMover
<1>8. CASE x.limit # budget_bytes
  <2>1. ~Due(w) /\ ~Covers(w)
    BY <1>1, <1>8 DEF Due, Covers
  <2> QED
    BY <1>2, <1>3, <1>5, <2>1, BoundedStays
<1> QED
  BY <1>6, <1>7, <1>8

LEMMA BoundedSelect ==
    ASSUME Shaped, Phased, Bounded, NEW w \in Workers, Select(w)
    PROVE  Bounded'
<1> DEFINE x == work[w]
<1>1. /\ x \in WorkRecord /\ x.at = "select" /\ x.job \in PassJobs /\ Total \in Nat /\ Listing
      /\ x.used \in Int
  BY RowsWeighed DEF Shaped, Sound, Select, WorkRecord
<1>2. /\ row' = row /\ budget_bytes' = budget_bytes /\ faults' = faults
      /\ \A v \in Workers \ {w} : work'[v] = work[v]
  BY DEF Select, index, counters, Goes, Ends, Shaped
<1>3. Rows' = Rows
  BY <1>2 DEF Rows
<1>4. Total' = Total
  BY <1>3, Zenon DEF Total
<1>5. phase # "down"
  BY PhasedStep DEF Step
<1>6. CASE ~Covers(w)
  <2>1. ~Due(w)
    BY <1>1 DEF Due
  <2> QED
    BY <1>2, <1>3, <1>5, <1>6, <2>1, BoundedStays
<1>7. CASE Covers(w)
  <2>1. SumFunctionOnSet(Size, {}) = 0
    BY FS_EmptySet, SumType DEF Weighed
  <2>2. Total <= x.used
    <3>1. Lost(w) = {}
      BY <1>1 DEF Lost
    <3>2. SumFunctionOnSet(Size, Lost(w)) = 0
      BY <2>1, <3>1, Zenon
    <3> QED
      BY <1>1, <1>7, <3>2 DEF Covers
  <2>3. PICK hot \in (IF work[w].skipHot THEN SUBSET hits ELSE {{}}) :
          LET victims == Candidates(w, hot)
          IN CASE victims # <<>> ->
                    Goes(w, [work[w] EXCEPT !.at = "unlink", !.victims = victims])
               [] victims = <<>> /\ work[w].skipHot ->
                    Goes(w, [work[w] EXCEPT !.skipHot = FALSE])
               [] OTHER -> Ends(w)
    BY DEF Select
  <2> DEFINE v == Candidates(w, hot)
  <2>4. v \in Seq(ArtifactKeys) /\ Range(v) \subseteq Rows /\ (v = <<>> => Rows \subseteq {x.key} \cup hot)
    BY <1>1, CandidatesAreRows
  <2> HIDE DEF v
  (* Nothing is lost when the batch is chosen, and none before it is.      *)
  <2>5. ASSUME work'[w].job = x.job, work'[w].limit = x.limit, work'[w].used = x.used,
               work'[w].at \in {"select", "unlink"}, Lost(w)' = {}
        PROVE  Covers(w)'
    <3>1. SumFunctionOnSet(Size, Lost(w)') = 0
      BY <2>1, <2>5, Zenon
    <3>2. Total' + SumFunctionOnSet(Size, Lost(w)') <= work'[w].used
      BY <1>1, <1>4, <2>2, <2>5, <3>1
    <3> QED
      BY <1>2, <1>7, <2>5, <3>2 DEF Covers
  <2>6. CASE v # <<>>
    <3>1. work'[w] = [x EXCEPT !.at = "unlink", !.victims = v]
      BY <2>3, <2>6 DEF Goes, Shaped, v
    <3>2. /\ work'[w].job = x.job /\ work'[w].limit = x.limit /\ work'[w].used = x.used
          /\ work'[w].at = "unlink" /\ work'[w].victims = v
      BY <1>1, <3>1 DEF WorkRecord
    <3>3. Lost(w)' = {}
      BY <1>3, <2>4, <3>2 DEF Lost
    <3> QED
      BY <2>5, <3>2, <3>3, BoundedMover
  <2>7. CASE v = <<>> /\ x.skipHot
    <3>1. work'[w] = [x EXCEPT !.skipHot = FALSE]
      BY <2>3, <2>7 DEF Goes, Shaped, v
    <3>2. /\ work'[w].job = x.job /\ work'[w].limit = x.limit /\ work'[w].used = x.used
          /\ work'[w].at = "select"
      BY <1>1, <3>1 DEF WorkRecord
    <3>3. Lost(w)' = {}
      BY <3>2 DEF Lost
    <3> QED
      BY <2>5, <3>2, <3>3, BoundedMover
  <2>8. CASE v = <<>> /\ ~x.skipHot
    <3>1. hot = {}
      BY <2>3, <2>8
    <3>2. Rows' \subseteq {x.key}
      BY <1>3, <2>4, <2>8, <3>1
    <3>3. WithinBudget'
      BY <3>2 DEF WithinBudget
    <3> QED
      BY <3>3, BoundedMover
  <2> QED
    BY <2>6, <2>7, <2>8
<1> QED
  BY <1>6, <1>7

LEMMA BoundedUnlink ==
    ASSUME Shaped, Phased, Bounded, NEW w \in Workers, Unlink(w)
    PROVE  Bounded'
<1> DEFINE x == work[w]
<1>1. x \in WorkRecord /\ x.at = "unlink"
  BY DEF Shaped, Unlink
<1>2. /\ row' = row /\ budget_bytes' = budget_bytes /\ faults' = faults
      /\ work'[w] = [x EXCEPT !.at = "delete"]
      /\ \A v \in Workers \ {w} : work'[v] = work[v]
  BY DEF Unlink, index, counters, Goes, Shaped
<1>3. Rows' = Rows
  BY <1>2 DEF Rows
<1>4. Total' = Total
  BY <1>3, Zenon DEF Total
<1>5. phase # "down"
  BY PhasedStep DEF Step
<1>6. CASE ~Covers(w)
  <2>1. ~Due(w)
    BY <1>1 DEF Due
  <2> QED
    BY <1>2, <1>3, <1>5, <1>6, <2>1, BoundedStays
<1>7. CASE Covers(w)
  <2>1. /\ work'[w].job = x.job /\ work'[w].limit = x.limit /\ work'[w].used = x.used
        /\ work'[w].at = "delete" /\ work'[w].victims = x.victims
    BY <1>1, <1>2 DEF WorkRecord
  <2>2. Lost(w)' = Lost(w)
    BY <1>1, <1>3, <2>1 DEF Lost
  <2>3. SumFunctionOnSet(Size, Lost(w)') = SumFunctionOnSet(Size, Lost(w))
    BY <2>2, Zenon
  <2>4. Covers(w)'
    BY <1>2, <1>4, <1>7, <2>1, <2>3 DEF Covers
  <2> QED
    BY <2>4, BoundedMover
<1> QED
  BY <1>6, <1>7

LEMMA BoundedDelete ==
    ASSUME Shaped, Phased, Bounded, NEW w \in Workers, DeleteRow(w)
    PROVE  Bounded'
<1> DEFINE x == work[w]
           k == Head(x.victims)
           rest == Tail(x.victims)
           left == x.used - Size[k]
           next == [x EXCEPT !.victims = rest]
<1>1. /\ x \in WorkRecord /\ x.at = "delete" /\ x.job \in PassJobs \cup {"clear", "repair"}
      /\ x.victims \in Seq(ArtifactKeys) /\ x.victims # <<>> /\ IsInjective(x.victims)
  BY DEF Shaped, Sound, DeleteRow, WorkRecord
<1>2. /\ DeleteRowOf(k) /\ budget_bytes' = budget_bytes /\ faults' = faults
      /\ \A v \in Workers \ {w} : work'[v] = work[v]
  BY DEF DeleteRow, counters, Goes, Ends, Shaped
<1>3. Rows' = Rows \ {k}
  BY <1>2, RowDeleted DEF Shaped
<1>4. phase # "down"
  BY PhasedStep DEF Step
<1>5. /\ k \in ArtifactKeys /\ k \in Range(x.victims) /\ rest \in Seq(ArtifactKeys)
      /\ Range(rest) = Range(x.victims) \ {k}
  BY <1>1, TailOnce
<1>6. DOMAIN x = {"at", "key", "gen", "limit", "used", "victims", "skipHot", "job"}
  BY <1>1 DEF WorkRecord
<1>7. CASE x.job = "repair"
  <2>1. work'[w] = IF rest = <<>> THEN [next EXCEPT !.at = "evict", !.job = "open"] ELSE next
    BY <1>7 DEF DeleteRow, Goes, Shaped
  <2>2. next.at = "delete" /\ next.job = "repair" /\ DOMAIN next = DOMAIN x
    BY <1>1, <1>6, <1>7
  <2> HIDE DEF next, rest
  <2>3. [next EXCEPT !.at = "evict", !.job = "open"].at = "evict"
    BY <1>6, <2>2
  <2>4. Due(w)'
    BY <2>1, <2>2, <2>3 DEF Due
  <2> QED
    BY <2>4, BoundedMover
<1>8. CASE x.job # "repair" /\ ~Covers(w)
  <2>1. ~Due(w)
    BY <1>1, <1>8 DEF Due
  <2> QED
    BY <1>2, <1>3, <1>4, <1>8, <2>1, BoundedStays
<1>9. CASE Covers(w)
  <2> DEFINE V == Range(x.victims)
             R == Rows
             Q == Rows'
  <2>1. /\ x.job \in PassJobs /\ x.limit = budget_bytes /\ x.used \in Int /\ budget_bytes \in Nat
        /\ Weighed(Size, R) /\ Weighed(Size, V) /\ Size[k] \in Nat
    BY <1>1, <1>5, <1>9, RowsWeighed, LostWeighed, CacheAssumption DEF Covers, Shaped, WorkRecord
  <2>2. Total + SumFunctionOnSet(Size, V \ R) <= x.used
    <3>1. Lost(w) = V \ R
      BY <1>1 DEF Lost
    <3> QED
      BY <1>9, <3>1, Zenon DEF Covers
  <2>3. SumFunctionOnSet(Size, R) + SumFunctionOnSet(Size, V \ R) <= x.used
    BY <2>2 DEF Total
  <2> HIDE DEF R, V, Q, x, k, rest, next
  <2>4. SumFunctionOnSet(Size, R \ {k}) + SumFunctionOnSet(Size, (V \ {k}) \ (R \ {k})) <= left
    BY <1>5, <2>1, <2>3, SumTakenOff DEF V
  <2>5. Q = R \ {k} /\ Range(rest) = V \ {k} /\ Range(rest) \ Q = (V \ {k}) \ (R \ {k})
    BY <1>3, <1>5 DEF Q, R, V
  <2>6. Total' = SumFunctionOnSet(Size, R \ {k})
    BY <2>5, Zenon DEF Total, Q
  <2>7. SumFunctionOnSet(Size, Range(rest) \ Q) = SumFunctionOnSet(Size, (V \ {k}) \ (R \ {k}))
    BY <2>5, Zenon
  <2>8. Weighed(Size, Q) /\ Weighed(Size, Range(rest) \ Q)
    BY <2>1, <2>5, FewerWeighed
  <2> DEFINE t == Total'
             s == SumFunctionOnSet(Size, Range(rest) \ Q)
  <2>9. t \in Nat /\ s \in Nat
    BY <2>8, SumType DEF Total, Q
  <2>10. left \in Int
    BY <2>1
  <2>11. t + s <= left
    BY <2>4, <2>6, <2>7
  <2> HIDE DEF t, s
  <2>12. x.job # "clear" /\ x.job # "repair"
    BY <2>1 DEF PassJobs
  <2>13. CASE left <= x.limit
    <3> HIDE DEF left
    <3>1. t <= budget_bytes'
      BY <1>2, <2>1, <2>9, <2>10, <2>11, <2>13
    <3>2. WithinBudget'
      BY <3>1 DEF WithinBudget, t
    <3> QED
      BY <3>2, BoundedMover
  <2>14. CASE ~(left <= x.limit)
    <3>1. work'[w] = [next EXCEPT !.used = left, !.at = IF rest = <<>> THEN "select" ELSE "unlink"]
      BY <2>12, <2>14 DEF DeleteRow, Goes, Shaped, next, rest, x, k
    <3> HIDE DEF left
    <3>2. /\ next.job = x.job /\ next.limit = x.limit /\ next.victims = rest /\ DOMAIN next = DOMAIN x
      BY <1>6 DEF next
    <3>3. /\ work'[w].job = x.job /\ work'[w].limit = x.limit /\ work'[w].victims = rest
          /\ work'[w].used = left /\ work'[w].at = IF rest = <<>> THEN "select" ELSE "unlink"
      BY <1>6, <3>1, <3>2
    <3>4. Lost(w)' = IF rest = <<>> THEN {} ELSE Range(rest) \ Q
      BY <3>3 DEF Lost, Q
    <3>5. SumFunctionOnSet(Size, {}) = 0
      BY FS_EmptySet, SumType DEF Weighed
    <3>6. CASE rest = <<>>
      <4>1. SumFunctionOnSet(Size, Lost(w)') = 0
        BY <3>4, <3>5, <3>6, Zenon
      <4>2. Total' + SumFunctionOnSet(Size, Lost(w)') <= work'[w].used
        BY <2>9, <2>10, <2>11, <3>3, <4>1 DEF t
      <4>3. Covers(w)'
        BY <1>2, <2>1, <3>3, <3>6, <4>2 DEF Covers
      <4> QED
        BY <4>3, BoundedMover
    <3>7. CASE rest # <<>>
      <4>1. SumFunctionOnSet(Size, Lost(w)') = s
        BY <3>4, <3>7, Zenon DEF s
      <4>2. Total' + SumFunctionOnSet(Size, Lost(w)') <= work'[w].used
        BY <2>11, <3>3, <4>1 DEF t
      <4>3. Covers(w)'
        BY <1>2, <2>1, <3>3, <3>7, <4>2 DEF Covers
      <4> QED
        BY <4>3, BoundedMover
    <3> QED
      BY <3>6, <3>7
  <2> QED
    BY <2>13, <2>14
<1> QED
  BY <1>7, <1>8, <1>9

LEMMA BoundedStep ==
    ASSUME Shaped, Phased, Bounded, NEW w \in Workers, Step(w)
    PROVE  Bounded'
<1> DEFINE x == work[w]
<1>0. x \in WorkRecord /\ Listing /\ phase # "down"
  BY PhasedStep DEF Shaped
<1>1. ASSUME ~(x.at \in {"evict", "used", "select", "unlink", "delete"}), Rows' \subseteq Rows,
             NEW y, work' = [work EXCEPT ![w] = y], budget_bytes' = budget_bytes, faults' = faults
      PROVE  Bounded'
  <2>1. ~Due(w) /\ ~Covers(w)
    BY <1>1 DEF Due, Covers
  <2>2. \A v \in Workers \ {w} : work'[v] = work[v]
    BY <1>1 DEF Shaped
  <2> QED
    BY <1>0, <1>1, <2>1, <2>2, BoundedStays
<1>2. CASE Publish(w)
  <2>1. Rows' = Rows
    BY <1>2 DEF Publish, index, Rows
  <2> QED
    BY <1>1, <1>2, <2>1 DEF Publish, Goes, counters
<1>3. CASE InsertRow(w)
  <2>1. work'[w] = [x EXCEPT !.at = "evict"]
    BY <1>3 DEF InsertRow, Goes, Shaped
  <2>2. work'[w].at = "evict"
    BY <1>0, <2>1 DEF WorkRecord
  <2> QED
    BY <2>2, BoundedMover DEF Due
<1>4. CASE BeginPass(w)
  <2>1. work'[w] = [x EXCEPT !.at = "used", !.limit = budget_bytes] /\ budget_bytes' = budget_bytes
    BY <1>4 DEF BeginPass, Goes, Shaped
  <2>2. work'[w].at = "used" /\ work'[w].limit = budget_bytes
    BY <1>0, <2>1 DEF WorkRecord
  <2> QED
    BY <2>1, <2>2, BoundedMover DEF Due
<1>5. CASE Hit(w)
  <2>1. Rows' = Rows
    BY <1>5 DEF Hit, Rows
  <2> QED
    BY <1>1, <1>5, <2>1 DEF Hit, Goes, counters
<1>6. CASE Miss(w)
  <2>1. Rows' = Rows
    BY <1>6 DEF Miss, Rows, index
  <2> QED
    BY <1>1, <1>6, <2>1 DEF Miss, Goes, counters
<1>7. CASE DropRow(w)
  <2>1. Rows' \subseteq Rows
    BY <1>0, <1>7, RowDeleted DEF DropRow
  <2> QED
    BY <1>1, <1>7, <2>1 DEF DropRow, Goes, counters
<1>8. CASE Share(w)
  <2>1. Rows' = Rows
    BY <1>8 DEF Share, Rows, index
  <2> QED
    BY <1>1, <1>8, <2>1 DEF Share, Goes, counters
<1> QED
  BY <1>2, <1>3, <1>4, <1>5, <1>6, <1>7, <1>8, BoundedReadUsed, BoundedSelect, BoundedUnlink, BoundedDelete
     DEF Step

LEMMA BoundedNext ==
    ASSUME Shaped, Phased, Bounded, [ArtifactNext]_artifactVars
    PROVE  Bounded'
<1>1. ASSUME NEW w \in Workers, StatementFails(w) PROVE Bounded'
  <2>1. faults \in Nat /\ faults' = faults + 1
    BY <1>1 DEF StatementFails, Shaped
  <2>2. faults' # 0
    BY <2>1
  <2> QED
    BY <2>2 DEF Bounded
<1>2. ASSUME NEW w \in Workers, May(w), NEW y, work' = [work EXCEPT ![w] = y], row' = row,
             budget_bytes' = budget_bytes, faults' = faults
      PROVE  Bounded'
  <2>1. ~Due(w) /\ ~Covers(w) /\ phase # "down"
    BY <1>2 DEF May, Due, Covers, Idle
  <2>2. \A v \in Workers \ {w} : work'[v] = work[v]
    BY <1>2 DEF Shaped
  <2>3. Rows' = Rows
    BY <1>2 DEF Rows
  <2> QED
    BY <1>2, <2>1, <2>2, <2>3, BoundedStays
<1>3. ASSUME NEW w \in Workers, Clear(w) PROVE Bounded'
  BY <1>2, <1>3 DEF Clear, Goes, index
<1>4. ASSUME NEW w \in Workers, NEW k \in ArtifactKeys, BeginCommit(w, k) PROVE Bounded'
  BY <1>2, <1>4 DEF BeginCommit, Goes, index
<1>5. ASSUME NEW w \in Workers, NEW k \in ArtifactKeys, lookup(w, k) PROVE Bounded'
  BY <1>2, <1>5 DEF lookup, Goes, index, counters
<1>6. ASSUME NEW w \in Workers, NEW b \in ByteBudgets, Resize(w, b) PROVE Bounded'
  <2>1. work'[w] = [Idle EXCEPT !.at = "evict", !.job = "resize"]
    BY <1>6 DEF Resize, Goes, Shaped
  <2>2. work'[w].at = "evict"
    BY <2>1 DEF Idle
  <2> QED
    BY <2>2, BoundedMover DEF Due
<1>7. ASSUME NEW w \in Workers, Open(w) PROVE Bounded'
  <2> DEFINE orphans == SetToSeq(Rows \ {k \in Rows : file[k] # 0})
             repair == [Idle EXCEPT !.at = "delete", !.victims = orphans, !.job = "repair"]
             pass == [Idle EXCEPT !.at = "evict", !.job = "open"]
  <2>1. work' = [work EXCEPT ![w] = IF orphans = <<>> THEN pass ELSE repair]
    BY <1>7 DEF Open, Goes
  <2> HIDE DEF orphans
  <2>2. pass.at = "evict" /\ repair.at = "delete" /\ repair.job = "repair"
    BY DEF Idle
  <2> HIDE DEF pass, repair
  <2>3. work'[w] \in {pass, repair}
    BY <2>1 DEF Shaped
  <2>4. Due(w)'
    BY <2>2, <2>3 DEF Due
  <2> QED
    BY <2>4, BoundedMover
<1>8. CASE Crash
  BY <1>8 DEF Crash, Bounded
<1>9. CASE UNCHANGED artifactVars
  <2>1. Rows' = Rows /\ work' = work /\ budget_bytes' = budget_bytes /\ phase' = phase /\ faults' = faults
    BY <1>9 DEF artifactVars, index, counters, Rows
  <2>2. \A w \in Workers : Covers(w) => Covers(w)'
    BY <2>1, CoversStays
  <2>3. \A w \in Workers : Due(w) => Due(w)'
    BY <2>1 DEF Due
  <2>4. Total' = Total
    BY <2>1, Zenon DEF Total
  <2>5. WithinBudget => WithinBudget'
    BY <2>1, <2>4 DEF WithinBudget
  <2> QED
    BY <2>1, <2>2, <2>3, <2>5 DEF Bounded
<1> QED
  BY <1>1, <1>3, <1>4, <1>5, <1>6, <1>7, <1>8, <1>9, BoundedStep DEF ArtifactNext

LEMMA BoundedInit == ArtifactInit => Bounded /\ Phased
<1> SUFFICES ASSUME ArtifactInit PROVE Bounded /\ Phased
  OBVIOUS
<1>1. Rows = {}
  BY DEF ArtifactInit, Rows
<1>2. WithinBudget
  BY <1>1 DEF WithinBudget
<1> QED
  BY <1>2 DEF Bounded, Phased, ArtifactInit

(* evict: whoever is at work, the budget holds again when they have ended. *)
LEMMA BoundedAtRest == Shaped /\ Bounded => BudgetAtRest
<1> SUFFICES ASSUME Shaped, Bounded, AtRest, faults = 0
             PROVE  Total <= budget_bytes \/ Cardinality(Rows) = 1
  BY DEF BudgetAtRest
<1>1. \A w \in Workers : ~Due(w) /\ ~Covers(w)
  BY DEF AtRest, Due, Covers, Idle
<1>2. WithinBudget
  BY <1>1 DEF Bounded, AtRest
<1>3. CASE \E k : Rows \subseteq {k}
  <2>1. PICK k : Rows \subseteq {k}
    BY <1>3
  <2>2. CASE Rows = {}
    <3>1. Total = 0
      BY <2>2, RowsWeighed, SumType DEF Total, Shaped
    <3> QED
      BY <3>1 DEF Shaped
  <2>3. CASE Rows # {}
    <3>1. Rows = {k}
      BY <2>1, <2>3
    <3> QED
      BY <3>1, FS_Singleton
  <2> QED
    BY <2>2, <2>3
<1> QED
  BY <1>2, <1>3 DEF WithinBudget

(* evict: however passes, commits, hits, clears, resizes and crashes come  *)
(* together, once nobody is at work the artifacts that are left are within *)
(* the budget, or one is left that is larger than all of it.               *)
THEOREM BudgetHolds == ArtifactSpec => []BudgetAtRest
<1>1. ArtifactInit => Shaped /\ Phased /\ Bounded
  BY ShapedInit, BoundedInit
<1>2. Shaped /\ Phased /\ Bounded /\ [ArtifactNext]_artifactVars => (Shaped /\ Phased /\ Bounded)'
  BY ShapedNext, PhasedNext, BoundedNext
<1>3. Shaped /\ Phased /\ Bounded => BudgetAtRest
  BY BoundedAtRest
<1> QED
  BY <1>1, <1>2, <1>3, PTL DEF ArtifactSpec

(* commit and publish: however commits, evictions, clears, hits and        *)
(* crashes come together, a row describes the bytes that are under its     *)
(* name, unless the last publish of its key came between those of others   *)
(* or never got as far as its row.                                         *)
THEOREM RowsStayTrue == ArtifactSpec => []RowsAreTrue
<1>1. ArtifactInit => Shaped /\ Phased /\ Described
  BY ShapedInit, BoundedInit, DescribedInit
<1>2. Shaped /\ Phased /\ Described /\ [ArtifactNext]_artifactVars => (Shaped /\ Phased /\ Described)'
  BY ShapedNext, PhasedNext, DescribedNext DEF Phased
<1>3. Described => RowDescribesFile
  <2>1. AtRest => \A k \in ArtifactKeys : Published(k) = {}
    BY DEF AtRest, Published, Idle
  <2> QED
    BY <2>1 DEF Described, DescribedKey, RowDescribesFile
<1>4. ArtifactSpec => []RowDescribesFile
  BY <1>1, <1>2, <1>3, PTL DEF ArtifactSpec
<1>5. RowsAreTrue <=> BudgetAtRest /\ RowDescribesFile
  BY DEF RowsAreTrue
<1> QED
  BY <1>4, <1>5, BudgetHolds, PTL

(* Nothing is there without a row but what is too new to be debris.        *)
Tidy ==
    \A k \in ArtifactKeys :
      /\ file[k] # 0 => row[k] # 0 \/ <<"file", k>> \in young
      /\ k \in shares => row[k] # 0 \/ <<"share", k>> \in young

(* The keys whose row a worker is about to delete, their file being gone.  *)
Missing(w) ==
    IF work[w].at # "delete" THEN {}
    ELSE IF work[w].job = "repair" THEN Range(work[w].victims)
    ELSE {Head(work[w].victims)}

Rowless(w) ==
    \A k \in ArtifactKeys :
      /\ row[k] # 0 /\ file[k] = 0 => k \in Missing(w)
      /\ k \in Missing(w) => file[k] = 0

(* While the cache opens, the rows without a file are those that the one   *)
(* worker is going to delete.                                              *)
Reconciling ==
    phase = "opening" => Tidy /\ \A w \in Workers : work[w] # Idle => Rowless(w)

Reconciled ==
    \A k \in ArtifactKeys :
      /\ row[k] # 0 => file[k] # 0
      /\ file[k] # 0 => row[k] # 0 \/ <<"file", k>> \in young
      /\ k \in shares => row[k] # 0 \/ <<"share", k>> \in young

LEMMA ReconcilingMove ==
    ASSUME Shaped, Phased, phase = "opening", NEW w \in Workers, work[w] # Idle, NEW y,
           work' = [work EXCEPT ![w] = y], Tidy', Rowless(w)',
           phase' = "up" => y.at # "delete"
    PROVE  Reconciling' /\ (phase' = "up" => Reconciled')
<1>1. work'[w] = y /\ \A v \in Workers \ {w} : work'[v] = Idle
  BY DEF Shaped, Phased
<1>2. Reconciling'
  BY <1>1 DEF Reconciling
<1>3. phase' = "up" => Missing(w)' = {}
  BY <1>1 DEF Missing
<1>4. phase' = "up" => Reconciled'
  BY <1>3 DEF Tidy, Rowless, Reconciled
<1> QED
  BY <1>2, <1>4

LEMMA ReconcilingQuiet ==
    ASSUME Shaped, Phased, Reconciling, phase = "opening", NEW w \in Workers, work[w] # Idle, NEW y,
           work' = [work EXCEPT ![w] = y], work[w].at # "delete", y.at # "delete",
           UNCHANGED <<disk, row>>
    PROVE  Reconciling' /\ (phase' = "up" => Reconciled')
<1>1. work'[w] = y
  BY DEF Shaped
<1>2. Missing(w) = {} /\ Missing(w)' = {}
  BY <1>1 DEF Missing
<1>3. Rowless(w)' /\ Tidy'
  BY <1>2 DEF Reconciling, Rowless, Tidy, disk
<1> QED
  BY <1>3, ReconcilingMove

LEMMA ReconcilingUnlink ==
    ASSUME Shaped, Phased, Reconciling, phase = "opening", NEW w \in Workers, Unlink(w)
    PROVE  Reconciling' /\ (phase' = "up" => Reconciled')
<1> DEFINE x == work[w]
           h == Head(x.victims)
           y == [x EXCEPT !.at = "delete"]
<1>1. work[w] # Idle
  BY PhasedStep DEF Step
<1>2. x \in WorkRecord /\ x.at = "unlink" /\ x.job \in PassJobs \cup {"clear"} /\ file \in [ArtifactKeys -> Nat]
  BY DEF Shaped, Sound, Unlink
<1>3. x.job # "repair"
  BY <1>2 DEF PassJobs
<1>4. y.at = "delete" /\ y.job = x.job /\ y.victims = x.victims
  BY <1>2 DEF WorkRecord
<1>5. /\ row' = row /\ shares' = shares /\ file' = [file EXCEPT ![h] = 0] /\ young' = young \ {<<"file", h>>}
      /\ work' = [work EXCEPT ![w] = y] /\ phase' = phase
  BY DEF Unlink, Goes, index
<1>6. work'[w] = y
  BY <1>5 DEF Shaped
<1>7. Missing(w) = {} /\ Missing(w)' = {h}
  BY <1>2, <1>3, <1>4, <1>6 DEF Missing
<1>8. Tidy /\ Rowless(w)
  BY <1>1 DEF Reconciling
<1> HIDE DEF y, h, x
<1>9. \A k \in ArtifactKeys : k # h => file'[k] = file[k]
  BY <1>2, <1>5
<1>10. \A k \in ArtifactKeys : k = h => file'[k] = 0
  BY <1>2, <1>5
<1>11. Rowless(w)'
  BY <1>5, <1>7, <1>8, <1>9, <1>10 DEF Rowless
<1>12. \A k \in ArtifactKeys : /\ k # h /\ <<"file", k>> \in young => <<"file", k>> \in young'
                               /\ <<"share", k>> \in young => <<"share", k>> \in young'
  BY <1>5
<1>13. Tidy'
  BY <1>5, <1>8, <1>9, <1>10, <1>12 DEF Tidy
<1> QED
  BY <1>1, <1>5, <1>11, <1>13, ReconcilingMove

LEMMA ReconcilingDelete ==
    ASSUME Shaped, Phased, Reconciling, phase = "opening", NEW w \in Workers, DeleteRow(w)
    PROVE  Reconciling' /\ (phase' = "up" => Reconciled')
<1> DEFINE x == work[w]
           h == Head(x.victims)
           rest == Tail(x.victims)
           left == x.used - Size[h]
           next == [x EXCEPT !.victims = rest]
           y == work'[w]
<1>1. work[w] # Idle
  BY PhasedStep DEF Step
<1>2. /\ x \in WorkRecord /\ x.at = "delete" /\ row \in [ArtifactKeys -> Nat] /\ x.job \in {"open", "repair"}
      /\ x.victims \in Seq(ArtifactKeys) /\ x.victims # <<>> /\ IsInjective(x.victims)
  BY <1>1 DEF Shaped, Sound, DeleteRow, Listing, Phased, WorkRecord
<1>3. /\ h \in ArtifactKeys /\ h \in Range(x.victims) /\ rest \in Seq(ArtifactKeys)
      /\ Range(rest) = Range(x.victims) \ {h}
  BY <1>2, TailOnce
<1>4. DOMAIN x = {"at", "key", "gen", "limit", "used", "victims", "skipHot", "job"}
  BY <1>2 DEF WorkRecord
<1>5. /\ file' = file /\ shares' = shares \ {h} /\ young' = young \ {<<"share", h>>}
      /\ row' = [row EXCEPT ![h] = 0]
  BY DEF DeleteRow, DeleteRowOf
<1>6. Tidy /\ Rowless(w)
  BY <1>1 DEF Reconciling
<1>7. Tidy'
  <2>1. row'[h] = 0 /\ \A k \in ArtifactKeys : k # h => row'[k] = row[k]
    BY <1>2, <1>3, <1>5
  <2>2. \A k \in ArtifactKeys : /\ <<"file", k>> \in young => <<"file", k>> \in young'
                                /\ k # h /\ <<"share", k>> \in young => <<"share", k>> \in young'
    BY <1>5
  <2>3. file[h] = 0
    BY <1>2, <1>3, <1>6 DEF Rowless, Missing
  <2> HIDE DEF h
  <2> QED
    BY <1>5, <1>6, <2>1, <2>2, <2>3 DEF Tidy
<1>8. /\ row'[h] = 0 /\ \A k \in ArtifactKeys : k # h => row'[k] = row[k]
  BY <1>2, <1>3, <1>5
<1>9. CASE x.job = "open"
  <2>1. Missing(w) = {h}
    BY <1>2, <1>9 DEF Missing
  <2>2. \/ y = [next EXCEPT !.used = left, !.at = IF rest = <<>> THEN "select" ELSE "unlink"]
        \/ y = Idle
    BY <1>9 DEF DeleteRow, Goes, Ends, Shaped
  <2>3. work' = [work EXCEPT ![w] = y]
    BY <1>9 DEF DeleteRow, Goes, Ends, Shaped
  <2> HIDE DEF left, rest
  <2>4. DOMAIN next = DOMAIN x
    OBVIOUS
  <2> HIDE DEF next
  <2>5. y.at # "delete"
    <3>1. [next EXCEPT !.used = left, !.at = IF rest = <<>> THEN "select" ELSE "unlink"].at
            \in {"select", "unlink"}
      BY <1>4, <2>4
    <3>2. Idle.at = "idle"
      BY DEF Idle
    <3> HIDE DEF y
    <3> QED
      BY <2>2, <3>1, <3>2
  <2>6. Missing(w)' = {}
    BY <2>5 DEF Missing
  <2> HIDE DEF x, y, h
  <2>7. Rowless(w)'
    BY <1>5, <1>6, <1>8, <2>1, <2>6 DEF Rowless
  <2> QED
    BY <1>1, <1>7, <2>3, <2>5, <2>7, ReconcilingMove
<1>10. CASE x.job = "repair"
  <2>1. Missing(w) = Range(x.victims)
    BY <1>2, <1>10 DEF Missing
  <2>2. y = IF rest = <<>> THEN [next EXCEPT !.at = "evict", !.job = "open"] ELSE next
    BY <1>10 DEF DeleteRow, Goes, Shaped
  <2>3. work' = [work EXCEPT ![w] = y] /\ phase' = phase
    BY <1>10 DEF DeleteRow, Goes, Shaped
  <2>4. next.at = "delete" /\ next.job = "repair" /\ next.victims = rest /\ DOMAIN next = DOMAIN x
    BY <1>2, <1>4, <1>10
  <2> HIDE DEF next
  <2>5. [next EXCEPT !.at = "evict", !.job = "open"].at = "evict"
    BY <1>4, <2>4
  <2>6. Missing(w)' = Range(x.victims) \ {h}
    <3>1. CASE rest = <<>>
      <4>1. Missing(w)' = {}
        BY <2>2, <2>5, <3>1 DEF Missing
      <4>2. \A s : s = <<>> => Range(s) = {}
        BY DEF Range
      <4>3. Range(rest) = {}
        BY <3>1, <4>2
      <4> HIDE DEF rest, x, h
      <4> QED
        BY <1>3, <4>1, <4>3
    <3>2. CASE rest # <<>>
      <4>1. Missing(w)' = Range(rest)
        BY <2>2, <2>4, <3>2 DEF Missing
      <4> HIDE DEF rest, x, h
      <4> QED
        BY <1>3, <4>1
    <3> QED
      BY <3>1, <3>2
  <2> HIDE DEF x, y, h
  <2>7. Rowless(w)'
    BY <1>5, <1>6, <1>8, <2>1, <2>6 DEF Rowless
  <2>8. phase' # "up"
    BY <2>3
  <2> QED
    BY <1>1, <1>7, <2>3, <2>7, <2>8, ReconcilingMove
<1> QED
  BY <1>2, <1>9, <1>10

LEMMA ReconcilingStep ==
    ASSUME Shaped, Phased, Reconciling, phase = "opening", NEW w \in Workers, Step(w)
    PROVE  Reconciling' /\ (phase' = "up" => Reconciled')
<1> DEFINE x == work[w]
<1>0. x \in WorkRecord /\ work[w] # Idle /\ x.job \in {"open", "repair"} /\ Sound(x)
  BY PhasedStep DEF Shaped, Phased
<1>1. x.at \notin {"publish", "insert", "stat", "drop", "share"}
  BY <1>0 DEF Sound
<1>2. CASE BeginPass(w)
  <2>1. [x EXCEPT !.at = "used", !.limit = budget_bytes].at # "delete" /\ x.at = "evict"
    BY <1>0, <1>2 DEF WorkRecord, BeginPass
  <2>2. work' = [work EXCEPT ![w] = [x EXCEPT !.at = "used", !.limit = budget_bytes]] /\ UNCHANGED <<disk, row>>
    BY <1>2 DEF BeginPass, Goes, index
  <2> HIDE DEF x
  <2>3. work[w].at # "delete"
    BY <2>1 DEF x
  <2> QED
    BY <1>0, <2>1, <2>2, <2>3, ReconcilingQuiet
<1>3. CASE ReadUsed(w)
  <2>1. [x EXCEPT !.at = "select", !.used = Total].at # "delete" /\ x.at = "used" /\ Idle.at # "delete"
    BY <1>0, <1>3 DEF WorkRecord, ReadUsed, Idle
  <2>2. /\ \/ work' = [work EXCEPT ![w] = [x EXCEPT !.at = "select", !.used = Total]]
           \/ work' = [work EXCEPT ![w] = Idle]
        /\ UNCHANGED <<disk, row>>
    BY <1>3 DEF ReadUsed, Goes, Ends, index
  <2> HIDE DEF x
  <2>3. work[w].at # "delete"
    BY <2>1 DEF x
  <2> QED
    BY <1>0, <2>1, <2>2, <2>3, ReconcilingQuiet
<1>4. CASE Select(w)
  <2>1. PICK hot :
          LET victims == Candidates(w, hot)
          IN CASE victims # <<>> ->
                    Goes(w, [work[w] EXCEPT !.at = "unlink", !.victims = victims])
               [] victims = <<>> /\ work[w].skipHot ->
                    Goes(w, [work[w] EXCEPT !.skipHot = FALSE])
               [] OTHER -> Ends(w)
    BY <1>4 DEF Select
  <2> DEFINE v == Candidates(w, hot)
  <2>2. \/ work' = [work EXCEPT ![w] = [x EXCEPT !.at = "unlink", !.victims = v]]
        \/ work' = [work EXCEPT ![w] = [x EXCEPT !.skipHot = FALSE]]
        \/ work' = [work EXCEPT ![w] = Idle]
    BY <2>1 DEF Goes, Ends
  <2> HIDE DEF v
  <2>3. /\ [x EXCEPT !.at = "unlink", !.victims = v].at # "delete" /\ Idle.at # "delete"
        /\ [x EXCEPT !.skipHot = FALSE].at # "delete" /\ x.at = "select"
    BY <1>0, <1>4 DEF WorkRecord, Idle, Select
  <2>4. UNCHANGED <<disk, row>>
    BY <1>4 DEF Select, index
  <2> HIDE DEF x
  <2>5. work[w].at # "delete"
    BY <2>3 DEF x
  <2> QED
    BY <1>0, <2>2, <2>3, <2>4, <2>5, ReconcilingQuiet
<1> QED
  BY <1>1, <1>2, <1>3, <1>4, ReconcilingUnlink, ReconcilingDelete
     DEF Step, Publish, InsertRow, Hit, Miss, DropRow, Share

LEMMA ReconcilingOpen ==
    ASSUME Shaped, Phased, NEW w \in Workers, Open(w)
    PROVE  Reconciling'
<1> DEFINE live == {k \in Rows : file[k] # 0}
           orphans == SetToSeq(Rows \ live)
           repair == [Idle EXCEPT !.at = "delete", !.victims = orphans, !.job = "repair"]
           pass == [Idle EXCEPT !.at = "evict", !.job = "open"]
<1>1. Range(orphans) = Rows \ live
  <2>1. Rows \ live \in SUBSET ArtifactKeys /\ Rows \ live \subseteq Rows
    BY DEF Rows
  <2>2. IsFiniteSet(Rows)
    BY RowsWeighed DEF Weighed, Shaped
  <2>3. IsFiniteSet(Rows \ live)
    BY <2>1, <2>2, FS_Subset
  <2> HIDE DEF live
  <2> QED
    BY <2>1, <2>3, Enumerated
<1>2. /\ work' = [work EXCEPT ![w] = IF orphans = <<>> THEN pass ELSE repair]
      /\ file' = [k \in ArtifactKeys |-> IF k \in live \/ <<"file", k>> \in young THEN file[k] ELSE 0]
      /\ shares' = {k \in shares : k \in live \/ <<"share", k>> \in young}
      /\ row' = row /\ young' = young
  BY DEF Open, Goes, index
<1> HIDE DEF orphans
<1>3. pass.at = "evict" /\ repair.at = "delete" /\ repair.job = "repair" /\ repair.victims = orphans
  BY DEF Idle
<1> HIDE DEF pass, repair
<1>4. work'[w] = (IF orphans = <<>> THEN pass ELSE repair) /\ \A v \in Workers \ {w} : work'[v] = Idle
  BY <1>2 DEF Shaped, Phased, Open
<1>5. Missing(w)' = Range(orphans)
  <2>1. \A s : s = <<>> => Range(s) = {}
    BY DEF Range
  <2>2. CASE orphans = <<>>
    BY <1>3, <1>4, <2>1, <2>2 DEF Missing
  <2>3. CASE orphans # <<>>
    BY <1>3, <1>4, <2>3 DEF Missing
  <2> QED
    BY <2>2, <2>3
<1>6. Tidy'
  BY <1>2 DEF Tidy, Rows
<1>7. Rowless(w)'
  BY <1>1, <1>2, <1>5 DEF Rowless, Rows
<1> QED
  BY <1>4, <1>6, <1>7 DEF Reconciling

LEMMA ReconcilingNext ==
    ASSUME Shaped, Phased, Reconciling, [ArtifactNext]_artifactVars
    PROVE  Reconciling' /\ (phase = "opening" /\ phase' = "up" => Reconciled')
<1> DEFINE Goal == Reconciling' /\ (phase = "opening" /\ phase' = "up" => Reconciled')
<1>0. ASSUME phase # "opening", phase' # "opening" PROVE Goal
  BY <1>0 DEF Reconciling
<1>1. ASSUME NEW w \in Workers, Step(w) PROVE Goal
  <2>1. CASE phase = "opening"
    BY <1>1, <2>1, ReconcilingStep
  <2>2. CASE phase # "opening"
    <3>1. phase' \in {phase, "up"}
      BY <1>1 DEF Step, Publish, InsertRow, BeginPass, ReadUsed, Select, Unlink, DeleteRow, Hit, Miss,
                  DropRow, Share, Ends
    <3> QED
      BY <1>0, <2>2, <3>1
  <2> QED
    BY <2>1, <2>2
<1>2. ASSUME NEW w \in Workers, StatementFails(w) PROVE Goal
  BY <1>0, <1>2 DEF StatementFails, Reconciling
<1>3. ASSUME NEW w \in Workers, Clear(w) PROVE Goal
  BY <1>0, <1>3 DEF Clear, May
<1>4. ASSUME NEW w \in Workers, NEW k \in ArtifactKeys, BeginCommit(w, k) PROVE Goal
  BY <1>0, <1>4 DEF BeginCommit, May
<1>5. ASSUME NEW w \in Workers, NEW k \in ArtifactKeys, lookup(w, k) PROVE Goal
  BY <1>0, <1>5 DEF lookup, May
<1>6. ASSUME NEW w \in Workers, NEW b \in ByteBudgets, Resize(w, b) PROVE Goal
  BY <1>0, <1>6 DEF Resize, May
<1>7. ASSUME NEW w \in Workers, Open(w) PROVE Goal
  BY <1>7, ReconcilingOpen DEF Open
<1>8. CASE Crash
  BY <1>8 DEF Crash, Reconciling
<1>9. CASE UNCHANGED artifactVars
  BY <1>9 DEF artifactVars, disk, index, Reconciling, Tidy, Rowless, Missing
<1> QED
  BY <1>1, <1>2, <1>3, <1>4, <1>5, <1>6, <1>7, <1>8, <1>9 DEF ArtifactNext

(* reconcile: wherever the last process ended, a cache that has opened has *)
(* a file for every row and nothing old that no row claims.                *)
THEOREM OpensReconciled == ArtifactSpec => OpenReconciles
<1> DEFINE Inv == Shaped /\ Phased /\ Reconciling
<1>1. ArtifactInit => Inv
  BY ShapedInit, BoundedInit DEF Reconciling, ArtifactInit
<1>2. Inv /\ [ArtifactNext]_artifactVars => Inv'
  BY ShapedNext, PhasedNext, ReconcilingNext
<1>3. Inv /\ [ArtifactNext]_artifactVars
        => [phase = "opening" /\ phase' = "up" =>
              \A k \in ArtifactKeys :
                /\ row'[k] # 0 => file'[k] # 0
                /\ file'[k] # 0 => row'[k] # 0 \/ <<"file", k>> \in young'
                /\ k \in shares' => row'[k] # 0 \/ <<"share", k>> \in young']_artifactVars
  BY ReconcilingNext DEF Reconciled
<1> HIDE DEF Inv
<1> QED
  BY <1>1, <1>2, <1>3, PTL DEF ArtifactSpec, OpenReconciles
=============================================================================
