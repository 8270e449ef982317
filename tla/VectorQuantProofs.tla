-------------------------- MODULE VectorQuantProofs --------------------------
(***************************************************************************)
(* Whatever is committed, rebuilt, interrupted, restarted or deleted, for  *)
(* any vectors, setters and bounds: a ready pair of the active profile     *)
(* covers every vector of its setter, a revision names one scale, and no   *)
(* quant is ahead of its pair.                                             *)
(*                                                                         *)
(* The argument is about one database and one transaction at a time.  The  *)
(* one thing it needs from the jobs is that quants are only deleted while  *)
(* the active profile, if there is one, has no pair in use: the plan that  *)
(* deletes follows a sync that took the profile away, whoever brings it    *)
(* back starts from pending pairs, and nobody builds while a job deletes   *)
(* or its last message is still in the mailbox.                            *)
(***************************************************************************)
EXTENDS VectorQuant, FiniteSetTheorems, WellFoundedInduction, TLAPS

(* A pair that is in use has a scale, and a revision of its own.           *)
PairOk(p) ==
    /\ p \in Pair
    /\ p.state = "absent" => p = Absent
    /\ p.state \in {"building", "ready"} => p.scale # 0
    /\ p.scale # 0 => p.rev # 0

(* A quant next to its pair.                                               *)
QuantOk(q, p) ==
    /\ q \in Quant
    /\ q.rev = 0 <=> q.scale = 0
    /\ q.rev <= p.rev
    /\ p.scale # 0 /\ q.rev = p.rev => q.scale = p.scale

DbInv(d) ==
    /\ d \in Database
    /\ \A s \in Setters : PairOk(d.pairs[s])
    /\ \A v \in Vectors : /\ QuantOk(d.quants[v], d.pairs[SetterOf[v]])
                          /\ v \notin d.vectors => d.quants[v] = NoQuant
    /\ d.profile = "absent" => d.pairs = NoPairs
    /\ d.profile = "active" =>
        \A v \in d.vectors : d.pairs[SetterOf[v]].state = "ready" =>
            d.quants[v] = QuantOf(d.pairs[SetterOf[v]])

(* No pair of the profile is in use, so its quants may go.                 *)
Unserved(d) ==
    d.profile = "active" => \A s \in Setters : d.pairs[s].state \in {"absent", "pending"}

Wants == {"wanted", "unwanted"}
Build == [space : SUBSET Setters, dim : Nat, resume : BOOLEAN]
Job == [kind : {"none", "batch", "reconcile"},
        at : {"none", "working", "embed", "load", "sync", "plan", "delete", "drop", "builds",
              "scale", "start", "chunk", "finish", "done"},
        want : Wants, pass : Nat, changed : BOOLEAN, todo : SUBSET Build, build : Build,
        left : SUBSET Setters, cursor : Nat, failed : BOOLEAN]

JobOk(j, d) ==
    /\ j \in Job
    /\ j.at \in {"scale", "start", "chunk", "finish"} => j.build.space # {}
    /\ j.at \in {"start", "embed"} => j.cursor \in Vectors
    /\ j.at = "chunk" => j.left # {}
    /\ \A b \in j.todo : b.space # {}
    /\ j.at = "delete" \/ (j.at = "plan" /\ j.want = "unwanted") => Unserved(d)

(* Until the message of the cancelled job is executed, the next one gets   *)
(* no further than its first.                                              *)
LateOk ==
    late # None => /\ JobOk(late, db) /\ Writes(late)
                   /\ job.at \in {"none", "working", "embed", "load", "sync", "done"}

IInv ==
    /\ desired \in Wants \cup {"invalid"} /\ queue \subseteq {"batch", "reconcile"}
    /\ DbInv(db) /\ JobOk(job, db) /\ LateOk
    /\ DOMAIN request = Requests
    /\ \A r \in Requests : request[r].at = "sync" => request[r].want \in Wants
-----------------------------------------------------------------------------
(* Numbers                                                                 *)

Below == {ss \in Nat \X Nat : ss[1] < ss[2]}

(* A nonempty set of numbers has a least one.                              *)
LEMMA LeastExists ==
    ASSUME NEW T, T \subseteq Nat, T # {}
    PROVE  \E n \in T : \A m \in T : n <= m
<1>1. IsWellFoundedOn(Below, Nat)
  BY NatLessThanWellFounded DEF OpToRel, Below
<1>2. PICK n \in T : \A m \in T : <<m, n>> \notin Below
  BY <1>1, WFMin
<1>3. \A m \in T : ~(m < n)
  BY <1>2 DEF Below
<1> QED
  BY <1>3

(* A nonempty finite set of numbers has a greatest one: otherwise there is *)
(* a smallest set that has none, and it without one of its numbers has.    *)
LEMMA GreatestExists ==
    ASSUME NEW R, R \subseteq Nat, R # {}, IsFiniteSet(R)
    PROVE  \E n \in R : \A m \in R : m <= n
<1> DEFINE Bounded(S) == \E n \in S : \A m \in S : m <= n
           Bad == {S \in SUBSET R : S # {} /\ ~Bounded(S)}
           T == {Cardinality(S) : S \in Bad}
<1> SUFFICES ASSUME R \in Bad PROVE FALSE
  OBVIOUS
<1>1. \A S \in Bad : IsFiniteSet(S) /\ Cardinality(S) \in Nat
  BY FS_Subset, FS_CardinalityType
<1>2. T \subseteq Nat /\ T # {}
  BY <1>1
<1>3. PICK S \in Bad : \A U \in Bad : Cardinality(S) <= Cardinality(U)
  <2> HIDE DEF Bad
  <2>1. PICK n \in T : \A m \in T : n <= m
    BY <1>2, LeastExists
  <2> QED
    BY <2>1
<1>4. PICK x \in S : TRUE
  OBVIOUS
<1>5. IsFiniteSet(S \ {x}) /\ Cardinality(S \ {x}) = Cardinality(S) - 1
  BY <1>1, <1>4, FS_RemoveElement
<1>6. S \ {x} \notin Bad
  <2> HIDE DEF Bad
  <2>1. ~(Cardinality(S) <= Cardinality(S \ {x}))
    BY <1>1, <1>5
  <2> QED
    BY <1>3, <2>1
<1>7. CASE S \ {x} = {}
  BY <1>3, <1>4, <1>7
<1>8. CASE S \ {x} # {}
  <2>1. PICK y \in S \ {x} : \A m \in S \ {x} : m <= y
    BY <1>6, <1>8
  <2>2. CASE x <= y
    BY <1>3, <2>1, <2>2
  <2>3. CASE ~(x <= y)
    <3>1. x \in Nat /\ S \subseteq Nat
      BY <1>3
    <3>2. \A m \in S : m <= x
      BY <2>1, <2>3, <3>1
    <3> QED
      BY <1>3, <1>4, <3>2
  <2> QED
    BY <2>2, <2>3
<1> QED
  BY <1>7, <1>8

(* start_space_build: the new revision is past every pair of the space.    *)
LEMMA NextRevIsNew ==
    ASSUME NEW d, DbInv(d), NEW space \in SUBSET Setters, space # {}
    PROVE  NextRev(d, space) \in Nat /\ \A s \in space : d.pairs[s].rev < NextRev(d, space)
<1> DEFINE R == {d.pairs[s].rev : s \in space}
           max == CHOOSE r \in R : \A s \in space : d.pairs[s].rev <= r
<1>1. IsFiniteSet(R)
  <2> DEFINE f == [s \in space |-> d.pairs[s].rev]
  <2>1. f \in Surjection(space, R)
    BY DEF Surjection
  <2>2. IsFiniteSet(space)
    BY VectorsAssumption, FS_Subset DEF VectorsAssumption
  <2> QED
    BY <2>1, <2>2, FS_Surjection
<1>2. R \subseteq Nat /\ R # {}
  BY DEF DbInv, Database, Pair
<1>3. \E r \in R : \A s \in space : d.pairs[s].rev <= r
  <2> HIDE DEF R
  <2>1. PICK r \in R : \A m \in R : m <= r
    BY <1>1, <1>2, GreatestExists
  <2> QED
    BY <2>1 DEF R
<1>4. max \in R /\ \A s \in space : d.pairs[s].rev <= max
  BY <1>3
<1>5. NextRev(d, space) = 1 + max
  BY DEF NextRev
<1> HIDE DEF max
<1> QED
  BY <1>2, <1>4, <1>5 DEF DbInv, Database, Pair

LEMMA FirstIsFirst ==
    ASSUME NEW rows, rows \subseteq Vectors, rows # {}
    PROVE  First(rows) \in rows
<1>1. \E v \in rows : \A w \in rows : v <= w
  BY LeastExists, VectorsAssumption DEF VectorsAssumption
<1> QED
  BY <1>1 DEF First

-----------------------------------------------------------------------------
(* Transactions                                                            *)

LEMMA NoPairsOk == NoPairs \in [Setters -> Pair] /\ \A s \in Setters : PairOk(NoPairs[s])
BY DEF NoPairs, Absent, Pair, PairOk

(* New pairs and a new profile over the quants there are.                  *)
LEMMA WithPairs ==
    ASSUME NEW d, DbInv(d), NEW e, NEW pairs, NEW profile \in {"absent", "active", "removing"},
           e = [d EXCEPT !.profile = profile, !.pairs = pairs],
           DOMAIN pairs = Setters,
           \A s \in Setters : PairOk(pairs[s]),
           \A v \in Vectors : QuantOk(d.quants[v], pairs[SetterOf[v]]),
           profile = "absent" => pairs = NoPairs,
           pairs = [s \in Setters |-> pairs[s]],
           profile = "active" =>
               \A v \in d.vectors : pairs[SetterOf[v]].state = "ready" =>
                   d.quants[v] = QuantOf(pairs[SetterOf[v]])
    PROVE  DbInv(e)
<1>1. pairs \in [Setters -> Pair]
  BY DEF PairOk
<1>2. /\ e \in Database /\ e.profile = profile /\ e.pairs = pairs
      /\ e.quants = d.quants /\ e.vectors = d.vectors
  BY <1>1 DEF DbInv, Database
<1> QED
  BY <1>2 DEF DbInv

(* A pair that is put back to pending keeps its revision.                  *)
LEMMA PendingOk ==
    ASSUME NEW p, PairOk(p), NEW q \in Pair, q.state = "pending", q.scale = 0, q.rev = p.rev
    PROVE  PairOk(q) /\ \A x : QuantOk(x, p) => QuantOk(x, q)
BY DEF PairOk, QuantOk

LEMMA CoveredOk ==
    ASSUME NEW d, DbInv(d), NEW s \in Setters
    PROVE  /\ PairOk(Covered(d)[s])
           /\ \A x : QuantOk(x, d.pairs[s]) => QuantOk(x, Covered(d)[s])
           /\ d.profile = "active" => Covered(d)[s] = d.pairs[s] \/ Covered(d)[s].state = "pending"
           /\ d.profile # "active" => Covered(d)[s].state \in {"absent", "pending"}
<1> DEFINE c == Covered(d)[s]
           p == d.pairs[s]
<1>1. c = IF p.state = "absent" THEN IF s \in Embedded(d) THEN Pending ELSE Absent
          ELSE IF d.profile = "removing" THEN Reset(p) ELSE p
  BY DEF Covered
<1>2. PairOk(p) /\ p \in Pair
  BY DEF DbInv, PairOk
<1> HIDE DEF c
<1>3. CASE p.state = "absent"
  <2>1. p = Absent /\ c \in {Pending, Absent}
    BY <1>1, <1>2, <1>3 DEF PairOk
  <2>2. Pending = [state |-> "pending", scale |-> 0, rev |-> 0, dim |-> 0]
    BY DEF Pending, Absent
  <2>3. PairOk(Pending) /\ PairOk(Absent) /\ \A x : QuantOk(x, Absent) => QuantOk(x, Pending)
    BY <2>2 DEF PairOk, Pair, Absent, QuantOk
  <2> QED
    BY <2>1, <2>2, <2>3 DEF Absent, c
<1>4. CASE p.state # "absent" /\ d.profile = "removing"
  <2>1. c = [p EXCEPT !.state = "pending", !.scale = 0, !.dim = 0]
    BY <1>1, <1>4 DEF Reset
  <2> QED
    <3>1. c \in Pair /\ c.state = "pending" /\ c.scale = 0 /\ c.rev = p.rev
      BY <1>2, <2>1 DEF Pair
    <3>2. PairOk(c) /\ \A x : QuantOk(x, p) => QuantOk(x, c)
      BY <1>2, <3>1, PendingOk
    <3> QED
      BY <3>1, <3>2, <1>4 DEF c
<1>5. CASE p.state # "absent" /\ d.profile # "removing"
  <2>1. c = p
    BY <1>1, <1>5
  <2>2. d.profile = "active"
    BY <1>5 DEF DbInv, Database, NoPairs, Absent
  <2> QED
    BY <1>2, <2>1, <2>2 DEF c
<1> QED
  BY <1>3, <1>4, <1>5

(* With no profile there are no quants.                                    *)
LEMMA QuantsWithoutPairs ==
    ASSUME NEW d, DbInv(d), d.profile = "absent" \/ ~HasQuants(d), NEW v \in Vectors
    PROVE  d.quants[v] = NoQuant
<1>1. QuantOk(d.quants[v], d.pairs[SetterOf[v]]) /\ (v \notin d.vectors => d.quants[v] = NoQuant)
      /\ SetterOf[v] \in Setters
  BY VectorsAssumption DEF DbInv, VectorsAssumption
<1>2. d.quants[v].rev = 0
  <2>1. CASE d.profile = "absent"
    <3>1. d.pairs[SetterOf[v]].rev = 0
      BY <1>1, <2>1 DEF DbInv, NoPairs, Absent
    <3>2. d.quants[v].rev \in Nat /\ d.quants[v].rev <= 0
      BY <1>1, <3>1 DEF QuantOk, Quant
    <3> QED
      BY <3>2
  <2>2. CASE ~HasQuants(d)
    BY <1>1, <2>2 DEF HasQuants, NoQuant
  <2> QED
    BY <2>1, <2>2
<1> QED
  BY <1>1, <1>2 DEF QuantOk, Quant, NoQuant

LEMMA SyncedInv ==
    ASSUME NEW d, DbInv(d), NEW want
    PROVE  DbInv(Synced(d, want)) /\ (want # "wanted" \/ Unserved(d) => Unserved(Synced(d, want)))
<1> DEFINE e == Synced(d, want)
<1>0. d \in Database
  BY DEF DbInv
<1>1. CASE want = "wanted"
  <2> DEFINE pairs == Covered(d)
  <2>1. e = [d EXCEPT !.profile = "active", !.pairs = pairs]
    BY <1>1 DEF Synced
  <2>2. DOMAIN pairs = Setters /\ pairs = [s \in Setters |-> pairs[s]]
    BY DEF Covered
  <2> HIDE DEF pairs, e
  <2>3. \A s \in Setters : PairOk(pairs[s])
    BY CoveredOk DEF pairs
  <2>4. \A v \in Vectors : QuantOk(d.quants[v], pairs[SetterOf[v]])
    BY CoveredOk, VectorsAssumption DEF pairs, DbInv, VectorsAssumption
  <2>5. \A v \in d.vectors : pairs[SetterOf[v]].state = "ready" =>
            d.quants[v] = QuantOf(pairs[SetterOf[v]])
    <3> SUFFICES ASSUME NEW v \in d.vectors, pairs[SetterOf[v]].state = "ready"
                 PROVE  d.quants[v] = QuantOf(pairs[SetterOf[v]])
      OBVIOUS
    <3>1. SetterOf[v] \in Setters
      BY <1>0, VectorsAssumption DEF Database, VectorsAssumption
    <3>2. d.profile = "active" /\ pairs[SetterOf[v]] = d.pairs[SetterOf[v]]
      BY <3>1, CoveredOk DEF pairs
    <3> QED
      BY <3>2 DEF DbInv
  <2>6. DbInv(e)
    BY <2>1, <2>2, <2>3, <2>4, <2>5, WithPairs
  <2>7. Unserved(d) => Unserved(e)
    <3>1. e.pairs = pairs
      BY <2>1, <1>0 DEF Database
    <3>2. ASSUME Unserved(d), NEW s \in Setters PROVE pairs[s].state \in {"absent", "pending"}
      BY <3>2, CoveredOk DEF pairs, Unserved
    <3> QED
      BY <3>1, <3>2 DEF Unserved
  <2> QED
    BY <1>1, <2>6, <2>7 DEF e
<1>2. CASE want # "wanted" /\ (d.profile = "absent" \/ ~HasQuants(d))
  <2>1. e = [d EXCEPT !.profile = "absent", !.pairs = NoPairs]
    BY <1>2 DEF Synced
  <2>2. \A v \in Vectors : QuantOk(d.quants[v], NoPairs[SetterOf[v]])
    <3> SUFFICES ASSUME NEW v \in Vectors
                 PROVE  QuantOk(d.quants[v], NoPairs[SetterOf[v]])
      OBVIOUS
    <3>1. d.quants[v] = NoQuant
      BY <1>2, QuantsWithoutPairs
    <3>2. SetterOf[v] \in Setters
      BY VectorsAssumption DEF VectorsAssumption
    <3>3. NoPairs[SetterOf[v]] = Absent
      BY <3>2 DEF NoPairs
    <3>4. QuantOk(NoQuant, Absent)
      BY DEF QuantOk, NoQuant, Quant, Absent
    <3> QED
      BY <3>1, <3>3, <3>4
  <2>3. DOMAIN NoPairs = Setters /\ NoPairs = [s \in Setters |-> NoPairs[s]]
    BY DEF NoPairs
  <2> HIDE DEF e
  <2>4. DbInv(e)
    BY <2>1, <2>2, <2>3, NoPairsOk, WithPairs
  <2>5. e.profile = "absent"
    BY <2>1, <1>0 DEF Database
  <2> QED
    BY <2>4, <2>5 DEF Unserved, e
<1>3. CASE want # "wanted" /\ ~(d.profile = "absent" \/ ~HasQuants(d))
  <2>1. e = [d EXCEPT !.profile = "removing"]
    BY <1>3 DEF Synced
  <2> HIDE DEF e
  <2>2. /\ e \in Database /\ e.profile = "removing" /\ e.pairs = d.pairs
        /\ e.quants = d.quants /\ e.vectors = d.vectors
    BY <2>1, <1>0 DEF Database
  <2>3. DbInv(e) /\ Unserved(e)
    BY <2>2 DEF DbInv, Unserved
  <2> QED
    BY <2>3 DEF e
<1> QED
  BY <1>1, <1>2, <1>3

(* A build freezes a scale under a new revision.                           *)
LEMMA StartInv ==
    ASSUME NEW d, DbInv(d), NEW space \in SUBSET Setters, space # {},
           NEW scale \in Vectors, NEW dim \in Nat
    PROVE  DbInv(StartSpaceBuild(d, space, scale, dim).db)
<1> DEFINE e == [d EXCEPT !.pairs = Frozen(d, space, scale, dim)]
           pairs == Frozen(d, space, scale, dim)
           new == [state |-> "building", scale |-> scale, rev |-> NextRev(d, space), dim |-> dim]
<1> SUFFICES ASSUME \A s \in space : d.pairs[s].state # "absent" PROVE DbInv(e)
  BY DEF StartSpaceBuild, Committed, RolledBack
<1>1. NextRev(d, space) \in Nat /\ \A s \in space : d.pairs[s].rev < NextRev(d, space)
  BY NextRevIsNew
<1>2. \A s \in Setters : pairs[s] = IF s \in space THEN new ELSE d.pairs[s]
  BY DEF Frozen
<1>3. DOMAIN pairs = Setters /\ pairs = [s \in Setters |-> pairs[s]]
  BY DEF Frozen
<1>4. d \in Database /\ d.profile # "absent"
  <2>1. PICK s \in space : TRUE
    OBVIOUS
  <2> QED
    BY <2>1 DEF DbInv, NoPairs, Absent
<1>5. e = [d EXCEPT !.profile = d.profile, !.pairs = pairs]
  BY <1>4 DEF Database
<1>6. PairOk(new) /\ \A s \in space : \A q : QuantOk(q, d.pairs[s]) => QuantOk(q, new)
  <2>1. scale \in Nat \ {0}
    BY VectorsAssumption DEF VectorsAssumption
  <2>2. new \in Pair /\ new.state = "building" /\ new.scale = scale /\ new.rev = NextRev(d, space)
    BY <1>1 DEF Pair
  <2>3. ASSUME NEW s \in space PROVE d.pairs[s].rev \in Nat /\ d.pairs[s].rev < new.rev
    BY <1>1, <2>2 DEF DbInv, Database, Pair
  <2> HIDE DEF new
  <2>4. PairOk(new)
    <3>1. PICK s \in space : TRUE
      OBVIOUS
    <3>2. new.rev # 0
      BY <2>2, <2>3, <3>1, <1>1
    <3> QED
      BY <2>1, <2>2, <3>2 DEF PairOk
  <2>5. ASSUME NEW s \in space, NEW q, QuantOk(q, d.pairs[s]) PROVE QuantOk(q, new)
    BY <2>2, <2>3, <2>5, <1>1 DEF QuantOk, Quant
  <2> QED
    BY <2>4, <2>5
<1>7. new.state = "building"
  OBVIOUS
<1> HIDE DEF new, pairs, e
<1>8. \A s \in Setters : PairOk(pairs[s])
  BY <1>2, <1>6 DEF DbInv
<1>9. ASSUME NEW v \in Vectors
      PROVE  /\ QuantOk(d.quants[v], pairs[SetterOf[v]])
             /\ pairs[SetterOf[v]].state = "ready" => pairs[SetterOf[v]] = d.pairs[SetterOf[v]]
  <2>1. SetterOf[v] \in Setters
    BY VectorsAssumption DEF VectorsAssumption
  <2> QED
    BY <2>1, <1>2, <1>6, <1>7 DEF DbInv
<1>10. d.profile = "active" =>
         \A v \in d.vectors : pairs[SetterOf[v]].state = "ready" =>
           d.quants[v] = QuantOf(pairs[SetterOf[v]])
  BY <1>4, <1>9 DEF DbInv, Database
<1> QED
  BY <1>3, <1>4, <1>5, <1>8, <1>9, <1>10, WithPairs DEF Database

(* A rebuild request or a drop takes pairs out of use.                     *)
LEMMA MarkInv ==
    ASSUME NEW d, DbInv(d), NEW space
    PROVE  /\ DbInv(MarkRebuild(d, space).db)
           /\ Unserved(d) => Unserved(MarkRebuild(d, space).db)
<1> DEFINE pairs == Marked(d, space)
           e == [d EXCEPT !.pairs = pairs]
<1>1. CASE \E s \in space : d.pairs[s].state = "absent"
  BY <1>1 DEF MarkRebuild, RolledBack
<1>2. CASE ~\E s \in space : d.pairs[s].state = "absent"
  <2>1. \A s \in Setters : pairs[s] = IF s \in space
            THEN [d.pairs[s] EXCEPT !.state = "pending", !.scale = 0, !.dim = d.pairs[s].dim]
            ELSE d.pairs[s]
    BY DEF Marked, DbInv, Database, Pair
  <2>2. DOMAIN pairs = Setters /\ pairs = [s \in Setters |-> pairs[s]]
    BY DEF Marked
  <2>3. d \in Database /\ \A s \in Setters : PairOk(d.pairs[s]) /\ d.pairs[s].dim \in Nat
    BY DEF DbInv, Database, Pair
  <2>4. (\E s \in Setters : s \in space) => d.profile # "absent"
    BY <1>2 DEF DbInv, NoPairs, Absent
  <2>5. e = [d EXCEPT !.profile = d.profile, !.pairs = pairs]
    BY <2>3 DEF Database
  <2>6. (~\E s \in Setters : s \in space) => pairs = d.pairs
    BY <2>1, <2>2, <2>3 DEF Database
  <2>7. MarkRebuild(d, space).db = e
    BY <1>2 DEF MarkRebuild, Committed
  <2> HIDE DEF pairs, e
  <2>8. ASSUME NEW s \in Setters
        PROVE  /\ PairOk(pairs[s])
               /\ \A x : QuantOk(x, d.pairs[s]) => QuantOk(x, pairs[s])
               /\ pairs[s] = d.pairs[s] \/ pairs[s].state = "pending"
    <3>1. CASE s \in space
      <4>1. /\ pairs[s] \in Pair /\ pairs[s].state = "pending" /\ pairs[s].scale = 0
            /\ pairs[s].rev = d.pairs[s].rev
        BY <2>1, <2>3, <3>1 DEF Pair, PairOk
      <4> QED
        BY <2>3, <4>1, PendingOk
    <3>2. CASE s \notin space
      BY <2>1, <2>3, <3>2
    <3> QED
      BY <3>1, <3>2
  <2>9. ASSUME NEW v \in Vectors
        PROVE  /\ QuantOk(d.quants[v], pairs[SetterOf[v]])
               /\ pairs[SetterOf[v]].state = "ready" => pairs[SetterOf[v]] = d.pairs[SetterOf[v]]
    <3>1. SetterOf[v] \in Setters
      BY VectorsAssumption DEF VectorsAssumption
    <3> QED
      BY <3>1, <2>8 DEF DbInv
  <2>10. d.profile = "absent" => pairs = NoPairs
    BY <2>4, <2>6 DEF DbInv
  <2>11. d.profile = "active" =>
           \A v \in d.vectors : pairs[SetterOf[v]].state = "ready" =>
             d.quants[v] = QuantOf(pairs[SetterOf[v]])
    BY <2>3, <2>9 DEF DbInv, Database
  <2>12. DbInv(e)
    BY <2>2, <2>3, <2>5, <2>8, <2>9, <2>10, <2>11, WithPairs DEF Database
  <2>13. Unserved(d) => Unserved(e)
    <3>1. e.profile = d.profile /\ e.pairs = pairs
      BY <2>3, <2>5 DEF Database
    <3> QED
      BY <3>1, <2>8 DEF Unserved
  <2> QED
    BY <2>7, <2>12, <2>13
<1> QED
  BY <1>1, <1>2

LEMMA DropInv == ASSUME NEW d, DbInv(d) PROVE DbInv(DropProfile(d).db)
<1> DEFINE e == [d EXCEPT !.profile = "absent", !.pairs = NoPairs]
<1> SUFFICES ASSUME ~HasQuants(d) PROVE DbInv(e)
  BY DEF DropProfile, Committed, RolledBack
<1>1. \A v \in Vectors : QuantOk(d.quants[v], NoPairs[SetterOf[v]])
  BY QuantsWithoutPairs, VectorsAssumption
     DEF VectorsAssumption, QuantOk, NoQuant, Quant, NoPairs, Absent
<1>2. DOMAIN NoPairs = Setters /\ NoPairs = [s \in Setters |-> NoPairs[s]]
  BY DEF NoPairs
<1> HIDE DEF e
<1> QED
  BY <1>1, <1>2, NoPairsOk, WithPairs DEF e

(* A space is ready when nothing is outstanding.                           *)
LEMMA FinishInv ==
    ASSUME NEW d, DbInv(d), NEW space \in SUBSET Setters
    PROVE  DbInv(FinishSpaceBuild(d, space).db)
<1> DEFINE pairs == MadeReady(d, space)
           e == [d EXCEPT !.pairs = pairs]
<1> SUFFICES ASSUME \A s \in space : Finished(d, s) PROVE DbInv(e)
  BY DEF FinishSpaceBuild, Committed, RolledBack
<1>1. \A s \in Setters : pairs[s] = IF s \in space THEN [d.pairs[s] EXCEPT !.state = "ready"]
                                  ELSE d.pairs[s]
  BY DEF MadeReady
<1>2. DOMAIN pairs = Setters /\ pairs = [s \in Setters |-> pairs[s]]
  BY DEF MadeReady
<1>3. d \in Database
  BY DEF DbInv
<1>4. e = [d EXCEPT !.profile = d.profile, !.pairs = pairs]
  BY <1>3 DEF Database
<1> HIDE DEF pairs, e
<1>5. ASSUME NEW s \in space
      PROVE  /\ PairOk(pairs[s]) /\ \A x : QuantOk(x, d.pairs[s]) => QuantOk(x, pairs[s])
             /\ pairs[s].rev = d.pairs[s].rev /\ pairs[s].scale = d.pairs[s].scale
             /\ d.pairs[s].scale # 0
  <2>1. PairOk(d.pairs[s]) /\ d.pairs[s].state = "building" /\ d.pairs[s] \in Pair
    BY DEF DbInv, Finished, PairOk
  <2>2. /\ pairs[s] \in Pair /\ pairs[s].state = "ready"
        /\ pairs[s].rev = d.pairs[s].rev /\ pairs[s].scale = d.pairs[s].scale
    BY <1>1, <2>1 DEF Pair
  <2> QED
    BY <2>1, <2>2 DEF PairOk, QuantOk
<1>6. \A s \in Setters : PairOk(pairs[s]) /\ \A x : QuantOk(x, d.pairs[s]) => QuantOk(x, pairs[s])
  BY <1>1, <1>5 DEF DbInv
<1>7. \A v \in Vectors : SetterOf[v] \in Setters
  BY VectorsAssumption DEF VectorsAssumption
<1>8. ASSUME d.profile = "active", NEW v \in d.vectors, pairs[SetterOf[v]].state = "ready"
      PROVE  d.quants[v] = QuantOf(pairs[SetterOf[v]])
  <2> DEFINE s == SetterOf[v]
  <2>1. v \in Vectors /\ s \in Setters
    BY <1>3, <1>7 DEF Database
  <2>2. CASE s \in space
    <3>1. QuantOk(d.quants[v], d.pairs[s]) /\ d.quants[v].rev = d.pairs[s].rev
      BY <2>1, <2>2 DEF DbInv, Finished, Of
    <3>2. d.quants[v] \in Quant /\ d.quants[v].scale = d.pairs[s].scale
      BY <3>1, <1>5, <2>2 DEF QuantOk
    <3> QED
      BY <3>1, <3>2, <1>5, <2>2 DEF Quant, QuantOf
  <2>3. CASE s \notin space
    BY <1>1, <1>8, <2>1, <2>3 DEF DbInv
  <2> QED
    BY <2>2, <2>3
<1>9. d.profile = "absent" => pairs = NoPairs
  <2> SUFFICES ASSUME d.profile = "absent" PROVE pairs = d.pairs
    BY DEF DbInv
  <2>1. \A s \in Setters : s \notin space
    BY DEF DbInv, NoPairs, Absent, Finished
  <2> QED
    BY <1>1, <1>2, <1>3, <2>1 DEF Database
<1>10. \A v \in Vectors : QuantOk(d.quants[v], pairs[SetterOf[v]])
  BY <1>6, <1>7 DEF DbInv
<1> QED
  BY <1>2, <1>3, <1>4, <1>6, <1>8, <1>9, <1>10, WithPairs DEF Database

(* One vector comes, goes or gets another quant.                           *)
LEMMA WithQuant ==
    ASSUME NEW d, DbInv(d), NEW v \in Vectors, NEW q, NEW V \in SUBSET Vectors, NEW e,
           e = [d EXCEPT !.vectors = V, !.quants = [d.quants EXCEPT ![v] = q]],
           \A w \in Vectors \ {v} : w \in V <=> w \in d.vectors,
           QuantOk(q, d.pairs[SetterOf[v]]),
           v \notin V => q = NoQuant,
           d.profile = "active" /\ v \in V /\ d.pairs[SetterOf[v]].state = "ready" =>
               q = QuantOf(d.pairs[SetterOf[v]])
    PROVE  DbInv(e)
<1>1. d \in Database /\ q \in Quant
  BY DEF DbInv, QuantOk
<1>2. \A w \in Vectors : e.quants[w] = IF w = v THEN q ELSE d.quants[w]
  BY <1>1 DEF Database
<1>3. /\ e \in Database /\ e.profile = d.profile /\ e.pairs = d.pairs /\ e.vectors = V
  BY <1>1 DEF Database
<1>4. \A w \in Vectors : /\ QuantOk(e.quants[w], d.pairs[SetterOf[w]])
                        /\ w \notin V => e.quants[w] = NoQuant
  BY <1>2 DEF DbInv
<1>5. d.profile = "active" =>
        \A w \in V : d.pairs[SetterOf[w]].state = "ready" =>
            e.quants[w] = QuantOf(d.pairs[SetterOf[w]])
  <2> SUFFICES ASSUME d.profile = "active", NEW w \in V, d.pairs[SetterOf[w]].state = "ready"
               PROVE  e.quants[w] = QuantOf(d.pairs[SetterOf[w]])
    OBVIOUS
  <2>1. CASE w = v
    BY <1>2, <2>1
  <2>2. CASE w # v
    BY <1>2, <2>2 DEF DbInv
  <2> QED
    BY <2>1, <2>2
<1>6. DbInv(e)
  BY <1>3, <1>4, <1>5 DEF DbInv
<1> QED
  BY <1>3, <1>6

LEMMA NoQuantOk == ASSUME NEW p \in Pair, PairOk(p) PROVE QuantOk(NoQuant, p)
BY DEF QuantOk, NoQuant, Quant, Pair, PairOk

LEMMA QuantOfOk == ASSUME NEW p \in Pair, PairOk(p), p.scale # 0 PROVE QuantOk(QuantOf(p), p)
BY DEF QuantOk, QuantOf, Quant, Pair, PairOk

LEMMA PairsAreOk ==
    ASSUME NEW d, DbInv(d), NEW v \in Vectors
    PROVE  /\ SetterOf[v] \in Setters /\ d.pairs[SetterOf[v]] \in Pair
           /\ PairOk(d.pairs[SetterOf[v]])
BY VectorsAssumption DEF VectorsAssumption, DbInv, PairOk

LEMMA BackfillInv ==
    ASSUME NEW d, DbInv(d), NEW s \in Setters, NEW after
    PROVE  DbInv(BackfillChunk(d, s, after).db) /\ BackfillChunk(d, s, after).n \in Nat
<1> DEFINE rows == Outstanding(d, s, after)
           v == First(rows)
           q == QuantOf(d.pairs[s])
           e == [d EXCEPT !.quants = [d.quants EXCEPT ![v] = q]]
<1>1. CASE rows = {}
  BY <1>1 DEF BackfillChunk, Committed
<1>2. CASE rows # {}
  <2>1. d \in Database /\ rows \subseteq Vectors
    BY DEF DbInv, Outstanding, Of, Database
  <2>2. v \in rows
    BY <1>2, <2>1, FirstIsFirst
  <2>3. /\ v \in Vectors /\ v \in d.vectors /\ SetterOf[v] = s
        /\ d.pairs[s].state = "building" /\ d.pairs[s].scale # 0
    BY <2>1, <2>2 DEF Outstanding, Of
  <2>4. QuantOk(q, d.pairs[SetterOf[v]])
    BY <2>3, PairsAreOk, QuantOfOk
  <2>5. BackfillChunk(d, s, after) = [db |-> e, ok |-> TRUE, n |-> v]
    BY <1>2 DEF BackfillChunk, Committed
  <2> HIDE DEF v, q, rows
  <2>6. e = [d EXCEPT !.vectors = d.vectors, !.quants = [d.quants EXCEPT ![v] = q]]
    BY <2>1 DEF Database
  <2>7. d.vectors \in SUBSET Vectors
    BY <2>1 DEF Database
  <2> HIDE DEF e
  <2>8. DbInv(e)
    BY <2>3, <2>4, <2>6, <2>7, WithQuant
  <2>9. v \in Nat
    BY <2>3, VectorsAssumption DEF VectorsAssumption
  <2> QED
    BY <2>5, <2>8, <2>9
<1> QED
  BY <1>1, <1>2

(* Quants are deleted out of use.                                          *)
LEMMA DeleteChunkInv ==
    ASSUME NEW d, DbInv(d), Unserved(d)
    PROVE  DbInv(DeleteChunk(d).db) /\ Unserved(DeleteChunk(d).db)
<1> DEFINE rows == {v \in d.vectors : d.quants[v].rev # 0}
           v == First(rows)
           q == NoQuant
           e == [d EXCEPT !.quants = [d.quants EXCEPT ![v] = q]]
<1>1. CASE rows = {}
  BY <1>1 DEF DeleteChunk, Committed
<1>2. CASE rows # {}
  <2>1. d \in Database /\ rows \subseteq Vectors
    BY DEF DbInv, Database
  <2>2. v \in rows /\ v \in Vectors
    BY <1>2, <2>1, FirstIsFirst
  <2>3. DeleteChunk(d).db = e
    BY <1>2 DEF DeleteChunk, Committed
  <2> HIDE DEF v, rows
  <2>31. q = NoQuant
    OBVIOUS
  <2> HIDE DEF q
  <2>4. e = [d EXCEPT !.vectors = d.vectors, !.quants = [d.quants EXCEPT ![v] = q]]
    BY <2>1 DEF Database
  <2>5. d.vectors \in SUBSET Vectors
    BY <2>1 DEF Database
  <2>6. QuantOk(q, d.pairs[SetterOf[v]])
    BY <2>2, <2>31, PairsAreOk, NoQuantOk
  <2>7. ~(d.profile = "active" /\ d.pairs[SetterOf[v]].state = "ready")
    BY <2>2, PairsAreOk DEF Unserved
  <2>8. v \in d.vectors
    BY <2>2 DEF rows
  <2> HIDE DEF e
  <2>9. DbInv(e)
    BY <2>2, <2>31, <2>4, <2>5, <2>6, <2>7, <2>8, WithQuant
  <2>10. e.profile = d.profile /\ e.pairs = d.pairs
    BY <2>1, <2>4 DEF Database
  <2> QED
    BY <2>3, <2>9, <2>10 DEF Unserved
<1> QED
  BY <1>1, <1>2

LEMMA DeleteVectorInv ==
    ASSUME NEW d, DbInv(d), NEW v \in Vectors
    PROVE  DbInv(DeleteVector(d, v)) /\ (Unserved(d) => Unserved(DeleteVector(d, v)))
<1> DEFINE V == d.vectors \ {v}
           q == NoQuant
           e == DeleteVector(d, v)
<1>1. QuantOk(q, d.pairs[SetterOf[v]])
  BY PairsAreOk, NoQuantOk
<1>2. V \in SUBSET Vectors /\ v \notin V /\ \A w \in Vectors \ {v} : w \in V <=> w \in d.vectors
  BY DEF DbInv, Database
<1>3. e = [d EXCEPT !.vectors = V, !.quants = [d.quants EXCEPT ![v] = q]]
  BY DEF DeleteVector
<1>31. q = NoQuant
  OBVIOUS
<1> HIDE DEF V, e, q
<1>4. DbInv(e)
  BY <1>1, <1>2, <1>3, <1>31, WithQuant
<1>5. e.profile = d.profile /\ e.pairs = d.pairs
  BY <1>3 DEF DbInv, Database
<1> QED
  BY <1>4, <1>5 DEF Unserved, e

(* An inserted vector gets its quant, or its pair leaves use.              *)
LEMMA AddEmbeddingInv ==
    ASSUME NEW d, DbInv(d), NEW v \in Vectors
    PROVE  DbInv(AddEmbedding(d, v))
<1> DEFINE s == SetterOf[v]
           p == d.pairs[s]
           pairs == Downgraded(d, v)
           c == [d EXCEPT !.pairs = pairs]
           q == IF Inline(d, v) THEN QuantOf(p) ELSE NoQuant
           V == d.vectors \cup {v}
           e == [c EXCEPT !.vectors = V, !.quants = [c.quants EXCEPT ![v] = q]]
<1>1. s \in Setters /\ p \in Pair /\ PairOk(p) /\ d \in Database
  BY PairsAreOk DEF DbInv
<1>2. /\ c \in [profile : {"absent", "active", "removing"}, pairs : {pairs},
                 vectors : SUBSET Vectors, quants : [Vectors -> Quant]]
      /\ c.profile = d.profile /\ c.pairs = pairs /\ c.quants = d.quants /\ c.vectors = d.vectors
  BY <1>1 DEF Database
<1>3. AddEmbedding(d, v) = e
  BY <1>1, <1>2 DEF AddEmbedding, Database
<1>4. DbInv(c)
  <2>1. CASE pairs = d.pairs
    BY <1>1, <2>1 DEF Database
  <2>2. CASE pairs # d.pairs
    <3> DEFINE r == [p EXCEPT !.state = "pending", !.scale = 0]
    <3>1. p.state \in {"building", "ready"} /\ pairs = [d.pairs EXCEPT ![s] = r]
      BY <2>2 DEF Downgraded
    <3>2. r \in Pair /\ r.state = "pending" /\ r.scale = 0 /\ r.rev = p.rev
      BY <1>1 DEF Pair
    <3> HIDE DEF r, pairs, c
    <3>3. PairOk(r) /\ \A x : QuantOk(x, p) => QuantOk(x, r)
      BY <1>1, <3>2, PendingOk
    <3>4. \A t \in Setters : pairs[t] = IF t = s THEN r ELSE d.pairs[t]
      BY <1>1, <3>1 DEF Database
    <3>5. DOMAIN pairs = Setters /\ pairs = [t \in Setters |-> pairs[t]]
      BY <1>1, <3>1 DEF Database
    <3>6. \A t \in Setters : PairOk(pairs[t])
      BY <3>3, <3>4 DEF DbInv
    <3>7. ASSUME NEW w \in Vectors
          PROVE  /\ QuantOk(d.quants[w], pairs[SetterOf[w]])
                 /\ pairs[SetterOf[w]].state = "ready" => pairs[SetterOf[w]] = d.pairs[SetterOf[w]]
      <4>1. SetterOf[w] \in Setters /\ QuantOk(d.quants[w], d.pairs[SetterOf[w]])
        BY PairsAreOk DEF DbInv
      <4> QED
        BY <4>1, <3>2, <3>3, <3>4
    <3>8. d.profile # "absent"
      BY <1>1, <3>1 DEF DbInv, NoPairs, Absent
    <3>9. d.profile = "active" =>
            \A w \in d.vectors : pairs[SetterOf[w]].state = "ready" =>
              d.quants[w] = QuantOf(pairs[SetterOf[w]])
      BY <1>1, <3>7 DEF DbInv, Database
    <3>10. c = [d EXCEPT !.profile = d.profile, !.pairs = pairs] /\ d.profile \in {"absent", "active", "removing"}
      BY <1>1 DEF Database, c
    <3> QED
      BY <3>5, <3>6, <3>7, <3>8, <3>9, <3>10, WithPairs
  <2> QED
    BY <2>1, <2>2
<1>5. CASE Inline(d, v)
  <2>1. pairs = d.pairs /\ p.scale # 0 /\ q = QuantOf(p)
    BY <1>5 DEF Inline, Downgraded
  <2>2. QuantOk(q, p)
    BY <1>1, <2>1, QuantOfOk
  <2>3. V \in SUBSET Vectors
    BY <1>1 DEF Database
  <2>31. v \in V /\ \A w \in Vectors \ {v} : w \in V <=> w \in c.vectors
    BY <1>2
  <2> HIDE DEF q, V, c, pairs
  <2>32. QuantOk(q, c.pairs[SetterOf[v]]) /\ q = QuantOf(c.pairs[SetterOf[v]])
    BY <1>2, <2>1, <2>2
  <2>4. DbInv(e)
    BY <1>4, <2>3, <2>31, <2>32, WithQuant
  <2> QED
    BY <1>3, <2>4
<1>6. CASE ~Inline(d, v)
  <2>1. q = NoQuant
    BY <1>6
  <2>2. ~(d.profile = "active" /\ pairs[s].state = "ready")
    <3> SUFFICES ASSUME d.profile = "active", pairs[s].state = "ready" PROVE FALSE
      OBVIOUS
    <3>1. CASE p.state \in {"building", "ready"} /\ p.dim # DimOf[v]
      <4>1. pairs = [d.pairs EXCEPT ![s] = [p EXCEPT !.state = "pending", !.scale = 0]]
        BY <3>1 DEF Downgraded
      <4>2. pairs[s] = [p EXCEPT !.state = "pending", !.scale = 0]
        BY <1>1, <4>1 DEF Database
      <4> QED
        BY <1>1, <4>2 DEF Pair
    <3>2. CASE ~(p.state \in {"building", "ready"} /\ p.dim # DimOf[v])
      <4>1. pairs[s] = p
        BY <3>2 DEF Downgraded
      <4> QED
        BY <1>1, <1>6, <3>2, <4>1 DEF Inline, PairOk
    <3> QED
      BY <3>1, <3>2
  <2>3. V \in SUBSET Vectors
    BY <1>1 DEF Database
  <2>31. v \in V /\ \A w \in Vectors \ {v} : w \in V <=> w \in c.vectors
    BY <1>2
  <2> HIDE DEF q, V, c, pairs
  <2>4. QuantOk(q, c.pairs[SetterOf[v]])
    BY <1>4, <2>1, PairsAreOk, NoQuantOk
  <2>41. ~(c.profile = "active" /\ c.pairs[SetterOf[v]].state = "ready")
    BY <1>2, <2>2
  <2>5. DbInv(e)
    BY <1>4, <2>3, <2>31, <2>4, <2>41, WithQuant
  <2> QED
    BY <1>3, <2>5
<1> QED
  BY <1>5, <1>6

-----------------------------------------------------------------------------
(* The job                                                                 *)

LEMMA SetterNowOk ==
    ASSUME NEW j, NEW d, JobOk(j, d), j.at = "chunk"
    PROVE  SetterNow(j) \in j.left /\ SetterNow(j) \in Setters
BY DEF JobOk, Job, SetterNow

(* Every transaction a job asks for keeps the database right.              *)
LEMMA ExecutedInv ==
    ASSUME NEW d, DbInv(d), NEW j, JobOk(j, d), Writes(j)
    PROVE  DbInv(Executed(d, j).db)
<1>1. j \in Job /\ j.build \in Build
  BY DEF JobOk, Job
<1>2. CASE j.at = "sync"
  BY <1>2, SyncedInv DEF Executed, SyncMetadata, Committed
<1>3. CASE j.at = "delete"
  BY <1>3, DeleteChunkInv DEF Executed, JobOk
<1>4. CASE j.at = "drop"
  BY <1>4, DropInv DEF Executed
<1>5. CASE j.at = "start"
  <2>1. j.build.space \in SUBSET Setters /\ j.build.space # {} /\ j.build.dim \in Nat
        /\ j.cursor \in Vectors
    BY <1>1, <1>5 DEF JobOk, Build
  <2>2. Executed(d, j) = StartSpaceBuild(d, j.build.space, j.cursor, j.build.dim)
    BY <1>5 DEF Executed
  <2> QED
    BY <2>1, <2>2, StartInv
<1>6. CASE j.at = "chunk"
  <2>1. Executed(d, j) = BackfillChunk(d, SetterNow(j), j.cursor)
    BY <1>6 DEF Executed
  <2> QED
    BY <1>6, <2>1, SetterNowOk, BackfillInv
<1>7. CASE j.at = "finish"
  <2>1. Executed(d, j) = FinishSpaceBuild(d, j.build.space) /\ j.build.space \in SUBSET Setters
    BY <1>1, <1>7 DEF Executed, Build
  <2> QED
    BY <2>1, FinishInv
<1>8. CASE j.at = "embed"
  <2>1. Executed(d, j).db = AddEmbedding(d, j.cursor) /\ j.cursor \in Vectors
    BY <1>8 DEF Executed, Committed, JobOk
  <2> QED
    BY <2>1, AddEmbeddingInv
<1> QED
  BY <1>2, <1>3, <1>4, <1>5, <1>6, <1>7, <1>8 DEF Writes

LEMMA NoJobOk == NoJob \in Job /\ NoJob.at = "none" /\ NoJob.todo = {}
BY DEF NoJob, Job, Build, NoBuild, Wants

LEMMA NextBuildOk ==
    ASSUME NEW j \in Job, \A b \in j.todo : b.space # {}, NEW ok \in BOOLEAN, NEW d
    PROVE  JobOk(NextBuild(j, ok), d)
<1> DEFINE k == NextBuild(j, ok)
<1>1. k \in Job /\ k.at = "builds" /\ k.todo = j.todo \ {j.build}
  BY DEF NextBuild, Job, Build, NoBuild
<1> HIDE DEF k
<1>2. JobOk(k, d)
  BY <1>1 DEF JobOk
<1> QED
  BY <1>2 DEF k

LEMMA FillingOk ==
    ASSUME NEW j \in Job, \A b \in j.todo : b.space # {}, j.build.space # {}, NEW d
    PROVE  JobOk(Filling(j), d)
<1> DEFINE k == Filling(j)
<1>1. /\ k \in Job /\ k.at = "chunk" /\ k.todo = j.todo /\ k.build = j.build
      /\ k.left = j.build.space
  BY DEF Filling, Job, Build
<1> HIDE DEF k
<1>2. JobOk(k, d)
  BY <1>1 DEF JobOk
<1> QED
  BY <1>2 DEF k

(* A job that moves on without a build, a chunk or a delete.               *)
LEMMA MovedOk ==
    ASSUME NEW j, NEW d, JobOk(j, d), NEW e, NEW k \in Job, k.todo = j.todo,
           k.at \in {"drop", "plan", "done", "working", "builds"},
           k.at = "plan" /\ k.want = "unwanted" => Unserved(e)
    PROVE  JobOk(k, e)
BY DEF JobOk

(* The reply moves the job on.                                             *)
LEMMA RepliedOk ==
    ASSUME NEW d, NEW j, JobOk(j, d), Writes(j),
           NEW e, NEW r \in [db : {e}, ok : BOOLEAN, n : Nat],
           j.at = "delete" => Unserved(e),
           j.at = "sync" /\ r.ok /\ j.want = "unwanted" => Unserved(e)
    PROVE  JobOk(Replied(j, r), e)
<1> DEFINE k == Replied(j, r)
<1>1. /\ j \in Job /\ (\A b \in j.todo : b.space # {})
      /\ r.ok \in BOOLEAN /\ r.n \in Nat
  BY DEF JobOk
<1>2. CASE j.at = "sync" /\ r.ok
  <2>1. k = [j EXCEPT !.at = "plan", !.changed = r.n = 1]
    BY <1>2 DEF Replied
  <2> HIDE DEF k
  <2>2. k \in Job /\ k.at = "plan" /\ k.want = j.want /\ k.todo = j.todo
    BY <1>1, <2>1 DEF Job
  <2>3. JobOk(k, e)
    BY <1>2, <2>2, MovedOk
  <2> QED
    BY <2>3 DEF k
<1>3. CASE j.at = "sync" /\ ~r.ok
  <2>1. k = [j EXCEPT !.at = "done"]
    BY <1>3 DEF Replied
  <2> HIDE DEF k
  <2>2. k \in Job /\ k.at = "done" /\ k.todo = j.todo
    BY <1>1, <2>1 DEF Job
  <2>3. JobOk(k, e)
    BY <2>2, MovedOk
  <2> QED
    BY <2>3 DEF k
<1>4. CASE j.at \in {"delete", "start", "chunk"} /\ ~r.ok
  <2>1. k = NextBuild(j, FALSE)
    BY <1>4 DEF Replied
  <2> QED
    BY <1>1, <2>1, NextBuildOk
<1>5. CASE j.at = "delete" /\ r.ok
  <2>1. CASE r.n = 0
    <3>1. k = [j EXCEPT !.at = "drop"]
      BY <1>5, <2>1 DEF Replied
    <3> HIDE DEF k
    <3>2. k \in Job /\ k.at = "drop" /\ k.todo = j.todo
      BY <1>1, <3>1 DEF Job
    <3>3. JobOk(k, e)
      BY <3>2, MovedOk
    <3> QED
      BY <3>3 DEF k
  <2>2. CASE r.n # 0
    <3>1. k = j
      BY <1>5, <2>2 DEF Replied
    <3> HIDE DEF k
    <3>2. JobOk(k, e)
      BY <1>5, <3>1 DEF JobOk
    <3> QED
      BY <3>2 DEF k
  <2> QED
    BY <2>1, <2>2
<1>6. CASE j.at \in {"drop", "finish"}
  <2>1. k = NextBuild(j, r.ok)
    BY <1>6 DEF Replied
  <2> QED
    BY <1>1, <2>1, NextBuildOk
<1>7. CASE j.at = "start" /\ r.ok
  <2>1. k = Filling(j) /\ j.build.space # {}
    BY <1>7 DEF Replied, JobOk
  <2> QED
    BY <1>1, <2>1, FillingOk
<1>8. CASE j.at = "chunk" /\ r.ok
  <2>1. \/ k = [j EXCEPT !.cursor = r.n]
        \/ k = [j EXCEPT !.at = "finish", !.left = {}]
        \/ j.left # {SetterNow(j)} /\ k = [j EXCEPT !.left = @ \ {SetterNow(j)}, !.cursor = 0]
    BY <1>8 DEF Replied
  <2>2. SetterNow(j) \in j.left /\ j.build.space # {} /\ j.left # {}
    BY <1>8, SetterNowOk DEF JobOk
  <2>3. /\ k \in Job /\ k.at \in {"chunk", "finish"} /\ k.todo = j.todo /\ k.build = j.build
        /\ k.at = "chunk" => k.left # {}
    <3> HIDE DEF k
    <3>1. CASE k = [j EXCEPT !.cursor = r.n]
      BY <1>1, <1>8, <2>2, <3>1 DEF Job
    <3>2. CASE k = [j EXCEPT !.at = "finish", !.left = {}]
      BY <1>1, <1>8, <3>2 DEF Job
    <3>3. CASE j.left # {SetterNow(j)} /\ k = [j EXCEPT !.left = @ \ {SetterNow(j)}, !.cursor = 0]
      <4>1. j.left \ {SetterNow(j)} # {} /\ j.left \ {SetterNow(j)} \in SUBSET Setters
        BY <1>1, <2>2, <3>3 DEF Job
      <4> DEFINE left == j.left \ {SetterNow(j)}
      <4> HIDE DEF left
      <4>2. k = [j EXCEPT !.left = left, !.cursor = 0]
        BY <3>3 DEF left
      <4>3. left # {} /\ left \in SUBSET Setters
        BY <4>1 DEF left
      <4> QED
        BY <1>1, <1>8, <4>2, <4>3 DEF Job
    <3> QED
      BY <2>1, <3>1, <3>2, <3>3
  <2> HIDE DEF k
  <2>5. JobOk(k, e)
    BY <1>1, <2>2, <2>3 DEF JobOk
  <2> QED
    BY <2>5 DEF k
<1>9. CASE j.at = "embed"
  <2>1. k = [j EXCEPT !.at = "working", !.cursor = 0]
    BY <1>9 DEF Replied
  <2> HIDE DEF k
  <2>2. k \in Job /\ k.at = "working" /\ k.todo = j.todo
    BY <1>1, <2>1 DEF Job
  <2>3. JobOk(k, e)
    BY <2>2, MovedOk
  <2> QED
    BY <2>3 DEF k
<1> QED
  BY <1>1, <1>2, <1>3, <1>4, <1>5, <1>6, <1>7, <1>8, <1>9 DEF Writes

(* What a transaction returns.                                             *)
LEMMA ExecutedType ==
    ASSUME NEW d, DbInv(d), NEW j, JobOk(j, d), Writes(j)
    PROVE  Executed(d, j) \in [db : {Executed(d, j).db}, ok : BOOLEAN, n : Nat]
<1> DEFINE Result(y) == y \in [db : {y.db}, ok : BOOLEAN, n : Nat]
<1>1. ASSUME NEW x, NEW n \in Nat PROVE Result(Committed(x, n))
  BY DEF Committed
<1>2. ASSUME NEW x PROVE Result(RolledBack(x))
  BY DEF RolledBack
<1> HIDE DEF Result
<1>3. CASE j.at = "sync"
  <2>1. Executed(d, j) = Committed(Synced(d, j.want), IF Synced(d, j.want) = d THEN 0 ELSE 1)
    BY <1>3 DEF Executed, SyncMetadata
  <2> QED
    BY <1>1, <2>1 DEF Result
<1>4. CASE j.at = "delete"
  <2>1. \E x : Executed(d, j) \in {Committed(x, 0), Committed(x, 1)}
    BY <1>4 DEF Executed, DeleteChunk
  <2> QED
    BY <1>1, <2>1 DEF Result
<1>5. CASE j.at = "drop"
  <2>1. \E x : Executed(d, j) \in {RolledBack(x), Committed(x, 1)}
    BY <1>5 DEF Executed, DropProfile
  <2> QED
    BY <1>1, <1>2, <2>1 DEF Result
<1>6. CASE j.at = "start"
  <2>1. \E x : Executed(d, j) \in {RolledBack(x), Committed(x, 1)}
    BY <1>6 DEF Executed, StartSpaceBuild
  <2> QED
    BY <1>1, <1>2, <2>1 DEF Result
<1>7. CASE j.at = "chunk"
  <2>1. \E x, n : Executed(d, j) = Committed(x, n)
    BY <1>7 DEF Executed, BackfillChunk
  <2>2. Executed(d, j).n \in Nat
    BY <1>7, SetterNowOk, BackfillInv DEF Executed
  <2> QED
    BY <1>1, <2>1, <2>2 DEF Result, Committed
<1>8. CASE j.at = "finish"
  <2>1. \E x : Executed(d, j) \in {RolledBack(x), Committed(x, 1)}
    BY <1>8 DEF Executed, FinishSpaceBuild
  <2> QED
    BY <1>1, <1>2, <2>1 DEF Result
<1>9. CASE j.at = "embed"
  <2>1. Executed(d, j) = Committed(AddEmbedding(d, j.cursor), 1)
    BY <1>9 DEF Executed
  <2> QED
    BY <1>1, <2>1 DEF Result
<1> QED
  BY <1>3, <1>4, <1>5, <1>6, <1>7, <1>8, <1>9 DEF Writes

(* The spaces of a snapshot have embeddings, and so a dimension.           *)
LEMMA BuildsOk ==
    ASSUME NEW d, DbInv(d), NEW want
    PROVE  Builds(d, want) \subseteq Build /\ \A b \in Builds(d, want) : b.space # {}
<1> SUFFICES ASSUME NEW b \in Builds(d, want) PROVE b \in Build /\ b.space # {}
  OBVIOUS
<1>1. PICK sp \in Spaces(d) :
        b = [space |-> sp, dim |-> Dim(d, CHOOSE s \in sp : TRUE), resume |-> Resumable(d, sp)]
  BY DEF Builds
<1>2. sp # {} /\ sp \subseteq Embedded(d)
  BY DEF Spaces
<1>3. ASSUME NEW s \in Embedded(d) PROVE Dim(d, s) \in Nat
  <2>1. Of(d, s) \subseteq Vectors /\ Of(d, s) # {}
    BY <1>3 DEF DbInv, Database, Of, Embedded
  <2>2. \E v \in Of(d, s) : \A w \in Of(d, s) : v <= w
    BY <2>1, LeastExists, VectorsAssumption DEF VectorsAssumption
  <2>3. (CHOOSE v \in Of(d, s) : \A w \in Of(d, s) : v <= w) \in Vectors
    BY <2>1, <2>2
  <2> QED
    BY <2>3, VectorsAssumption DEF Dim, VectorsAssumption
<1>4. Resumable(d, sp) \in BOOLEAN
  BY DEF Resumable
<1>5. (CHOOSE s \in sp : TRUE) \in Embedded(d)
  BY <1>2
<1>6. Embedded(d) \subseteq Setters
  BY DEF Embedded
<1> QED
  BY <1>1, <1>2, <1>3, <1>4, <1>5, <1>6 DEF Build

-----------------------------------------------------------------------------
(* The steps                                                               *)

Rest == /\ desired \in Wants \cup {"invalid"} /\ queue \subseteq {"batch", "reconcile"}
        /\ DOMAIN request = Requests
        /\ \A r \in Requests : request[r].at = "sync" => request[r].want \in Wants

LEMMA InitInv == Init => IInv
<1> SUFFICES ASSUME Init PROVE IInv
  OBVIOUS
<1>1. PICK set \in SUBSET Vectors : db = [Nothing EXCEPT !.vectors = set]
  BY DEF Init
<1>2. DbInv(db)
  <2>1. /\ db.profile = "absent" /\ db.pairs = NoPairs /\ db.vectors = set
        /\ db.quants = [v \in Vectors |-> NoQuant]
    BY <1>1 DEF Nothing
  <2>2. db \in Database
    BY <1>1, NoPairsOk DEF Nothing, Database, NoQuant, Quant
  <2>3. ASSUME NEW v \in Vectors PROVE QuantOk(db.quants[v], db.pairs[SetterOf[v]])
    BY <2>1, VectorsAssumption, NoPairsOk, NoQuantOk DEF VectorsAssumption
  <2> QED
    BY <2>1, <2>2, <2>3, NoPairsOk DEF DbInv
<1>3. JobOk(job, db) /\ LateOk
  BY NoJobOk DEF Init, JobOk, LateOk
<1>4. Rest
  BY DEF Init, Rest, Wants
<1> QED
  BY <1>2, <1>3, <1>4 DEF IInv, Rest

(* Only the job moves.  When the writer still has a message, it is one     *)
(* that has not written yet.                                               *)
LEMMA GoesOnInv ==
    ASSUME IInv, NEW j, JobGoesOn(j), JobOk(j, db),
           late # None => j.at \in {"none", "working", "embed", "load", "sync", "done"}
    PROVE  IInv'
BY DEF IInv, JobGoesOn, LateOk

(* The database changes under a job that waits: quants stay out of use.    *)
LEMMA DbMovesInv ==
    ASSUME IInv, late = None, UNCHANGED <<desired, late, queue, job>>, DbInv(db'),
           Unserved(db) => Unserved(db'), DOMAIN request' = Requests,
           \A r \in Requests : request'[r].at = "sync" => request'[r].want \in Wants
    PROVE  IInv'
BY DEF IInv, JobOk, LateOk

LEMMA JobWritesInv == ASSUME IInv, JobWrites PROVE IInv'
<1>1. DbInv(db) /\ JobOk(job, db) /\ Writes(job) /\ late = None /\ Rest
  BY DEF IInv, JobWrites, Rest
<1>2. UNCHANGED <<desired, late, queue, request>>
  BY DEF JobWrites
<1>3. CASE /\ db' = Executed(db, job).db /\ job' = Replied(job, Executed(db, job))
  <2>1. DbInv(db')
    BY <1>1, <1>3, ExecutedInv
  <2>2. Executed(db, job) \in [db : {db'}, ok : BOOLEAN, n : Nat]
    BY <1>1, <1>3, ExecutedType
  <2>3. job.at = "delete" => Unserved(db')
    BY <1>1, <1>3, DeleteChunkInv DEF Executed, JobOk
  <2>4. job.at = "sync" /\ job.want = "unwanted" => Unserved(db')
    BY <1>1, <1>3, SyncedInv DEF Executed, SyncMetadata, Committed
  <2>5. JobOk(job', db')
    BY <1>1, <1>3, <2>2, <2>3, <2>4, RepliedOk
  <2> QED
    BY <1>1, <1>2, <2>1, <2>5 DEF IInv, LateOk, Rest
<1>4. CASE job' = Replied(job, RolledBack(db)) /\ UNCHANGED db
  <2> DEFINE r == RolledBack(db)
  <2>1. r \in [db : {db}, ok : BOOLEAN, n : Nat] /\ ~r.ok
    BY DEF RolledBack
  <2> HIDE DEF r
  <2>2. job.at = "delete" => Unserved(db)
    BY <1>1 DEF JobOk
  <2>3. JobOk(Replied(job, r), db)
    BY <1>1, <2>1, <2>2, RepliedOk
  <2> QED
    BY <1>1, <1>2, <1>4, <2>3 DEF IInv, LateOk, Rest, r
<1> QED
  BY <1>3, <1>4 DEF JobWrites

LEMMA LateWriteInv == ASSUME IInv, LateWrite PROVE IInv'
<1>1. DbInv(db')
  BY ExecutedInv DEF IInv, LateWrite, LateOk
<1>2. JobOk(job, db')
  BY DEF IInv, LateWrite, LateOk, JobOk
<1> QED
  BY <1>1, <1>2 DEF IInv, LateWrite, LateOk

LEMMA ExtractInv == ASSUME IInv, NEW v \in Vectors, Extract(v) PROVE IInv'
<1> DEFINE j == [job EXCEPT !.at = "embed", !.cursor = v]
<1>1. JobGoesOn(j) /\ JobOk(job, db) /\ job \in Job
  BY DEF Extract, IInv, JobOk
<1>2. j \in Job /\ j.at = "embed" /\ j.cursor = v /\ j.todo = job.todo
  BY <1>1, VectorsAssumption DEF Job, VectorsAssumption
<1> HIDE DEF j
<1>3. JobOk(j, db)
  BY <1>1, <1>2 DEF JobOk
<1> QED
  BY <1>1, <1>2, <1>3, GoesOnInv

LEMMA FinishingPhaseInv == ASSUME IInv, FinishingPhase PROVE IInv'
<1>1. PICK at \in {"done", "load"} : JobGoesOn([job EXCEPT !.at = at])
  BY DEF FinishingPhase
<1> DEFINE j == [job EXCEPT !.at = at]
<1>2. JobOk(job, db) /\ job \in Job
  BY DEF IInv, JobOk
<1>3. j \in Job /\ j.at = at /\ j.todo = job.todo
  BY <1>2 DEF Job
<1>4. JobGoesOn(j)
  BY <1>1
<1> HIDE DEF j
<1>5. JobOk(j, db)
  BY <1>2, <1>3 DEF JobOk
<1> QED
  BY <1>3, <1>4, <1>5, GoesOnInv

LEMMA LoadInv == ASSUME IInv, LoadDesiredState PROVE IInv'
<1>1. PICK at \in {"done", "sync"}, want \in Wants :
        JobGoesOn([job EXCEPT !.at = at, !.want = want])
  <2>1. job \in Job
    BY DEF IInv, JobOk
  <2>2. CASE desired = "invalid"
    <3>1. [job EXCEPT !.at = "done"] = [job EXCEPT !.at = "done", !.want = job.want] /\ job.want \in Wants
      BY <2>1 DEF Job
    <3> QED
      BY <2>2, <3>1 DEF LoadDesiredState
  <2>3. CASE desired # "invalid"
    BY <2>3 DEF LoadDesiredState, IInv
  <2> QED
    BY <2>2, <2>3
<1> DEFINE j == [job EXCEPT !.at = at, !.want = want]
<1>2. JobOk(job, db) /\ job \in Job
  BY DEF IInv, JobOk
<1>3. j \in Job /\ j.at = at /\ j.todo = job.todo
  BY <1>2 DEF Job
<1>4. JobGoesOn(j)
  BY <1>1
<1> HIDE DEF j
<1>5. JobOk(j, db)
  BY <1>2, <1>3 DEF JobOk
<1> QED
  BY <1>3, <1>4, <1>5, GoesOnInv

(* The end of a pass.                                                      *)
LEMMA PassEndsOk ==
    ASSUME JobOk(job, db), NEW worked
    PROVE  JobOk(PassEnds(worked), db)
<1> DEFINE j == PassEnds(worked)
<1>1. job.kind \in {"none", "batch", "reconcile"} /\ job.pass + 1 \in Nat
  BY DEF JobOk, Job
<1>2. PICK at \in {"load", "done"} : j = [NoJob EXCEPT !.kind = job.kind, !.pass = job.pass + 1, !.at = at]
  BY DEF PassEnds
<1>3. j \in Job /\ j.at = at /\ j.todo = {}
  BY <1>1, <1>2, NoJobOk DEF Job
<1> HIDE DEF j
<1>4. JobOk(j, db)
  BY <1>3 DEF JobOk
<1> QED
  BY <1>4 DEF j

LEMMA PlanInv == ASSUME IInv, Plan PROVE IInv'
<1>1. /\ job.at = "plan" /\ JobOk(job, db) /\ job \in Job /\ DbInv(db) /\ late = None
  BY DEF IInv, Plan, JobOk, LateOk
<1>2. CASE ~Removal(db, job.want) /\ Builds(db, job.want) = {}
  <2>1. JobGoesOn(PassEnds(job.changed))
    BY <1>2 DEF Plan
  <2> QED
    BY <1>1, <2>1, PassEndsOk, GoesOnInv
<1>3. CASE ~(~Removal(db, job.want) /\ Builds(db, job.want) = {})
  <2>1. PICK at \in {"delete", "builds"}, todo \in {{}, Builds(db, job.want)} :
          /\ JobGoesOn([job EXCEPT !.at = at, !.todo = todo])
          /\ at = "delete" => Removal(db, job.want)
    BY <1>3 DEF Plan
  <2> DEFINE j == [job EXCEPT !.at = at, !.todo = todo]
  <2>2. todo \subseteq Build /\ \A b \in todo : b.space # {}
    BY <1>1, BuildsOk
  <2>3. j \in Job /\ j.at = at /\ j.todo = todo
    BY <1>1, <2>2 DEF Job
  <2>4. JobGoesOn(j)
    BY <2>1
  <2> HIDE DEF j
  <2>5. at = "delete" => Unserved(db)
    <3>1. job.want \in Wants
      BY <1>1 DEF Job
    <3> QED
      BY <1>1, <2>1, <3>1 DEF Removal, Unserved, JobOk, Wants
  <2>6. JobOk(j, db)
    BY <2>2, <2>3, <2>5 DEF JobOk
  <2> QED
    BY <1>1, <2>4, <2>6, GoesOnInv
<1> QED
  BY <1>2, <1>3

LEMMA TakeBuildInv == ASSUME IInv, TakeBuild PROVE IInv'
<1>1. /\ job.at = "builds" /\ JobOk(job, db) /\ job \in Job /\ late = None
  BY DEF IInv, TakeBuild, JobOk, LateOk
<1>2. CASE job.todo = {}
  BY <1>1, <1>2, PassEndsOk, GoesOnInv DEF TakeBuild
<1>3. CASE job.todo # {}
  <2>1. PICK b \in job.todo :
          JobGoesOn(IF b.resume THEN Filling([job EXCEPT !.build = b])
                    ELSE [job EXCEPT !.build = b, !.at = "scale"])
    BY <1>3 DEF TakeBuild
  <2>2. b \in Build /\ b.space # {} /\ \A c \in job.todo : c.space # {}
    BY <1>1 DEF Job, JobOk
  <2>3. CASE b.resume
    <3> DEFINE j == [job EXCEPT !.build = b]
    <3>1. j \in Job /\ j.todo = job.todo /\ j.build = b
      BY <1>1, <2>2 DEF Job
    <3>2. JobGoesOn(Filling(j))
      BY <2>1, <2>3
    <3> HIDE DEF j
    <3>3. JobOk(Filling(j), db)
      BY <2>2, <3>1, FillingOk
    <3> QED
      BY <1>1, <3>2, <3>3, GoesOnInv
  <2>4. CASE ~b.resume
    <3> DEFINE j == [job EXCEPT !.build = b, !.at = "scale"]
    <3>1. j \in Job /\ j.todo = job.todo /\ j.build = b /\ j.at = "scale"
      BY <1>1, <2>2 DEF Job
    <3>2. JobGoesOn(j)
      BY <2>1, <2>4
    <3> HIDE DEF j
    <3>3. JobOk(j, db)
      BY <2>2, <3>1 DEF JobOk
    <3> QED
      BY <1>1, <3>2, <3>3, GoesOnInv
  <2> QED
    BY <2>3, <2>4
<1> QED
  BY <1>2, <1>3

LEMMA ComputeScaleInv == ASSUME IInv, ComputeScale PROVE IInv'
<1> DEFINE members == UNION {Of(db, s) : s \in job.build.space}
           scale == CHOOSE v \in members : \A w \in members : w <= v
           j == [job EXCEPT !.at = "start", !.cursor = scale]
<1>1. /\ job.at = "scale" /\ JobOk(job, db) /\ job \in Job /\ late = None /\ DbInv(db)
  BY DEF IInv, ComputeScale, JobOk, LateOk
<1>2. members \subseteq Vectors
  BY <1>1 DEF DbInv, Database, Of
<1>3. members # {} => scale \in Vectors
  <2> SUFFICES ASSUME members # {} PROVE scale \in members
    BY <1>2
  <2>1. members \subseteq Nat /\ IsFiniteSet(members)
    BY <1>2, VectorsAssumption, FS_Subset DEF VectorsAssumption
  <2> HIDE DEF members
  <2>2. \E v \in members : \A w \in members : w <= v
    BY <2>1, GreatestExists
  <2> QED
    BY <2>2
<1>4. PICK k : /\ JobGoesOn(k)
               /\ \/ k \in {NextBuild(job, TRUE), NextBuild(job, FALSE)}
                  \/ members # {} /\ k = j
  BY DEF ComputeScale
<1> HIDE DEF members, scale
<1>5. members # {} => JobOk(j, db)
  <2> SUFFICES ASSUME scale \in Vectors PROVE JobOk(j, db)
    BY <1>3
  <2>1. j \in Job /\ j.at = "start" /\ j.cursor = scale /\ j.todo = job.todo /\ j.build = job.build
    BY <1>1, VectorsAssumption DEF Job, VectorsAssumption
  <2> HIDE DEF j
  <2> QED
    BY <1>1, <2>1 DEF JobOk
<1>6. JobOk(NextBuild(job, TRUE), db) /\ JobOk(NextBuild(job, FALSE), db)
  BY <1>1, NextBuildOk DEF JobOk
<1> HIDE DEF j
<1>7. JobOk(k, db)
  BY <1>4, <1>5, <1>6
<1> QED
  BY <1>1, <1>4, <1>7, GoesOnInv

-----------------------------------------------------------------------------
(* The queue, faults and the API                                           *)

(* A request moves, and nothing it does touches the database.              *)
LEMMA RequestMoves ==
    ASSUME IInv, NEW r \in Requests, NEW next, RequestAt(r, next),
           next.at = "sync" => next.want \in Wants
    PROVE  /\ DOMAIN request' = Requests
           /\ \A q \in Requests : request'[q].at = "sync" => request'[q].want \in Wants
BY DEF IInv, RequestAt

(* What no job, message or row takes part in.                              *)
LEMMA OthersMoveInv ==
    ASSUME IInv, UNCHANGED <<db, late, job>>,
           desired' \in Wants \cup {"invalid"}, queue' \subseteq {"batch", "reconcile"},
           DOMAIN request' = Requests,
           \A r \in Requests : request'[r].at = "sync" => request'[r].want \in Wants
    PROVE  IInv'
BY DEF IInv, LateOk

LEMMA StartJobInv == ASSUME IInv, NEW kind \in queue, StartJob(kind) PROVE IInv'
<1> DEFINE at == IF kind = "batch" THEN "working" ELSE "load"
           j == [NoJob EXCEPT !.kind = kind, !.at = at]
<1>1. kind \in {"batch", "reconcile"} /\ at \in {"working", "load"}
  BY DEF IInv
<1> HIDE DEF at
<1>2. j \in Job /\ j.at = at /\ j.todo = {}
  BY <1>1 DEF NoJob, Job, Build, NoBuild, Wants
<1>3. job' = j
  BY DEF StartJob, at
<1> HIDE DEF j
<1>4. JobOk(j, db)
  BY <1>1, <1>2 DEF JobOk
<1>5. UNCHANGED <<desired, db, late, request>> /\ queue' \subseteq queue
  BY DEF StartJob
<1> QED
  BY <1>1, <1>2, <1>3, <1>4, <1>5 DEF IInv, LateOk

(* The job is gone.                                                        *)
LEMMA NoJobFits == ASSUME NEW d PROVE JobOk(NoJob, d)
BY NoJobOk DEF JobOk

LEMMA JobFinishedInv == ASSUME IInv, JobFinished PROVE IInv'
BY NoJobFits, NoJobOk DEF IInv, JobFinished, LateOk

LEMMA EnqueueBatchInv == ASSUME IInv, EnqueueBatch PROVE IInv'
<1>1. desired' \in Wants \cup {"invalid"} /\ queue' \subseteq {"batch", "reconcile"}
  BY DEF IInv, EnqueueBatch
<1> QED
  BY <1>1, OthersMoveInv DEF IInv, EnqueueBatch

(* What the cancelled job has sent is as good as the job was.              *)
LEMMA CancelInv == ASSUME IInv, Cancel PROVE IInv'
<1>1. /\ job' = NoJob /\ UNCHANGED <<desired, db, queue, request>>
      /\ late' \in IF Writes(job) /\ late = None THEN {None, job} ELSE {late}
  BY DEF Cancel
<1>2. late' # None => JobOk(late', db) /\ Writes(late')
  BY <1>1 DEF IInv, LateOk
<1> QED
  BY <1>1, <1>2, NoJobFits, NoJobOk DEF IInv, LateOk

LEMMA RestartInv == ASSUME IInv, Restart PROVE IInv'
<1>1. job' = NoJob /\ queue' = {} /\ late' = None /\ UNCHANGED <<desired, db>>
  BY DEF Restart
<1>2. DOMAIN request' = Requests /\ \A r \in Requests : request'[r].at # "sync"
  BY DEF Restart
<1> QED
  BY <1>1, <1>2, NoJobFits DEF IInv, LateOk

LEMMA CommitInv ==
    ASSUME IInv, NEW r \in Requests, NEW want \in Wants, Commit(r, want) PROVE IInv'
BY OthersMoveInv, RequestMoves DEF IInv, Commit

LEMMA HandEditInv ==
    ASSUME IInv, NEW want \in Wants \cup {"invalid"}, HandEdit(want) PROVE IInv'
BY OthersMoveInv DEF IInv, HandEdit

LEMMA CheckInv == ASSUME IInv, NEW r \in Requests, Check(r) PROVE IInv'
<1>1. PICK next : /\ RequestAt(r, next)
                  /\ \/ next \in {Idle, [at |-> "enqueue"]}
                     \/ desired # "invalid" /\ next = [at |-> "sync", want |-> desired]
  BY DEF Check
<1>2. next.at = "sync" => next.want \in Wants
  BY <1>1 DEF Idle, IInv
<1>3. UNCHANGED <<desired, db, late, queue, job>>
  BY DEF Check
<1> QED
  BY <1>1, <1>2, <1>3, OthersMoveInv, RequestMoves DEF IInv

LEMMA SyncNowInv == ASSUME IInv, NEW r \in Requests, SyncNow(r) PROVE IInv'
<1>1. /\ late = None /\ db' = Synced(db, request[r].want) /\ RequestAt(r, Idle)
      /\ UNCHANGED <<desired, late, queue, job>>
  BY DEF SyncNow
<1>2. DbInv(db') /\ (Unserved(db) => Unserved(db'))
  BY <1>1, SyncedInv DEF IInv
<1>3. /\ DOMAIN request' = Requests
      /\ \A q \in Requests : request'[q].at = "sync" => request'[q].want \in Wants
  BY <1>1, RequestMoves DEF Idle
<1> QED
  BY <1>1, <1>2, <1>3, DbMovesInv

LEMMA EnqueueReconcileInv == ASSUME IInv, NEW r \in Requests, EnqueueReconcile(r) PROVE IInv'
<1>1. queue' \subseteq {"batch", "reconcile"} /\ UNCHANGED <<desired, db, late, job>>
  BY DEF EnqueueReconcile, IInv
<1>2. RequestAt(r, Idle)
  BY DEF EnqueueReconcile
<1> QED
  BY <1>1, <1>2, OthersMoveInv, RequestMoves DEF IInv, Idle

LEMMA AskRebuildInv ==
    ASSUME IInv, NEW r \in Requests, NEW s \in Setters, AskRebuild(r, s) PROVE IInv'
<1>1. PICK space : RequestAt(r, [at |-> "mark", space |-> space])
  BY DEF AskRebuild
<1>2. UNCHANGED <<desired, db, late, queue, job>>
  BY DEF AskRebuild
<1> QED
  BY <1>1, <1>2, OthersMoveInv, RequestMoves DEF IInv

LEMMA MarkRequestInv == ASSUME IInv, NEW r \in Requests, Mark(r) PROVE IInv'
<1>1. /\ late = None /\ db' = MarkRebuild(db, request[r].space).db
      /\ UNCHANGED <<desired, late, queue, job>>
  BY DEF Mark
<1>2. DbInv(db') /\ (Unserved(db) => Unserved(db'))
  BY <1>1, MarkInv DEF IInv
<1>3. PICK next \in {Idle, [at |-> "enqueue"]} : RequestAt(r, next)
  BY DEF Mark
<1>4. /\ DOMAIN request' = Requests
      /\ \A q \in Requests : request'[q].at = "sync" => request'[q].want \in Wants
  BY <1>3, RequestMoves DEF Idle
<1> QED
  BY <1>1, <1>2, <1>4, DbMovesInv

LEMMA DeleteInv == ASSUME IInv, NEW v \in Vectors, Delete(v) PROVE IInv'
<1>1. late = None /\ db' = DeleteVector(db, v) /\ UNCHANGED <<desired, late, queue, job, request>>
  BY DEF Delete
<1>2. DbInv(db') /\ (Unserved(db) => Unserved(db'))
  BY <1>1, DeleteVectorInv DEF IInv
<1> QED
  BY <1>1, <1>2, DbMovesInv DEF IInv

(* A search, or nothing, moves.                                            *)
LEMMA ReadersInv ==
    ASSUME IInv, UNCHANGED <<desired, db, late, queue, job, request>> PROVE IInv'
BY DEF IInv, LateOk

LEMMA NextInv == ASSUME IInv, [Next]_vars PROVE IInv'
<1>1. CASE Reconcile
  BY <1>1, JobWritesInv, LoadInv, PlanInv, TakeBuildInv, ComputeScaleInv DEF Reconcile
<1>2. CASE LateWrite \/ FinishingPhase \/ JobFinished \/ EnqueueBatch \/ Cancel \/ Restart
  BY <1>2, LateWriteInv, FinishingPhaseInv, JobFinishedInv, EnqueueBatchInv, CancelInv, RestartInv
<1>3. CASE \E v \in Vectors : Extract(v) \/ Delete(v)
  BY <1>3, ExtractInv, DeleteInv
<1>4. CASE \E kind \in queue : StartJob(kind)
  BY <1>4, StartJobInv
<1>5. CASE \E want \in {"wanted", "unwanted", "invalid"} : HandEdit(want)
  BY <1>5, HandEditInv DEF Wants
<1>6. ASSUME NEW r \in Requests, Serve(r) PROVE IInv'
  BY <1>6, CheckInv, SyncNowInv, EnqueueReconcileInv, MarkRequestInv DEF Serve
<1>7. ASSUME NEW r \in Requests, \E want \in {"wanted", "unwanted"} : Commit(r, want) PROVE IInv'
  BY <1>7, CommitInv DEF Wants
<1>8. ASSUME NEW r \in Requests, \E s \in Setters : AskRebuild(r, s) PROVE IInv'
  BY <1>8, AskRebuildInv
<1>9. CASE (\E setters \in SUBSET Setters : ResolveSearch(setters)) \/ RunSearch \/ UNCHANGED vars
  <2>1. UNCHANGED <<desired, db, late, queue, job, request>>
    BY <1>9 DEF ResolveSearch, RunSearch, vars
  <2> QED
    BY <2>1, ReadersInv
<1> QED
  BY <1>1, <1>2, <1>3, <1>4, <1>5, <1>6, <1>7, <1>8, <1>9 DEF Next

LEMMA Invariance == Spec => []IInv
BY InitInv, NextInv, PTL DEF Spec

-----------------------------------------------------------------------------
(* What follows                                                            *)

LEMMA TypeFollows == ASSUME IInv PROVE TypeOK
<1>1. DbInv(db) /\ db \in Database
  BY DEF IInv, DbInv
<1>2. \A v \in Vectors : db.quants[v].rev = 0 <=> db.quants[v].scale = 0
  BY <1>1 DEF DbInv, QuantOk
<1>3. ASSUME db.profile = "absent" PROVE ~HasQuants(db)
  <2>1. \A v \in Vectors : db.quants[v] = NoQuant
    BY <1>1, <1>3, QuantsWithoutPairs
  <2>2. db.vectors \subseteq Vectors
    BY <1>1 DEF Database
  <2> QED
    BY <2>1, <2>2 DEF HasQuants, NoQuant
<1> QED
  BY <1>1, <1>2, <1>3 DEF IInv, DbInv, TypeOK, Wants

(* Whatever a sequence of transactions, jobs and requests has left: a row  *)
(* that is not there is empty, and pairs belong to a profile.              *)
THEOREM TypesHold == Spec => []TypeOK
BY Invariance, TypeFollows, PTL

(* A ready pair of the active profile misses no vector of its setter, and  *)
(* every quant was made with the pair's scale: backfill, the inline quants *)
(* of new vectors, the downgrade, the rebuild mark, the metadata sync and  *)
(* the deletions of an older removal all keep it (db/vector_quants.rs).    *)
THEOREM ReadyPairsCoverEverything == Spec => []CoverageHolds
<1>1. IInv => CoverageHolds
  BY DEF IInv, DbInv, CoverageHolds
<1> QED
  BY <1>1, Invariance, PTL

(* A quant with its pair's revision has its pair's scale, across builds    *)
(* that were interrupted and resumed, marks and profiles that come back.   *)
THEOREM RevisionsNameOneScale == Spec => []RevisionIsOneScale
<1>1. IInv => RevisionIsOneScale
  <2> SUFFICES ASSUME IInv, NEW v \in db.vectors
               PROVE  db.pairs[SetterOf[v]].scale # 0 /\ db.quants[v].rev = db.pairs[SetterOf[v]].rev
                         => db.quants[v].scale = db.pairs[SetterOf[v]].scale
    BY DEF RevisionIsOneScale
  <2>1. v \in Vectors
    BY DEF IInv, DbInv, Database
  <2> QED
    BY <2>1 DEF IInv, DbInv, QuantOk
<1> QED
  BY <1>1, Invariance, PTL

(* No quant is ahead of its pair, so that the revision a build starts      *)
(* (start_space_build) is new to every quant of the space.                 *)
THEOREM QuantsNeverAhead == Spec => []QuantsAreNotAhead
<1>1. IInv => QuantsAreNotAhead
  <2> SUFFICES ASSUME IInv, NEW v \in db.vectors
               PROVE  db.quants[v].rev <= db.pairs[SetterOf[v]].rev
    BY DEF QuantsAreNotAhead
  <2>1. v \in Vectors
    BY DEF IInv, DbInv, Database
  <2> QED
    BY <2>1 DEF IInv, DbInv, QuantOk
<1> QED
  BY <1>1, Invariance, PTL

(* The three together: a pair that is ready can be searched, in every state. *)
THEOREM QuantsStaySound == Spec => []QuantsAreSound
<1>1. CoverageHolds /\ RevisionIsOneScale /\ QuantsAreNotAhead => QuantsAreSound
  BY DEF QuantsAreSound
<1> QED
  BY <1>1, ReadyPairsCoverEverything, RevisionsNameOneScale, QuantsNeverAhead, PTL

=============================================================================
