------------------------- MODULE TranscodePoolProofs -------------------------
(***************************************************************************)
(* For any keys, slots, ring capacity and number of jobs: the slots, the   *)
(* job table, the queue, the ring and the key map tell of the same jobs;   *)
(* the queue keeps the places it told; and a shutdown that has replied     *)
(* has left no encode behind.                                              *)
(*                                                                         *)
(* A handler changes the table, prunes the ring and then dispatches.  The  *)
(* invariant is stated on values, so that it can be carried through these  *)
(* three parts of a step one after the other.  Ids are counted up, so a    *)
(* queue in the order of submission is a sorted one: that the ids in it    *)
(* differ, and that earlier jobs start earlier, follows from this.         *)
(***************************************************************************)
EXTENDS TranscodePool, SequenceTheorems, FiniteSetTheorems, WellFoundedInduction, TLAPS

Events == {"queued", "running"} \cup Terminal
Entry == [key : Keys, event : Events, cancel : BOOLEAN, position : Nat]
Phases == {"none", "encoding", "encoded"} \cup Terminal

Ordered(s) == \A i, j \in 1..Len(s) : i < j => s[i] < s[j]
Distinct(s) == \A i, j \in 1..Len(s) : s[i] = s[j] => i = j

Is(js, id, events) == js[id] # NoJob /\ js[id].event \in events
Busy(tasks) == {id \in Ids : tasks[id] # "none"}

(* Every entry is in one place: the queue, a task, or the ring.            *)
Placed(js, tasks, q, ring) ==
  /\ js \in [Ids -> {NoJob} \cup Entry]
  /\ tasks \in [Ids -> Phases]
  /\ q \in Seq(Ids) /\ Ordered(q)
  /\ ring \in Seq(Ids) /\ Distinct(ring)
  /\ \A id \in Ids :
       /\ id \in Members(q) <=> Is(js, id, {"queued"})
       /\ tasks[id] # "none" <=> Is(js, id, {"running"})
       /\ id \in Members(ring) <=> Is(js, id, Terminal)

(* The slots are those of the tasks, and an exclusive task is alone.       *)
Counted(js, tasks, busy, alone) ==
  /\ busy \in 0..MaxConcurrent /\ alone \in BOOLEAN
  /\ busy = Cardinality(Busy(tasks))
  /\ alone <=> \E id \in Busy(tasks) : js[id].key \in Exclusive
  /\ alone => busy = 1

(* The map names the job in flight for a key, and every wanted job is the  *)
(* one that the map names.                                                 *)
Mapped(js, map, down) ==
  /\ map \in [Keys -> {Free} \cup Ids]
  /\ \A k \in Keys : map[k] # Free =>
       /\ Is(js, map[k], {"queued", "running"})
       /\ js[map[k]].key = k
       /\ ~down => ~js[map[k]].cancel
  /\ \A id \in Ids : Is(js, id, {"queued", "running"}) /\ ~js[id].cancel =>
       map[js[id].key] = id

Told(js, q) == \A i \in 1..Len(q) : js[q[i]].position = i

(* Two tables that differ in positions, and in which of the queued jobs    *)
(* run.                                                                    *)
Alike(js, js2) ==
  \A id \in Ids :
    /\ js2[id] = NoJob <=> js[id] = NoJob
    /\ js[id] # NoJob =>
         /\ js2[id].key = js[id].key /\ js2[id].cancel = js[id].cancel
         /\ js2[id].event = js[id].event \/ (js[id].event = "queued" /\ js2[id].event = "running")

-----------------------------------------------------------------------------
(* Sequences and numbers                                                   *)

LEMMA MembersOf ==
  ASSUME NEW s \in Seq(Ids)
  PROVE  Members(s) = {s[i] : i \in 1..Len(s)} /\ Members(s) \subseteq Ids
BY LenProperties, ElementOfSeq DEF Members

LEMMA OrderedIsDistinct ==
  ASSUME NEW s \in Seq(Ids), Ordered(s) PROVE Distinct(s)
<1> SUFFICES ASSUME NEW i \in 1..Len(s), NEW j \in 1..Len(s), s[i] = s[j], i # j PROVE FALSE
  BY DEF Distinct
<1>1. s[i] \in Nat /\ s[j] \in Nat
  BY ElementOfSeq, PoolAssumption DEF Ids, PoolAssumption
<1>2. i < j \/ j < i
  BY LenProperties
<1> QED
  BY <1>1, <1>2 DEF Ordered

(* The tail that is left when the first n go.                              *)
LEMMA TailOf ==
  ASSUME NEW s \in Seq(Ids), NEW n \in 0..Len(s)
  PROVE  LET t == SubSeq(s, n + 1, Len(s))
         IN /\ t \in Seq(Ids) /\ Len(t) = Len(s) - n
            /\ \A i \in 1..Len(t) : t[i] = s[i + n] /\ i + n \in 1..Len(s)
            /\ Ordered(s) => Ordered(t)
            /\ Distinct(s) => /\ Distinct(t)
                              /\ Members(t) = Members(s) \ {s[i] : i \in 1..n}
<1> DEFINE t == SubSeq(s, n + 1, Len(s))
<1>0. Len(s) \in Nat /\ n \in Nat /\ n <= Len(s)
  BY LenProperties
<1>1. \A i \in (n + 1)..Len(s) : s[i] \in Ids
  BY <1>0, ElementOfSeq
<1>2. /\ t \in Seq(Ids)
      /\ Len(t) = IF n + 1 <= Len(s) THEN Len(s) - (n + 1) + 1 ELSE 0
      /\ \A i \in 1..(Len(s) - (n + 1) + 1) : t[i] = s[n + 1 + i - 1]
  BY <1>0, <1>1, SubSeqProperties
<1> HIDE DEF t
<1>3. Len(t) = Len(s) - n
  BY <1>0, <1>2
<1>4. \A i \in 1..Len(t) : t[i] = s[i + n] /\ i + n \in 1..Len(s)
  <2> SUFFICES ASSUME NEW i \in 1..Len(t) PROVE t[i] = s[i + n] /\ i + n \in 1..Len(s)
    OBVIOUS
  <2>1. n + 1 + i - 1 = i + n /\ i \in 1..(Len(s) - (n + 1) + 1)
    BY <1>0, <1>3
  <2> QED
    BY <1>0, <1>2, <1>3, <2>1
<1>5. Ordered(s) => Ordered(t)
  BY <1>0, <1>3, <1>4 DEF Ordered
<1>6. ASSUME Distinct(s) PROVE Distinct(t)
  <2> SUFFICES ASSUME NEW i \in 1..Len(t), NEW j \in 1..Len(t), t[i] = t[j] PROVE i = j
    BY DEF Distinct
  <2>1. i + n = j + n
    BY <1>4, <1>6 DEF Distinct
  <2> QED
    BY <2>1, <1>0, <1>3
<1>7. ASSUME Distinct(s) PROVE Members(t) = Members(s) \ {s[i] : i \in 1..n}
  <2>1. ASSUME NEW x \in Members(t) PROVE x \in Members(s) /\ x \notin {s[i] : i \in 1..n}
    <3>1. PICK i \in 1..Len(t) : x = t[i]
      BY <1>2, <2>1, MembersOf
    <3>2. x = s[i + n] /\ i + n \in 1..Len(s)
      BY <1>4, <3>1
    <3>3. ASSUME NEW j \in 1..n, x = s[j] PROVE FALSE
      <4>1. j \in 1..Len(s) /\ j # i + n
        BY <1>0, <1>3
      <4> QED
        BY <1>7, <3>2, <3>3, <4>1 DEF Distinct
    <3> QED
      BY <3>2, <3>3, MembersOf
  <2>2. ASSUME NEW x \in Members(s), x \notin {s[i] : i \in 1..n} PROVE x \in Members(t)
    <3>1. PICK i \in 1..Len(s) : x = s[i]
      BY <2>2, MembersOf
    <3>2. i \notin 1..n
      BY <2>2, <3>1
    <3>3. i - n \in 1..Len(t) /\ (i - n) + n = i
      BY <1>0, <1>3, <3>2
    <3>4. t[i - n] = s[i]
      BY <1>4, <3>3
    <3> QED
      BY <1>2, <3>1, <3>3, <3>4, MembersOf
  <2> QED
    BY <2>1, <2>2
<1> QED
  BY <1>2, <1>3, <1>4, <1>5, <1>6, <1>7 DEF t

(* A sequence without the element at one place.                            *)
LEMMA Without ==
  ASSUME NEW s \in Seq(Ids), NEW at \in 1..Len(s)
  PROVE  LET t == RemoveAt(s, at)
         IN /\ t \in Seq(Ids) /\ Len(t) = Len(s) - 1
            /\ \A i \in 1..Len(t) : /\ t[i] = s[IF i < at THEN i ELSE i + 1]
                                    /\ (IF i < at THEN i ELSE i + 1) \in 1..Len(s)
            /\ Ordered(s) => Ordered(t) /\ Members(t) = Members(s) \ {s[at]}
<1> DEFINE u == SubSeq(s, 1, at - 1)
           v == SubSeq(s, at + 1, Len(s))
           t == RemoveAt(s, at)
<1>0. Len(s) \in Nat /\ at \in Nat /\ 1 <= at /\ at <= Len(s)
  BY LenProperties
<1>1. u \in Seq(Ids) /\ Len(u) = at - 1 /\ \A i \in 1..(at - 1) : u[i] = s[i]
  <2>1. \A i \in 1..(at - 1) : s[i] \in Ids
    BY <1>0, ElementOfSeq
  <2>2. /\ u \in Seq(Ids) /\ Len(u) = IF 1 <= at - 1 THEN at - 1 - 1 + 1 ELSE 0
        /\ \A i \in 1..(at - 1 - 1 + 1) : u[i] = s[1 + i - 1]
    BY <1>0, <2>1, SubSeqProperties
  <2> HIDE DEF u
  <2> QED
    BY <1>0, <2>2
<1>2. v \in Seq(Ids) /\ Len(v) = Len(s) - at /\ \A i \in 1..Len(v) : v[i] = s[i + at]
  BY <1>0, TailOf
<1>3. t = u \o v
  BY DEF RemoveAt
<1> HIDE DEF u, v, t
<1>4. /\ t \in Seq(Ids) /\ Len(t) = Len(u) + Len(v)
      /\ \A i \in 1..(Len(u) + Len(v)) : t[i] = IF i <= Len(u) THEN u[i] ELSE v[i - Len(u)]
  BY <1>1, <1>2, <1>3, ConcatProperties
<1>5. Len(t) = Len(s) - 1
  BY <1>0, <1>1, <1>2, <1>4
<1>6. ASSUME NEW i \in 1..Len(t)
      PROVE  /\ t[i] = s[IF i < at THEN i ELSE i + 1]
             /\ (IF i < at THEN i ELSE i + 1) \in 1..Len(s)
  <2>1. CASE i < at
    <3>1. i <= Len(u) /\ i \in 1..(at - 1) /\ i \in 1..(Len(u) + Len(v)) /\ i \in 1..Len(s)
      BY <1>0, <1>1, <1>2, <1>4, <2>1
    <3>2. t[i] = u[i] /\ u[i] = s[i]
      BY <1>1, <1>4, <3>1
    <3> QED
      BY <2>1, <3>1, <3>2
  <2>2. CASE ~(i < at)
    <3>1. /\ ~(i <= Len(u)) /\ i \in 1..(Len(u) + Len(v)) /\ i + 1 \in 1..Len(s)
          /\ i - Len(u) \in 1..Len(v) /\ (i - Len(u)) + at = i + 1
      BY <1>0, <1>1, <1>2, <1>4, <2>2
    <3>2. t[i] = v[i - Len(u)] /\ v[i - Len(u)] = s[i + 1]
      BY <1>2, <1>4, <3>1
    <3> QED
      BY <2>2, <3>1, <3>2
  <2> QED
    BY <2>1, <2>2
<1>7. ASSUME Ordered(s) PROVE Ordered(t)
  <2> SUFFICES ASSUME NEW i \in 1..Len(t), NEW j \in 1..Len(t), i < j PROVE t[i] < t[j]
    BY DEF Ordered
  <2> DEFINE from(x) == IF x < at THEN x ELSE x + 1
  <2>1. from(i) \in 1..Len(s) /\ from(j) \in 1..Len(s) /\ from(i) < from(j)
    BY <1>0, <1>5, <1>6
  <2>2. t[i] = s[from(i)] /\ t[j] = s[from(j)]
    BY <1>6
  <2> HIDE DEF from
  <2> QED
    BY <1>7, <2>1, <2>2 DEF Ordered
<1>8. ASSUME Ordered(s) PROVE Members(t) = Members(s) \ {s[at]}
  <2>0. Distinct(s)
    BY <1>8, OrderedIsDistinct
  <2>1. ASSUME NEW x \in Members(t) PROVE x \in Members(s) /\ x # s[at]
    <3>1. PICK i \in 1..Len(t) : x = t[i]
      BY <1>4, <2>1, MembersOf
    <3> DEFINE j == IF i < at THEN i ELSE i + 1
    <3>2. x = s[j] /\ j \in 1..Len(s) /\ j # at
      BY <1>0, <1>5, <1>6, <3>1
    <3> QED
      BY <2>0, <3>2, MembersOf DEF Distinct
  <2>2. ASSUME NEW x \in Members(s), x # s[at] PROVE x \in Members(t)
    <3>1. PICK j \in 1..Len(s) : x = s[j]
      BY <2>2, MembersOf
    <3> DEFINE i == IF j < at THEN j ELSE j - 1
    <3>2. i \in 1..Len(t) /\ j = IF i < at THEN i ELSE i + 1
      BY <1>0, <1>5, <2>2, <3>1
    <3>3. t[i] = s[j]
      BY <1>6, <3>2
    <3> QED
      BY <1>4, <3>1, <3>2, <3>3, MembersOf
  <2> QED
    BY <2>1, <2>2
<1> QED
  BY <1>4, <1>5, <1>6, <1>7, <1>8 DEF t

(* Every set of naturals that is not empty has a least element: the least  *)
(* of the intervals that its elements span.                                *)
LEMMA Least ==
  ASSUME NEW T \in SUBSET Nat, T # {}
  PROVE  \E x \in T : \A y \in T : x <= y
<1> DEFINE F == {0..n : n \in T}
           R == StrictSubsetOrdering(Nat)
<1>1. F \subseteq FiniteSubsetsOf(Nat)
  <2>1. ASSUME NEW n \in T PROVE 0..n \in SUBSET Nat /\ IsFiniteSet(0..n)
    BY FS_Interval
  <2> QED
    BY <2>1 DEF FiniteSubsetsOf
<1>2. IsWellFoundedOn(R, FiniteSubsetsOf(Nat))
  BY FS_StrictSubsetOrderingWellFounded
<1> HIDE DEF R
<1>3. F # {}
  OBVIOUS
<1>4. PICK x \in F : \A y \in F : ~(<<y, x>> \in R)
  BY <1>1, <1>2, <1>3, WFMin
<1>5. PICK n \in T : x = 0..n
  OBVIOUS
<1>6. ASSUME NEW m \in T PROVE n <= m
  <2> SUFFICES ASSUME m < n PROVE FALSE
    OBVIOUS
  <2>1. <<0..m, 0..n>> \notin R
    BY <1>4, <1>5
  <2>2. 0..m \subseteq 0..n /\ 0..m # 0..n /\ 0..m \subseteq Nat /\ 0..n \subseteq Nat
    <3>1. n \in 0..n /\ n \notin 0..m
      BY <1>5
    <3> QED
      BY <3>1
  <2> QED
    BY <2>1, <2>2 DEF R, StrictSubsetOrdering
<1> QED
  BY <1>5, <1>6

-----------------------------------------------------------------------------
(* dispatch                                                                *)

FitsAt(js, q, busy, alone, i) ==
  /\ busy + i <= MaxConcurrent
  /\ ~alone
  /\ \A j \in 1..(i - 1) : js[q[j]].key \notin Exclusive
  /\ js[q[i]].key \in Exclusive => busy + i = 1

(* There is such a number: the first place that does not fit ends it.      *)
LEMMA StartableFits ==
  ASSUME NEW js, NEW q \in Seq(Ids), NEW busy \in Nat, NEW alone \in BOOLEAN
  PROVE  /\ Startable(js, q, busy, alone) \in 0..Len(q)
         /\ \A i \in 1..Startable(js, q, busy, alone) : FitsAt(js, q, busy, alone, i)
<1> DEFINE Good(n) == /\ \A i \in 1..n : FitsAt(js, q, busy, alone, i)
                      /\ n < Len(q) => ~FitsAt(js, q, busy, alone, n + 1)
           T == {n \in 0..Len(q) : n = Len(q) \/ ~FitsAt(js, q, busy, alone, n + 1)}
<1>0. Len(q) \in Nat
  BY LenProperties
<1>1. Startable(js, q, busy, alone) = CHOOSE n \in 0..Len(q) : Good(n)
  BY DEF Startable, FitsAt
<1>2. PICK n \in T : \A m \in T : n <= m
  <2>1. T \in SUBSET Nat /\ Len(q) \in T
    BY <1>0
  <2> HIDE DEF T
  <2> QED
    BY <2>1, Least
<1>3. ASSUME NEW i \in 1..n PROVE FitsAt(js, q, busy, alone, i)
  <2>1. i - 1 \in 0..Len(q) /\ i - 1 # Len(q) /\ (i - 1) + 1 = i /\ ~(n <= i - 1)
    BY <1>0
  <2>2. i - 1 \notin T
    BY <1>2, <2>1
  <2> QED
    BY <2>1, <2>2
<1>4. n \in 0..Len(q) /\ Good(n)
  BY <1>3
<1> HIDE DEF Good, T
<1>5. Startable(js, q, busy, alone) \in 0..Len(q) /\ Good(Startable(js, q, busy, alone))
  BY <1>1, <1>4
<1> QED
  BY <1>5 DEF Good

(* The first n of a queue are n jobs.                                      *)
LEMMA FirstOnes ==
  ASSUME NEW q \in Seq(Ids), Distinct(q), NEW n \in 0..Len(q)
  PROVE  LET started == {q[i] : i \in 1..n}
         IN IsFiniteSet(started) /\ Cardinality(started) = n
<1> DEFINE started == {q[i] : i \in 1..n}
           f == [i \in 1..n |-> q[i]]
<1>0. Len(q) \in Nat /\ n \in Nat /\ n <= Len(q)
  BY LenProperties
<1>1. f \in Bijection(1..n, started)
  <2>1. f \in [1..n -> started]
    OBVIOUS
  <2>2. ASSUME NEW i \in 1..n, NEW j \in 1..n, f[i] = f[j] PROVE i = j
    <3>1. i \in 1..Len(q) /\ j \in 1..Len(q)
      BY <1>0
    <3> QED
      BY <2>2, <3>1 DEF Distinct
  <2>3. \A x \in started : \E i \in 1..n : f[i] = x
    OBVIOUS
  <2> HIDE DEF f, started
  <2> QED
    BY <2>1, <2>2, <2>3 DEF Bijection, Injection, IsInjective, Surjection
<1>2. IsFiniteSet(1..n) /\ Cardinality(1..n) = n
  BY <1>0, FS_Interval
<1>3. ExistsBijection(1..n, started)
  BY <1>1 DEF ExistsBijection
<1> QED
  BY <1>2, <1>3, FS_Bijection

(* The positions of a table are those of the queue, and nothing else of it *)
(* has changed.                                                            *)
LEMMA Positioned ==
  ASSUME NEW js \in [Ids -> {NoJob} \cup Entry], NEW q \in Seq(Ids), Distinct(q),
         \A i \in 1..Len(q) : js[q[i]] # NoJob
  PROVE  LET told == WithPositions(js, q)
         IN /\ told \in [Ids -> {NoJob} \cup Entry]
            /\ Told(told, q)
            /\ \A id \in Ids :
                 /\ told[id] = NoJob <=> js[id] = NoJob
                 /\ js[id] # NoJob => /\ told[id].key = js[id].key
                                      /\ told[id].cancel = js[id].cancel
                                      /\ told[id].event = js[id].event
<1> DEFINE told == WithPositions(js, q)
           at(id) == CHOOSE i \in DOMAIN q : q[i] = id
<1>0. DOMAIN q = 1..Len(q) /\ Len(q) \in Nat
  BY LenProperties
<1>1. \A id \in Ids :
        told[id] = IF \E i \in DOMAIN q : q[i] = id
                   THEN [js[id] EXCEPT !.position = at(id)] ELSE js[id]
  BY DEF WithPositions
<1>2. \A i \in 1..Len(q) : at(q[i]) = i
  <2> SUFFICES ASSUME NEW i \in 1..Len(q) PROVE at(q[i]) = i
    OBVIOUS
  <2>1. at(q[i]) \in 1..Len(q) /\ q[at(q[i])] = q[i]
    BY <1>0
  <2> QED
    BY <2>1 DEF Distinct
<1>3. told \in [Ids -> {NoJob} \cup Entry] /\ DOMAIN told = Ids
  <2> SUFFICES ASSUME NEW id \in Ids PROVE told[id] \in {NoJob} \cup Entry
    BY DEF WithPositions
  <2>1. CASE \E i \in DOMAIN q : q[i] = id
    <3>1. PICK i \in 1..Len(q) : q[i] = id
      BY <1>0, <2>1
    <3>2. at(id) = i /\ i \in Nat
      BY <1>2, <3>1
    <3>3. js[id] \in Entry /\ told[id] = [js[id] EXCEPT !.position = i]
      BY <1>1, <2>1, <3>1, <3>2
    <3> QED
      BY <3>2, <3>3 DEF Entry
  <2>2. CASE ~\E i \in DOMAIN q : q[i] = id
    BY <1>1, <2>2
  <2> QED
    BY <2>1, <2>2
<1>4. Told(told, q)
  <2> SUFFICES ASSUME NEW i \in 1..Len(q) PROVE told[q[i]].position = i
    BY DEF Told
  <2>1. q[i] \in Ids /\ js[q[i]] \in Entry
    BY ElementOfSeq
  <2>2. told[q[i]] = [js[q[i]] EXCEPT !.position = i]
    BY <1>0, <1>1, <1>2, <2>1
  <2> QED
    BY <2>1, <2>2 DEF Entry
<1>5. ASSUME NEW id \in Ids
      PROVE  /\ told[id] = NoJob <=> js[id] = NoJob
             /\ js[id] # NoJob => /\ told[id].key = js[id].key
                                  /\ told[id].cancel = js[id].cancel
                                  /\ told[id].event = js[id].event
  <2>1. CASE \E i \in DOMAIN q : q[i] = id
    <3>1. js[id] \in Entry /\ js[id] # NoJob
      BY <1>0, <2>1
    <3>2. told[id] = [js[id] EXCEPT !.position = at(id)]
      BY <1>1, <2>1
    <3> HIDE DEF told, at
    <3>3. told[id].key = js[id].key /\ told[id].cancel = js[id].cancel /\ told[id].event = js[id].event
      BY <3>1, <3>2 DEF Entry
    <3>4. told[id].key \in Keys
      BY <3>1, <3>3 DEF Entry
    <3> QED
      BY <3>1, <3>3, <3>4, PoolAssumption DEF NoJob, PoolAssumption
  <2>2. CASE ~\E i \in DOMAIN q : q[i] = id
    BY <1>1, <2>2
  <2> QED
    BY <2>1, <2>2
<1> QED
  BY <1>3, <1>4, <1>5

(* The jobs that start leave the queue, take slots and run; the others     *)
(* learn their places.                                                     *)
LEMMA Dispatched ==
  ASSUME NEW js, NEW tasks, NEW q, NEW ring, NEW busy, NEW alone,
         Placed(js, tasks, q, ring), Counted(js, tasks, busy, alone),
         Dispatch(js, tasks, q, busy, alone)
  PROVE  /\ Placed(jobs', task', queued', ring)
         /\ Counted(jobs', task', running', exclusiveRunning')
         /\ Told(jobs', queued') /\ Alike(js, jobs')
         /\ \E n \in 0..Len(q) :
              /\ queued' = SubSeq(q, n + 1, Len(q))
              /\ shuttingDown => n = 0
              /\ running' = busy + n
              /\ \A id \in Ids : task'[id] = IF \E i \in 1..n : id = q[i]
                                             THEN "encoding" ELSE tasks[id]
<1> DEFINE n == IF shuttingDown THEN 0 ELSE Startable(js, q, busy, alone)
           started == {q[i] : i \in 1..n}
           rest == SubSeq(q, n + 1, Len(q))
           mid == [id \in Ids |-> IF id \in started
                                  THEN [js[id] EXCEPT !.event = "running"] ELSE js[id]]
<1>0. /\ js \in [Ids -> {NoJob} \cup Entry] /\ tasks \in [Ids -> Phases]
      /\ q \in Seq(Ids) /\ Ordered(q) /\ Distinct(q) /\ Len(q) \in Nat
      /\ busy \in Nat /\ busy <= MaxConcurrent /\ alone \in BOOLEAN /\ MaxConcurrent \in Nat
  BY OrderedIsDistinct, LenProperties, PoolAssumption DEF Placed, Counted, PoolAssumption
<1>1. n \in 0..Len(q) /\ \A i \in 1..n : FitsAt(js, q, busy, alone, i)
  <2>1. CASE shuttingDown
    BY <1>0, <2>1
  <2>2. CASE ~shuttingDown
    BY <1>0, <2>2, StartableFits
  <2> QED
    BY <2>1, <2>2
<1>2. /\ queued' = rest /\ jobs' = WithPositions(mid, rest)
      /\ task' = [id \in Ids |-> IF id \in started THEN "encoding" ELSE tasks[id]]
      /\ running' = busy + n
      /\ exclusiveRunning' = (alone \/ \E id \in started : js[id].key \in Exclusive)
  BY DEF Dispatch
<1>21. shuttingDown => n = 0
  OBVIOUS
<1> HIDE DEF n
<1>3. /\ rest \in Seq(Ids) /\ Ordered(rest) /\ Distinct(rest)
      /\ Members(rest) = Members(q) \ started
  BY <1>0, <1>1, TailOf
<1>4. started \subseteq Members(q) /\ started \subseteq Ids
  <2>1. \A i \in 1..n : i \in 1..Len(q)
    BY <1>0, <1>1
  <2> QED
    BY <1>0, <2>1, MembersOf
<1>5. IsFiniteSet(started) /\ Cardinality(started) = n
  BY <1>0, <1>1, FirstOnes
<1>51. \A i \in 1..n : q[i] \in started
  OBVIOUS
<1>52. \A id \in started : \E i \in 1..n : id = q[i]
  OBVIOUS
<1> HIDE DEF started, rest
<1>6. \A id \in started : js[id] \in Entry /\ js[id].event = "queued" /\ tasks[id] = "none"
  BY <1>0, <1>4 DEF Placed, Is
<1>7. /\ mid \in [Ids -> {NoJob} \cup Entry]
      /\ \A id \in Ids : /\ mid[id] = NoJob <=> js[id] = NoJob
                         /\ js[id] # NoJob =>
                              /\ mid[id].key = js[id].key /\ mid[id].cancel = js[id].cancel
                              /\ mid[id].event = IF id \in started THEN "running"
                                                 ELSE js[id].event
  <2>1. ASSUME NEW id \in Ids
        PROVE  /\ mid[id] \in {NoJob} \cup Entry
               /\ mid[id] = NoJob <=> js[id] = NoJob
               /\ js[id] # NoJob =>
                    /\ mid[id].key = js[id].key /\ mid[id].cancel = js[id].cancel
                    /\ mid[id].event = IF id \in started THEN "running" ELSE js[id].event
    <3>1. CASE id \in started
      <4>1. mid[id] = [js[id] EXCEPT !.event = "running"] /\ js[id] \in Entry
        BY <1>6, <3>1
      <4>2. /\ mid[id] \in Entry /\ mid[id].key = js[id].key
            /\ mid[id].cancel = js[id].cancel /\ mid[id].event = "running"
        BY <4>1 DEF Entry, Events
      <4>3. mid[id] # NoJob /\ js[id] # NoJob
        BY <4>1, <4>2, PoolAssumption DEF Entry, NoJob, PoolAssumption
      <4> QED
        BY <3>1, <4>2, <4>3
    <3>2. CASE id \notin started
      BY <1>0, <3>2
    <3> QED
      BY <3>1, <3>2
  <2> QED
    BY <2>1
<1>8. \A i \in 1..Len(rest) : mid[rest[i]] # NoJob
  <2> SUFFICES ASSUME NEW i \in 1..Len(rest) PROVE mid[rest[i]] # NoJob
    OBVIOUS
  <2>1. rest[i] \in Members(q) /\ rest[i] \in Ids
    BY <1>3, MembersOf
  <2>2. js[rest[i]] # NoJob
    BY <2>1 DEF Placed, Is
  <2> QED
    BY <1>7, <2>1, <2>2
<1> HIDE DEF mid
<1>9. /\ jobs' \in [Ids -> {NoJob} \cup Entry] /\ Told(jobs', queued')
      /\ \A id \in Ids : /\ jobs'[id] = NoJob <=> js[id] = NoJob
                         /\ js[id] # NoJob =>
                              /\ jobs'[id].key = js[id].key /\ jobs'[id].cancel = js[id].cancel
                              /\ jobs'[id].event = IF id \in started THEN "running"
                                                   ELSE js[id].event
  BY <1>2, <1>3, <1>7, <1>8, Positioned
<1>10. Alike(js, jobs')
  BY <1>6, <1>9 DEF Alike
<1>11. Placed(jobs', task', queued', ring)
  <2>1. task' \in [Ids -> Phases]
    BY <1>0, <1>2 DEF Phases
  <2>2. ASSUME NEW id \in Ids
        PROVE  /\ id \in Members(queued') <=> Is(jobs', id, {"queued"})
               /\ task'[id] # "none" <=> Is(jobs', id, {"running"})
               /\ id \in Members(ring) <=> Is(jobs', id, Terminal)
    <3>1. CASE id \in started
      <4>1. jobs'[id] # NoJob /\ jobs'[id].event = "running" /\ js[id].event = "queued"
        BY <1>0, <1>6, <1>9, <3>1, PoolAssumption DEF Entry, NoJob, PoolAssumption
      <4>2. id \notin Members(ring)
        BY <4>1 DEF Placed, Is, Terminal
      <4> QED
        BY <1>2, <1>3, <3>1, <4>1, <4>2 DEF Is, Terminal
    <3>2. CASE id \notin started
      BY <1>2, <1>3, <1>9, <3>2 DEF Placed, Is
    <3> QED
      BY <3>1, <3>2
  <2> QED
    BY <1>2, <1>3, <1>9, <2>1, <2>2 DEF Placed
<1>12. Busy(task') = Busy(tasks) \cup started /\ Busy(tasks) \cap started = {}
  BY <1>2, <1>4, <1>6 DEF Busy
<1>13. running' = Cardinality(Busy(task'))
  <2>1. IsFiniteSet(Busy(tasks))
    <3>1. IsFiniteSet(Ids)
      BY FS_Interval, PoolAssumption DEF Ids, PoolAssumption
    <3> QED
      BY <3>1, FS_Subset DEF Busy
  <2>2. Cardinality(Busy(tasks) \cup started)
          = Cardinality(Busy(tasks)) + Cardinality(started) - Cardinality(Busy(tasks) \cap started)
    BY <1>5, <2>1, FS_Union
  <2>3. Cardinality(Busy(tasks) \cap started) = 0
    BY <1>12, FS_EmptySet
  <2>4. Cardinality(Busy(tasks)) = busy
    BY DEF Counted
  <2>5. n \in Nat
    BY <1>0, <1>1
  <2>6. Cardinality(Busy(task')) = busy + n - 0
    BY <1>5, <1>12, <2>2, <2>3, <2>4
  <2> QED
    BY <1>0, <1>2, <2>5, <2>6
<1>14. \A id \in Busy(task') : jobs'[id].key = js[id].key /\ id \in Ids
  <2> SUFFICES ASSUME NEW id \in Busy(task') PROVE jobs'[id].key = js[id].key
    BY DEF Busy
  <2>1. id \in Ids /\ js[id] # NoJob
    BY <1>6, <1>12, PoolAssumption DEF Placed, Is, Busy, Entry, NoJob, PoolAssumption
  <2> QED
    BY <1>9, <2>1
<1>15. exclusiveRunning' <=> \E id \in Busy(task') : jobs'[id].key \in Exclusive
  BY <1>2, <1>12, <1>14 DEF Counted
<1>16. exclusiveRunning' => running' = 1
  <2>1. CASE alone
    <3>1. n = 0
      BY <1>0, <1>1, <2>1 DEF FitsAt
    <3> QED
      BY <1>0, <1>2, <2>1, <3>1 DEF Counted
  <2>2. ASSUME NEW id \in started, js[id].key \in Exclusive PROVE running' = 1
    <3>1. PICK i \in 1..n : id = q[i]
      BY <1>52
    <3>2. busy + i = 1
      BY <1>1, <2>2, <3>1 DEF FitsAt
    <3>3. n <= i
      <4> SUFFICES ASSUME i < n PROVE FALSE
        BY <1>0, <1>1
      <4>1. FitsAt(js, q, busy, alone, n) /\ i \in 1..(n - 1)
        BY <1>0, <1>1
      <4> QED
        BY <2>2, <3>1, <4>1 DEF FitsAt
    <3> QED
      BY <1>0, <1>1, <1>2, <3>2, <3>3
  <2> QED
    BY <1>2, <2>1, <2>2
<1>17. running' \in 0..MaxConcurrent /\ exclusiveRunning' \in BOOLEAN
  <2>1. n # 0 => busy + n <= MaxConcurrent
    BY <1>0, <1>1 DEF FitsAt
  <2> QED
    BY <1>0, <1>1, <1>2, <2>1
<1>18. Counted(jobs', task', running', exclusiveRunning')
  BY <1>13, <1>15, <1>16, <1>17 DEF Counted
<1>19. \A id \in Ids : task'[id] = IF \E i \in 1..n : id = q[i] THEN "encoding" ELSE tasks[id]
  BY <1>2, <1>51, <1>52
<1> QED
  BY <1>1, <1>2, <1>21, <1>9, <1>10, <1>11, <1>18, <1>19 DEF rest

-----------------------------------------------------------------------------
(* What a change of the table leaves alone                                 *)

Open == {"queued", "running"}

(* The jobs in flight are the same, under the same keys and flags.         *)
SameOpen(js, js2) ==
  \A id \in Ids : /\ Is(js2, id, Open) <=> Is(js, id, Open)
                  /\ Is(js, id, Open) => /\ js2[id].key = js[id].key
                                         /\ js2[id].cancel = js[id].cancel

LEMMA AlikeIsSameOpen ==
  ASSUME NEW js, NEW js2, Alike(js, js2) PROVE SameOpen(js, js2)
BY DEF Alike, SameOpen, Is, Open

LEMMA MapSeesOpen ==
  ASSUME NEW js, NEW js2, NEW map, NEW down, SameOpen(js, js2), Mapped(js, map, down)
  PROVE  Mapped(js2, map, down)
<1>1. \A k \in Keys : map[k] # Free => map[k] \in Ids
  BY DEF Mapped
<1> QED
  BY <1>1 DEF Mapped, SameOpen, Open

LEMMA SlotsSeeOpen ==
  ASSUME NEW js, NEW js2, NEW tasks, NEW q, NEW ring, NEW busy, NEW alone,
         Placed(js, tasks, q, ring), Counted(js, tasks, busy, alone),
         \A id \in Ids : Is(js, id, Open) => js2[id].key = js[id].key
  PROVE  Counted(js2, tasks, busy, alone)
<1>1. \A id \in Busy(tasks) : js2[id].key = js[id].key
  BY DEF Busy, Placed, Is, Open
<1> QED
  BY <1>1 DEF Counted

(* Pruning forgets settled jobs, and those that leave the ring only.       *)
LEMMA PruningKeeps ==
  ASSUME NEW js, NEW tasks, NEW q, NEW ring, NEW kept,
         Placed(js, tasks, q, ring), kept \in Pruned(ring) \cup {ring}
  PROVE  LET js2 == Remembered(js, ring, kept)
         IN /\ Placed(js2, tasks, q, kept) /\ SameOpen(js, js2)
            /\ \A id \in Ids : /\ js2[id] \in {js[id], NoJob}
                               /\ Is(js, id, Open) => js2[id] = js[id]
<1> DEFINE js2 == Remembered(js, ring, kept)
<1>0. /\ js \in [Ids -> {NoJob} \cup Entry] /\ ring \in Seq(Ids) /\ Distinct(ring)
      /\ Len(ring) \in Nat
  BY LenProperties DEF Placed
<1>1. kept \in Seq(Ids) /\ Distinct(kept) /\ Members(kept) \subseteq Members(ring)
  <2>1. CASE kept = ring
    BY <1>0, <2>1
  <2>2. CASE kept \in Pruned(ring)
    <3>1. PICK n \in 0..(Len(ring) - 1) : kept = SubSeq(ring, n + 1, Len(ring))
      BY <2>2 DEF Pruned
    <3>2. n \in 0..Len(ring)
      BY <1>0
    <3> QED
      BY <1>0, <3>1, <3>2, TailOf
  <2> QED
    BY <2>1, <2>2
<1>2. \A id \in Ids : js2[id] = IF id \in Members(ring) \ Members(kept) THEN NoJob ELSE js[id]
  BY DEF Remembered
<1>3. js2 \in [Ids -> {NoJob} \cup Entry]
  BY <1>0 DEF Remembered
<1> HIDE DEF js2
<1>4. \A id \in Ids : id \in Members(ring) => ~Is(js, id, Open) /\ ~Is(js, id, {"queued"})
                                              /\ ~Is(js, id, {"running"})
  BY DEF Placed, Is, Open, Terminal
<1>5. ASSUME NEW id \in Ids
      PROVE  /\ id \in Members(q) <=> Is(js2, id, {"queued"})
             /\ tasks[id] # "none" <=> Is(js2, id, {"running"})
             /\ id \in Members(kept) <=> Is(js2, id, Terminal)
             /\ Is(js2, id, Open) <=> Is(js, id, Open)
             /\ Is(js, id, Open) => js2[id] = js[id]
  <2>1. CASE id \in Members(ring) \ Members(kept)
    <3>1. js2[id] = NoJob
      BY <1>2, <2>1
    <3> QED
      BY <1>4, <2>1, <3>1 DEF Placed, Is
  <2>2. CASE id \notin Members(ring) \ Members(kept)
    <3>1. js2[id] = js[id] /\ (id \in Members(kept) <=> id \in Members(ring))
      BY <1>1, <1>2, <2>2
    <3> QED
      BY <3>1 DEF Placed, Is
  <2> QED
    BY <2>1, <2>2
<1>6. Placed(js2, tasks, q, kept)
  BY <1>1, <1>3, <1>5 DEF Placed
<1>7. SameOpen(js, js2)
  BY <1>5 DEF SameOpen
<1> QED
  BY <1>2, <1>5, <1>6, <1>7 DEF js2

-----------------------------------------------------------------------------
(* The invariant                                                           *)

Ending ==
  /\ shuttingDown \in BOOLEAN /\ drained \in {"none", "held", "sent"}
  /\ drained # "none" <=> shuttingDown
  /\ shuttingDown => queued = <<>>
  /\ drained = "sent" => running = 0

Issued ==
  /\ issued \in 0..MaxJobs
  /\ \A id \in Ids : jobs[id] # NoJob => id <= issued
  /\ submitting # NoKey => issued < MaxJobs

IInv ==
  /\ Placed(jobs, task, queued, terminal)
  /\ Counted(jobs, task, running, exclusiveRunning)
  /\ Mapped(jobs, byKey, shuttingDown)
  /\ Told(jobs, queued)
  /\ Issued /\ Ending
  /\ submitting \in Keys \cup {NoKey}

LEMMA InitInv == Init => IInv
<1> SUFFICES ASSUME Init PROVE IInv
  OBVIOUS
<1> USE PoolAssumption DEF PoolAssumption
<1>1. /\ queued = <<>> /\ terminal = <<>> /\ Len(queued) = 0 /\ Len(terminal) = 0
      /\ <<>> \in Seq(Ids) /\ Members(<<>>) = {}
  BY EmptySeq DEF Init, Members
<1>2. Placed(jobs, task, queued, terminal)
  BY <1>1 DEF Init, Placed, Ordered, Distinct, Phases, Is
<1>3. Busy(task) = {}
  BY DEF Init, Busy
<1>4. Counted(jobs, task, running, exclusiveRunning)
  <2>1. Cardinality(Busy(task)) = 0
    BY <1>3, FS_EmptySet
  <2>2. running = 0 /\ exclusiveRunning = FALSE /\ 0 \in 0..MaxConcurrent
    BY DEF Init
  <2> QED
    BY <1>3, <2>1, <2>2 DEF Counted
<1>5. Mapped(jobs, byKey, shuttingDown)
  BY DEF Init, Mapped, Is, Free
<1>6. Told(jobs, queued)
  BY <1>1 DEF Told
<1>7. Issued
  BY DEF Init, Issued
<1>8. Ending
  <2>1. shuttingDown = FALSE /\ drained = "none" /\ running = 0
    BY DEF Init
  <2> QED
    BY <2>1 DEF Ending
<1>9. submitting \in Keys \cup {NoKey}
  BY DEF Init
<1> QED
  BY <1>2, <1>4, <1>5, <1>6, <1>7, <1>8, <1>9 DEF IInv

(* The messages that a handler only looks up with.                         *)
LEMMA LookInv ==
  ASSUME IInv, UNCHANGED <<jobs, issued, queued, byKey, terminal, running,
                           exclusiveRunning, shuttingDown, drained, task>>,
         submitting' \in Keys \cup {NoKey}, submitting' # NoKey => issued < MaxJobs
  PROVE  IInv'
BY DEF IInv, Placed, Counted, Mapped, Told, Issued, Ending, Busy, Is

(* An encode goes on.                                                      *)
LEMMA EncodeInv ==
  ASSUME IInv, NEW id \in Ids, NEW phase \in Phases \ {"none"},
         task[id] # "none", task' = [task EXCEPT ![id] = phase], UNCHANGED actorVars
  PROVE  IInv'
<1>0. Placed(jobs, task, queued, terminal) /\ task \in [Ids -> Phases]
  BY DEF IInv, Placed
<1>1. task' \in [Ids -> Phases] /\ \A o \in Ids : task'[o] # "none" <=> task[o] # "none"
  <2>1. phase \in Phases /\ phase # "none"
    OBVIOUS
  <2>2. task' \in [Ids -> Phases]
    BY <1>0, <2>1
  <2>3. ASSUME NEW o \in Ids PROVE task'[o] # "none" <=> task[o] # "none"
    <3>1. CASE o = id
      <4>1. task'[o] = phase
        BY <1>0, <3>1
      <4> QED
        BY <2>1, <3>1, <4>1
    <3>2. CASE o # id
      <4>1. task'[o] = task[o]
        BY <1>0, <3>2
      <4> QED
        BY <4>1
    <3> QED
      BY <3>1, <3>2
  <2> QED
    BY <2>2, <2>3
<1>2. Placed(jobs, task', queued, terminal) /\ Busy(task') = Busy(task)
  BY <1>0, <1>1 DEF Placed, Busy
<1>3. Counted(jobs, task', running, exclusiveRunning)
  BY <1>2 DEF IInv, Counted
<1>4. /\ jobs' = jobs /\ issued' = issued /\ queued' = queued /\ byKey' = byKey
      /\ terminal' = terminal /\ running' = running /\ exclusiveRunning' = exclusiveRunning
      /\ shuttingDown' = shuttingDown /\ drained' = drained /\ submitting' = submitting
  BY DEF actorVars
<1>5. /\ Placed(jobs', task', queued', terminal')
      /\ Counted(jobs', task', running', exclusiveRunning')
      /\ Mapped(jobs', byKey', shuttingDown') /\ Told(jobs', queued')
  BY <1>2, <1>3, <1>4 DEF IInv
<1>6. Issued' /\ Ending'
  BY <1>4 DEF IInv, Issued, Ending
<1> QED
  BY <1>4, <1>5, <1>6 DEF IInv

(* What a handler has to establish before it prunes; the rest follows.     *)
LEMMA FreshId ==
  ASSUME IInv, submitting # NoKey
  PROVE  LET id == issued + 1
         IN /\ id \in Ids /\ id \in Nat /\ id # Free /\ jobs[id] = NoJob /\ task[id] = "none"
            /\ id \notin Members(queued) /\ id \notin Members(terminal)
            /\ \A k \in Keys : byKey[k] # id
            /\ \A i \in 1..Len(queued) : queued[i] < id
<1> USE PoolAssumption DEF PoolAssumption
<1> DEFINE id == issued + 1
<1>1. id \in Ids /\ id \in Nat /\ id # Free /\ ~(id <= issued) /\ issued \in Nat
  BY DEF IInv, Issued, Ids, Free
<1> HIDE DEF id
<1>2. jobs[id] = NoJob
  BY <1>1 DEF IInv, Issued
<1>3. task[id] = "none" /\ id \notin Members(queued) /\ id \notin Members(terminal)
  BY <1>1, <1>2 DEF IInv, Placed, Is
<1>4. \A k \in Keys : byKey[k] # id
  BY <1>1, <1>2 DEF IInv, Mapped, Is
<1>5. ASSUME NEW i \in 1..Len(queued) PROVE queued[i] < id
  <2>1. queued[i] \in Ids /\ queued[i] \in Members(queued)
    BY MembersOf, ElementOfSeq DEF IInv, Placed
  <2>2. queued[i] <= issued /\ queued[i] \in Nat
    BY <2>1 DEF IInv, Placed, Is, Issued, Ids
  <2> QED
    BY <1>1, <2>2 DEF id
<1> QED
  BY <1>1, <1>2, <1>3, <1>4, <1>5 DEF id

(* The ring, and the queue, with one more job.                             *)
LEMMA Appended ==
  ASSUME NEW s \in Seq(Ids), NEW id \in Ids, id \notin Members(s), Distinct(s)
  PROVE  LET t == Append(s, id)
         IN /\ t \in Seq(Ids) /\ Distinct(t) /\ Members(t) = Members(s) \cup {id}
            /\ Len(t) = Len(s) + 1
            /\ \A i \in 1..Len(s) : t[i] = s[i]
            /\ t[Len(s) + 1] = id
            /\ Ordered(s) /\ (\A i \in 1..Len(s) : s[i] < id) => Ordered(t)
<1> DEFINE t == Append(s, id)
<1>1. /\ t \in Seq(Ids) /\ Len(t) = Len(s) + 1 /\ Len(s) \in Nat
      /\ \A i \in 1..Len(s) : t[i] = s[i]
      /\ t[Len(s) + 1] = id
  BY AppendProperties, LenProperties
<1> HIDE DEF t
<1>2. \A i \in 1..Len(t) : i \in 1..Len(s) \/ i = Len(s) + 1
  BY <1>1
<1>3. Members(t) = Members(s) \cup {id}
  <2>1. Len(s) + 1 \in 1..Len(t) /\ \A i \in 1..Len(s) : i \in 1..Len(t)
    BY <1>1
  <2> QED
    BY <1>1, <1>2, <2>1, MembersOf
<1>4. \A i \in 1..Len(s) : s[i] # id
  BY MembersOf
<1>5. Distinct(t)
  BY <1>1, <1>2, <1>4 DEF Distinct
<1>6. ASSUME Ordered(s), \A i \in 1..Len(s) : s[i] < id PROVE Ordered(t)
  <2> SUFFICES ASSUME NEW i \in 1..Len(t), NEW j \in 1..Len(t), i < j PROVE t[i] < t[j]
    BY DEF Ordered
  <2>1. i \in 1..Len(s)
    BY <1>1
  <2> QED
    BY <1>1, <1>2, <1>6, <2>1 DEF Ordered
<1> QED
  BY <1>1, <1>3, <1>5, <1>6 DEF t

(* Two rings of different jobs, one after the other.                       *)
LEMMA Joined ==
  ASSUME NEW s \in Seq(Ids), NEW r \in Seq(Ids), Distinct(s), Distinct(r),
         Members(s) \cap Members(r) = {}
  PROVE  LET t == s \o r
         IN t \in Seq(Ids) /\ Distinct(t) /\ Members(t) = Members(s) \cup Members(r)
<1> DEFINE t == s \o r
<1>1. /\ t \in Seq(Ids) /\ Len(t) = Len(s) + Len(r) /\ Len(s) \in Nat /\ Len(r) \in Nat
      /\ \A i \in 1..(Len(s) + Len(r)) : t[i] = IF i <= Len(s) THEN s[i] ELSE r[i - Len(s)]
  BY ConcatProperties, LenProperties
<1> HIDE DEF t
<1>2. \A i \in 1..Len(t) : \/ i \in 1..Len(s) /\ t[i] = s[i]
                           \/ i - Len(s) \in 1..Len(r) /\ t[i] = r[i - Len(s)]
  BY <1>1
<1>3. \A i \in 1..Len(s) : i \in 1..Len(t) /\ t[i] = s[i]
  BY <1>1
<1>4. \A i \in 1..Len(r) : i + Len(s) \in 1..Len(t) /\ t[i + Len(s)] = r[i]
  <2> SUFFICES ASSUME NEW i \in 1..Len(r)
               PROVE  i + Len(s) \in 1..Len(t) /\ t[i + Len(s)] = r[i]
    OBVIOUS
  <2>1. /\ i + Len(s) \in 1..(Len(s) + Len(r)) /\ ~(i + Len(s) <= Len(s))
        /\ (i + Len(s)) - Len(s) = i
    BY <1>1
  <2> QED
    BY <1>1, <2>1
<1>5. Members(t) = Members(s) \cup Members(r)
  <2>0. /\ Members(t) = {t[i] : i \in 1..Len(t)} /\ Members(s) = {s[i] : i \in 1..Len(s)}
        /\ Members(r) = {r[i] : i \in 1..Len(r)}
    BY <1>1, MembersOf
  <2>1. ASSUME NEW x \in Members(t) PROVE x \in Members(s) \cup Members(r)
    BY <1>2, <2>0
  <2>2. ASSUME NEW x \in Members(s) PROVE x \in Members(t)
    BY <1>3, <2>0
  <2>3. ASSUME NEW x \in Members(r) PROVE x \in Members(t)
    <3>1. PICK i \in 1..Len(r) : x = r[i]
      BY <2>0
    <3> QED
      BY <1>4, <2>0, <3>1
  <2> QED
    BY <2>1, <2>2, <2>3
<1>6. Distinct(t)
  <2> SUFFICES ASSUME NEW i \in 1..Len(t), NEW j \in 1..Len(t), t[i] = t[j] PROVE i = j
    BY DEF Distinct
  <2>1. \A m \in 1..Len(s), n \in 1..Len(r) : s[m] # r[n]
    BY MembersOf
  <2>2. CASE i \in 1..Len(s) /\ t[i] = s[i]
    BY <1>2, <2>1, <2>2 DEF Distinct
  <2>3. CASE i - Len(s) \in 1..Len(r) /\ t[i] = r[i - Len(s)]
    <3>1. j - Len(s) \in 1..Len(r) /\ t[j] = r[j - Len(s)]
      BY <1>2, <2>1, <2>3
    <3>2. i - Len(s) = j - Len(s)
      BY <2>3, <3>1 DEF Distinct
    <3> QED
      BY <1>1, <3>2
  <2> QED
    BY <1>2, <2>2, <2>3
<1> QED
  BY <1>1, <1>5, <1>6 DEF t

(* The jobs of gone settle or are told to stop, and while the pool is not  *)
(* ending nothing else happens to the jobs in flight.                      *)
Leaves(js, js2, gone, down) ==
  /\ \A o \in Ids \ gone :
       /\ Is(js2, o, Open) <=> Is(js, o, Open)
       /\ Is(js, o, Open) => /\ js2[o].key = js[o].key
                             /\ js2[o].cancel = js[o].cancel \/ (down /\ js2[o].cancel)
  /\ \A o \in gone : Is(js2, o, Open) => js2[o].cancel

LEMMA Freed ==
  ASSUME NEW js \in [Ids -> {NoJob} \cup Entry], NEW js2, NEW map, NEW down, NEW down2,
         NEW gone \in SUBSET Ids,
         Mapped(js, map, down), down => down2, Leaves(js, js2, gone, down2)
  PROVE  Mapped(js2, [k \in Keys |-> IF map[k] \in gone THEN Free ELSE map[k]], down2)
<1> DEFINE map2 == [k \in Keys |-> IF map[k] \in gone THEN Free ELSE map[k]]
<1>1. map2 \in [Keys -> {Free} \cup Ids]
  BY DEF Mapped
<1>2. \A k \in Keys : map2[k] = IF map[k] \in gone THEN Free ELSE map[k]
  OBVIOUS
<1> HIDE DEF map2
<1>3. ASSUME NEW k \in Keys, map2[k] # Free
      PROVE  /\ Is(js2, map2[k], Open) /\ js2[map2[k]].key = k
             /\ ~down2 => ~js2[map2[k]].cancel
  <2>1. map2[k] = map[k] /\ map[k] \in Ids \ gone
    BY <1>2, <1>3 DEF Mapped
  <2>2. Is(js, map[k], Open) /\ js[map[k]].key = k /\ (~down => ~js[map[k]].cancel)
    BY <1>3, <2>1 DEF Mapped, Open
  <2> QED
    BY <2>1, <2>2 DEF Leaves
<1>4. ASSUME NEW o \in Ids, Is(js2, o, Open), ~js2[o].cancel PROVE map2[js2[o].key] = o
  <2>1. o \in Ids \ gone
    BY <1>4 DEF Leaves
  <2>2. Is(js, o, Open) /\ js2[o].key = js[o].key /\ ~js[o].cancel
    BY <1>4, <2>1 DEF Leaves
  <2>3. map[js[o].key] = o
    BY <2>2 DEF Mapped, Open
  <2>4. js[o].key \in Keys
    <3>1. js[o] \in Entry
      BY <2>1, <2>2 DEF Is
    <3> QED
      BY <3>1 DEF Entry
  <2> QED
    BY <1>2, <2>1, <2>2, <2>3, <2>4
<1> QED
  BY <1>1, <1>3, <1>4 DEF Mapped, Open, map2

-----------------------------------------------------------------------------
(* What a step keeps of what clients were told                             *)

(* A verdict stays the verdict for as long as the job is remembered.       *)
Final == \A o \in Ids : Is(jobs, o, Terminal) /\ jobs'[o] # NoJob =>
                          jobs'[o].event = jobs[o].event

(* A queued job moves towards the head only, and none starts from behind   *)
(* one that stays.                                                         *)
Moves ==
  /\ \A i \in 1..Len(queued') : queued'[i] \in Members(queued) =>
       \E j \in 1..Len(queued) : queued[j] = queued'[i] /\ i <= j
  /\ \A id, o \in Members(queued) : o < id /\ task'[id] = "encoding" => o \notin Members(queued')

Fair == Final /\ Moves

LEMMA QueueStands ==
  ASSUME IInv, queued' = queued, \A o \in Members(queued) : task'[o] # "encoding"
  PROVE  Moves
<1>1. \A i \in 1..Len(queued) : i <= i
  BY LenProperties DEF IInv, Placed
<1> QED
  BY <1>1 DEF Moves

LEMMA QueuedHaveNoTask ==
  ASSUME IInv PROVE \A o \in Members(queued) : o \in Ids /\ task[o] = "none"
BY MembersOf DEF IInv, Placed, Is

(* dispatch takes the first n of a queue q that begins as the queue did.   *)
TakesFirst(q, tasks, n) ==
  /\ queued' = SubSeq(q, n + 1, Len(q))
  /\ \A id \in Ids : task'[id] = IF \E i \in 1..n : id = q[i] THEN "encoding" ELSE tasks[id]

BeginsAsQueued(q, tasks) ==
  /\ q \in Seq(Ids) /\ Ordered(q)
  /\ \A o \in Members(queued) : tasks[o] # "encoding" /\ o \in Members(q)
  /\ \A i \in 1..Len(q) : q[i] \in Members(queued) => i \in 1..Len(queued) /\ queued[i] = q[i]

LEMMA DispatchMoves ==
  ASSUME IInv, NEW q, NEW tasks, NEW n \in 0..Len(q),
         TakesFirst(q, tasks, n), BeginsAsQueued(q, tasks)
  PROVE  Moves
<1> USE DEF TakesFirst, BeginsAsQueued
<1>0. Len(q) \in Nat /\ n \in Nat /\ n <= Len(q) /\ Distinct(q)
  BY LenProperties, OrderedIsDistinct
<1>1. /\ queued' \in Seq(Ids) /\ Len(queued') = Len(q) - n
      /\ \A i \in 1..Len(queued') : queued'[i] = q[i + n] /\ i + n \in 1..Len(q)
      /\ Members(queued') = Members(q) \ {q[i] : i \in 1..n}
  BY <1>0, TailOf
<1>2. ASSUME NEW i \in 1..Len(queued'), queued'[i] \in Members(queued)
      PROVE  \E j \in 1..Len(queued) : queued[j] = queued'[i] /\ i <= j
  <2>1. i + n \in 1..Len(queued) /\ queued[i + n] = queued'[i]
    BY <1>1, <1>2
  <2>2. i <= i + n
    BY <1>0, <1>1
  <2> QED
    BY <2>1, <2>2
<1>3. ASSUME NEW id \in Members(queued), NEW o \in Members(queued), o < id,
             task'[id] = "encoding"
      PROVE  o \notin Members(queued')
  <2>1. id \in Ids /\ o \in Ids /\ o \in Nat /\ id \in Nat
    BY QueuedHaveNoTask, PoolAssumption DEF Ids, PoolAssumption
  <2>2. PICK m \in 1..n : id = q[m]
    BY <1>3, <2>1
  <2>3. PICK l \in 1..Len(q) : o = q[l]
    BY MembersOf
  <2>4. ~(m < l) /\ m # l
    <3>1. m \in 1..Len(q)
      BY <1>0
    <3>2. m < l => id < o
      BY <2>2, <2>3, <3>1 DEF Ordered
    <3>3. m # l
      BY <1>3, <2>1, <2>2, <2>3
    <3> QED
      BY <1>3, <2>1, <3>2, <3>3
  <2>5. l \in 1..n
    BY <1>0, <2>4
  <2> QED
    BY <1>1, <2>3, <2>5
<1> QED
  BY <1>2, <1>3 DEF Moves

-----------------------------------------------------------------------------
(* Submit                                                                  *)

LEMMA NewEntry ==
  ASSUME NEW k \in Keys, NEW event \in Events, NEW position \in Nat
  PROVE  LET new == NewJob(k, event, position)
         IN /\ new \in Entry /\ new # NoJob
            /\ new.key = k /\ new.event = event /\ new.cancel = FALSE
<1> DEFINE new == NewJob(k, event, position)
<1>1. new \in Entry /\ new.key = k /\ new.event = event /\ new.cancel = FALSE
  BY DEF Entry, NewJob
<1>2. new # NoJob
  BY <1>1, PoolAssumption DEF NoJob, PoolAssumption
<1> QED
  BY <1>1, <1>2

LEMMA SubmitRefusedInv == IInv /\ SubmitRefused => IInv' /\ Fair
<1> SUFFICES ASSUME IInv, SubmitRefused PROVE IInv' /\ Fair
  OBVIOUS
<1> DEFINE id == issued + 1
           event == IF shuttingDown THEN "cancelled" ELSE "failed"
           new == NewJob(submitting, event, 0)
           js == [jobs EXCEPT ![id] = new]
           ring == Append(terminal, id)
<1>1. PICK kept \in Pruned(ring) : terminal' = kept /\ jobs' = Remembered(js, ring, kept)
  BY DEF SubmitRefused
<1>2. /\ submitting # NoKey /\ issued' = id /\ submitting' = NoKey
      /\ queued' = queued /\ byKey' = byKey /\ running' = running
      /\ exclusiveRunning' = exclusiveRunning /\ shuttingDown' = shuttingDown
      /\ drained' = drained /\ task' = task
  BY DEF SubmitRefused, Idle
<1>3. event \in Terminal /\ event \in Events
  BY DEF Terminal, Events
<1> HIDE DEF event
<1>4. /\ id \in Ids /\ id \in Nat /\ jobs[id] = NoJob /\ task[id] = "none"
      /\ id \notin Members(queued) /\ id \notin Members(terminal)
  BY <1>2, FreshId
<1>5. /\ js \in [Ids -> {NoJob} \cup Entry] /\ js[id] # NoJob /\ js[id].event = event
      /\ \A o \in Ids : o # id => js[o] = jobs[o]
  <2>1. submitting \in Keys /\ 0 \in Nat
    BY <1>2 DEF IInv
  <2>2. new \in Entry /\ new # NoJob /\ new.event = event
    BY <1>3, <2>1, NewEntry
  <2> HIDE DEF new
  <2> QED
    BY <1>4, <2>2 DEF IInv, Placed
<1>6. ring \in Seq(Ids) /\ Distinct(ring) /\ Members(ring) = Members(terminal) \cup {id}
  BY <1>4, Appended DEF IInv, Placed
<1> HIDE DEF js, ring, new
<1>7. ASSUME NEW o \in Ids
      PROVE  /\ o \in Members(queued) <=> Is(js, o, {"queued"})
             /\ task[o] # "none" <=> Is(js, o, {"running"})
             /\ o \in Members(ring) <=> Is(js, o, Terminal)
             /\ Is(js, o, Open) <=> Is(jobs, o, Open)
             /\ Is(jobs, o, Open) => js[o] = jobs[o]
  <2>1. CASE o = id
    BY <1>3, <1>4, <1>5, <1>6, <2>1 DEF Is, Terminal, Open
  <2>2. CASE o # id
    BY <1>5, <1>6, <2>2 DEF IInv, Placed, Is
  <2> QED
    BY <2>1, <2>2
<1>8. Placed(js, task, queued, ring)
  BY <1>5, <1>6, <1>7 DEF IInv, Placed
<1>9. /\ Placed(jobs', task, queued, kept) /\ SameOpen(js, jobs')
      /\ \A o \in Ids : /\ jobs'[o] \in {js[o], NoJob}
                        /\ Is(js, o, Open) => jobs'[o] = js[o]
  BY <1>1, <1>8, PruningKeeps
<1>10. SameOpen(jobs, jobs')
  BY <1>7, <1>9 DEF SameOpen
<1>11. Counted(jobs', task, running, exclusiveRunning)
  BY <1>10, SlotsSeeOpen DEF IInv, SameOpen
<1>12. Mapped(jobs', byKey, shuttingDown)
  BY <1>10, MapSeesOpen DEF IInv
<1>13. Told(jobs', queued)
  <2>1. ASSUME NEW i \in 1..Len(queued) PROVE jobs'[queued[i]] = jobs[queued[i]]
    <3>1. queued[i] \in Members(queued) /\ queued[i] \in Ids
      BY MembersOf DEF IInv, Placed
    <3>2. Is(jobs, queued[i], Open)
      BY <3>1 DEF IInv, Placed, Is, Open
    <3> QED
      BY <1>7, <1>9, <3>1, <3>2
  <2> QED
    BY <2>1 DEF IInv, Told
<1>14. Issued'
  <2>1. id <= MaxJobs /\ id \in 0..MaxJobs
    BY <1>4, PoolAssumption DEF Ids, PoolAssumption
  <2>2. ASSUME NEW o \in Ids, jobs'[o] # NoJob PROVE o <= id
    <3>1. o = id \/ jobs[o] # NoJob
      BY <1>5, <1>9, <2>2
    <3>2. o \in Nat /\ issued \in Nat /\ id \in Nat
      BY <1>4, PoolAssumption DEF Ids, IInv, Issued, PoolAssumption
    <3> QED
      BY <3>1, <3>2 DEF IInv, Issued
  <2> QED
    BY <1>2, <2>1, <2>2 DEF Issued
<1>15. Ending'
  BY <1>2 DEF IInv, Ending
<1>16. IInv'
  BY <1>1, <1>2, <1>9, <1>11, <1>12, <1>13, <1>14, <1>15 DEF IInv
<1>17. Final
  BY <1>4, <1>5, <1>9 DEF Final, Is
<1>18. Moves
  BY <1>2, QueueStands, QueuedHaveNoTask
<1> QED
  BY <1>16, <1>17, <1>18 DEF Fair


LEMMA SubmitCreateInv == IInv /\ SubmitCreate => IInv' /\ Fair
<1> SUFFICES ASSUME IInv, SubmitCreate PROVE IInv' /\ Fair
  OBVIOUS
<1> DEFINE id == issued + 1
           place == Len(queued) + 1
           new == NewJob(submitting, "queued", place)
           js == [jobs EXCEPT ![id] = new]
           q == Append(queued, id)
           map == [byKey EXCEPT ![submitting] = id]
<1>1. Dispatch(js, task, q, running, exclusiveRunning)
  BY DEF SubmitCreate
<1>2. /\ submitting # NoKey /\ issued' = id /\ submitting' = NoKey /\ byKey' = map
      /\ byKey[submitting] = Free /\ ~shuttingDown
      /\ terminal' = terminal /\ shuttingDown' = shuttingDown /\ drained' = drained
  BY DEF SubmitCreate, Idle
<1>3. /\ id \in Ids /\ id \in Nat /\ jobs[id] = NoJob /\ task[id] = "none"
      /\ id \notin Members(queued) /\ id \notin Members(terminal) /\ id # Free
      /\ \A k \in Keys : byKey[k] # id
      /\ \A i \in 1..Len(queued) : queued[i] < id
  BY <1>2, FreshId
<1>4. /\ js \in [Ids -> {NoJob} \cup Entry] /\ js[id] # NoJob /\ js[id].event = "queued"
      /\ js[id].key = submitting /\ js[id].cancel = FALSE
      /\ \A o \in Ids : o # id => js[o] = jobs[o]
  <2>1. "queued" \in Events /\ place \in Nat /\ submitting \in Keys
    BY <1>2, LenProperties DEF Events, IInv, Placed
  <2> HIDE DEF place
  <2>2. /\ new \in Entry /\ new # NoJob
        /\ new.key = submitting /\ new.event = "queued" /\ new.cancel = FALSE
    BY <2>1, NewEntry
  <2> HIDE DEF new
  <2> QED
    BY <1>3, <2>2 DEF IInv, Placed
<1>5. q \in Seq(Ids) /\ Ordered(q) /\ Members(q) = Members(queued) \cup {id}
  BY <1>3, Appended, OrderedIsDistinct DEF IInv, Placed
<1>6. submitting \in Keys
  BY <1>2 DEF IInv
<1>7. /\ map \in [Keys -> {Free} \cup Ids] /\ map[submitting] = id
      /\ \A k \in Keys : k # submitting => map[k] = byKey[k]
  BY <1>3, <1>6 DEF IInv, Mapped
<1> HIDE DEF js, q, map, new, place
<1>8. ASSUME NEW o \in Ids
      PROVE  /\ o \in Members(q) <=> Is(js, o, {"queued"})
             /\ task[o] # "none" <=> Is(js, o, {"running"})
             /\ o \in Members(terminal) <=> Is(js, o, Terminal)
  <2>1. CASE o = id
    BY <1>3, <1>4, <1>5, <2>1 DEF Is, Terminal
  <2>2. CASE o # id
    BY <1>4, <1>5, <2>2 DEF IInv, Placed, Is
  <2> QED
    BY <2>1, <2>2
<1>9. Placed(js, task, q, terminal)
  BY <1>4, <1>5, <1>8 DEF IInv, Placed
<1>10. Counted(js, task, running, exclusiveRunning)
  <2>1. \A o \in Ids : Is(jobs, o, Open) => js[o].key = jobs[o].key
    BY <1>3, <1>4 DEF Is
  <2> QED
    BY <2>1, SlotsSeeOpen DEF IInv
<1>11. Mapped(js, map, shuttingDown)
  <2>1. ASSUME NEW k \in Keys, map[k] # Free
        PROVE  Is(js, map[k], Open) /\ js[map[k]].key = k /\ ~js[map[k]].cancel
    <3>1. CASE k = submitting
      BY <1>4, <1>7, <3>1 DEF Is, Open
    <3>2. CASE k # submitting
      <4>1. map[k] = byKey[k] /\ byKey[k] \in Ids /\ byKey[k] # id
        BY <1>3, <1>7, <2>1, <3>2 DEF IInv, Mapped
      <4>2. js[byKey[k]] = jobs[byKey[k]]
        BY <1>4, <4>1
      <4> QED
        BY <1>2, <2>1, <4>1, <4>2 DEF IInv, Mapped, Is, Open
    <3> QED
      BY <3>1, <3>2
  <2>2. ASSUME NEW o \in Ids, Is(js, o, Open), ~js[o].cancel PROVE map[js[o].key] = o
    <3>1. CASE o = id
      BY <1>4, <1>7, <3>1
    <3>2. CASE o # id
      <4>1. js[o] = jobs[o] /\ Is(jobs, o, Open) /\ byKey[js[o].key] = o
        BY <1>4, <2>2, <3>2 DEF IInv, Mapped, Is, Open
      <4>2. js[o].key \in Keys
        <5>1. js[o] \in Entry
          BY <1>4, <2>2 DEF Is
        <5> QED
          BY <5>1 DEF Entry
      <4>3. js[o].key # submitting
        BY <1>2, <4>1 DEF Ids, Free
      <4> QED
        BY <1>7, <4>1, <4>2, <4>3
    <3> QED
      BY <3>1, <3>2
  <2> QED
    BY <1>2, <1>7, <2>1, <2>2 DEF Mapped, Open
<1>12. /\ Placed(jobs', task', queued', terminal) /\ Told(jobs', queued') /\ Alike(js, jobs')
       /\ Counted(jobs', task', running', exclusiveRunning')
  BY <1>1, <1>9, <1>10, Dispatched
<1>13. Mapped(jobs', map, shuttingDown)
  BY <1>11, <1>12, AlikeIsSameOpen, MapSeesOpen
<1>14. Issued'
  <2>1. id \in 0..MaxJobs
    BY <1>3, PoolAssumption DEF Ids, PoolAssumption
  <2>2. ASSUME NEW o \in Ids, jobs'[o] # NoJob PROVE o <= id
    <3>1. o = id \/ jobs[o] # NoJob
      BY <1>4, <1>12, <2>2 DEF Alike
    <3>2. o \in Nat /\ issued \in Nat /\ id \in Nat
      BY <1>3, PoolAssumption DEF Ids, IInv, Issued, PoolAssumption
    <3> QED
      BY <3>1, <3>2 DEF IInv, Issued
  <2> QED
    BY <1>2, <2>1, <2>2 DEF Issued
<1>15. Ending'
  BY <1>2 DEF IInv, Ending
<1>16. IInv'
  BY <1>2, <1>12, <1>13, <1>14, <1>15 DEF IInv
<1>17. Final
  BY <1>3, <1>4, <1>12 DEF Final, Is, Alike, Terminal
<1>18. Moves
  <2>1. PICK n \in 0..Len(q) : TakesFirst(q, task, n)
    BY <1>1, <1>9, <1>10, Dispatched DEF TakesFirst
  <2>2. ASSUME NEW i \in 1..Len(q), q[i] \in Members(queued)
        PROVE  i \in 1..Len(queued) /\ queued[i] = q[i]
    <3>1. /\ Len(q) = Len(queued) + 1 /\ Len(queued) \in Nat
          /\ \A j \in 1..Len(queued) : q[j] = queued[j]
          /\ q[Len(queued) + 1] = id
      BY <1>3, Appended, OrderedIsDistinct, LenProperties DEF q, IInv, Placed
    <3>2. i # Len(queued) + 1
      BY <1>3, <2>2, <3>1
    <3>3. i \in 1..Len(queued)
      BY <3>1, <3>2
    <3> QED
      BY <3>1, <3>3
  <2>3. \A o \in Members(queued) : task[o] # "encoding" /\ o \in Members(q)
    BY <1>5, QueuedHaveNoTask
  <2>4. BeginsAsQueued(q, task)
    BY <1>5, <2>2, <2>3 DEF BeginsAsQueued
  <2> QED
    BY <2>1, <2>4, DispatchMoves
<1> QED
  BY <1>16, <1>17, <1>18 DEF Fair

-----------------------------------------------------------------------------
(* Finished                                                                *)

LEMMA FinishJobInv ==
  ASSUME IInv, NEW id \in Ids, FinishJob(id)
  PROVE  IInv' /\ Fair
<1> DEFINE ring == Append(terminal, id)
           settled == [jobs EXCEPT ![id].event = task[id]]
           tasks == [task EXCEPT ![id] = "none"]
           alone == exclusiveRunning /\ jobs[id].key \notin Exclusive
<1>1. PICK kept \in Pruned(ring) :
        /\ terminal' = kept
        /\ Dispatch(Remembered(settled, ring, kept), tasks, queued, running - 1, alone)
  BY DEF FinishJob
<1>2. /\ byKey' = Released(id)
      /\ drained' = IF running = 1 /\ drained = "held" THEN "sent" ELSE drained
      /\ issued' = issued /\ shuttingDown' = shuttingDown /\ submitting' = submitting
      /\ task[id] \in Terminal /\ task[id] # "none"
  BY DEF FinishJob, Terminal
<1>3. /\ jobs[id] \in Entry /\ jobs[id].event = "running" /\ Is(jobs, id, Open)
      /\ id \notin Members(queued) /\ id \notin Members(terminal)
  BY <1>2 DEF IInv, Placed, Is, Terminal, Open
<1>4. /\ settled \in [Ids -> {NoJob} \cup Entry] /\ settled[id] # NoJob
      /\ settled[id].event \in Terminal
      /\ \A o \in Ids : o # id => settled[o] = jobs[o]
  <2> DEFINE entry == [jobs[id] EXCEPT !.event = task[id]]
  <2>1. entry \in Entry /\ entry.event = task[id] /\ entry.key \in Keys
    BY <1>2, <1>3 DEF Entry, Events
  <2>2. entry # NoJob
    BY <2>1, PoolAssumption DEF NoJob, PoolAssumption
  <2>3. settled = [jobs EXCEPT ![id] = entry]
    OBVIOUS
  <2> HIDE DEF entry, settled
  <2> QED
    BY <1>2, <2>1, <2>2, <2>3 DEF IInv, Placed
<1>5. /\ tasks \in [Ids -> Phases] /\ tasks[id] = "none"
      /\ \A o \in Ids : o # id => tasks[o] = task[o]
  BY DEF IInv, Placed, Phases
<1>6. ring \in Seq(Ids) /\ Distinct(ring) /\ Members(ring) = Members(terminal) \cup {id}
  BY <1>3, Appended DEF IInv, Placed
<1> HIDE DEF ring, settled, tasks, alone
<1>7. ASSUME NEW o \in Ids
      PROVE  /\ o \in Members(queued) <=> Is(settled, o, {"queued"})
             /\ tasks[o] # "none" <=> Is(settled, o, {"running"})
             /\ o \in Members(ring) <=> Is(settled, o, Terminal)
  <2>1. CASE o = id
    BY <1>3, <1>4, <1>5, <1>6, <2>1 DEF Is, Terminal
  <2>2. CASE o # id
    BY <1>4, <1>5, <1>6, <2>2 DEF IInv, Placed, Is
  <2> QED
    BY <2>1, <2>2
<1>8. Placed(settled, tasks, queued, ring)
  BY <1>4, <1>5, <1>6, <1>7 DEF IInv, Placed
<1> DEFINE js == Remembered(settled, ring, kept)
<1>9. /\ Placed(js, tasks, queued, kept)
      /\ \A o \in Ids : /\ js[o] \in {settled[o], NoJob}
                        /\ Is(settled, o, Open) => js[o] = settled[o]
  BY <1>8, PruningKeeps
<1>10. Dispatch(js, tasks, queued, running - 1, alone)
  BY <1>1
<1> HIDE DEF js
<1>11. /\ \A o \in Ids \ {id} : /\ Is(js, o, Open) <=> Is(jobs, o, Open)
                                /\ Is(jobs, o, Open) => js[o] = jobs[o]
       /\ ~Is(js, id, Open)
  BY <1>4, <1>9 DEF Is, Open, Terminal
<1>12. Counted(js, tasks, running - 1, alone)
  <2>1. Busy(tasks) = Busy(task) \ {id} /\ id \in Busy(task)
    BY <1>2, <1>5 DEF Busy
  <2>2. IsFiniteSet(Busy(task))
    <3>1. IsFiniteSet(Ids)
      BY FS_Interval, PoolAssumption DEF Ids, PoolAssumption
    <3> QED
      BY <3>1, FS_Subset DEF Busy
  <2>3. Cardinality(Busy(tasks)) = Cardinality(Busy(task)) - 1
    BY <2>1, <2>2, FS_RemoveElement
  <2>4. running = Cardinality(Busy(task)) /\ running \in 0..MaxConcurrent
    BY DEF IInv, Counted
  <2>5. running # 0
    BY <2>1, <2>2, <2>4, FS_EmptySet
  <2>6. running - 1 = Cardinality(Busy(tasks)) /\ running - 1 \in 0..MaxConcurrent
    BY <2>3, <2>4, <2>5, PoolAssumption DEF PoolAssumption
  <2>7. \A o \in Busy(tasks) : o \in Busy(task) /\ o # id /\ js[o] = jobs[o]
    BY <1>11, <2>1 DEF IInv, Placed, Busy, Is, Open
  <2>8. ASSUME exclusiveRunning PROVE Busy(tasks) = {} /\ ~alone
    <3>1. running - 1 = 0
      BY <2>8 DEF IInv, Counted
    <3>2. Busy(tasks) = {}
      BY <2>1, <2>2, <2>6, <3>1, FS_EmptySet, FS_Subset
    <3>3. PICK o \in Busy(task) : jobs[o].key \in Exclusive
      BY <2>8 DEF IInv, Counted
    <3>4. o = id
      BY <2>1, <3>2, <3>3
    <3> QED
      BY <3>2, <3>3, <3>4 DEF alone
  <2>9. ~alone /\ alone \in BOOLEAN
    BY <2>8 DEF alone
  <2>10. ~\E o \in Busy(tasks) : js[o].key \in Exclusive
    BY <2>7, <2>8 DEF IInv, Counted
  <2> QED
    BY <2>6, <2>9, <2>10 DEF Counted
<1>13. /\ Placed(jobs', task', queued', kept) /\ Told(jobs', queued') /\ Alike(js, jobs')
       /\ Counted(jobs', task', running', exclusiveRunning')
  BY <1>9, <1>10, <1>12, Dispatched
<1>14. Mapped(jobs', byKey', shuttingDown)
  <2>1. Mapped(js, [k \in Keys |-> IF byKey[k] \in {id} THEN Free ELSE byKey[k]], shuttingDown)
    <3> DEFINE gone == {id}
    <3>1. /\ gone \in SUBSET Ids /\ jobs \in [Ids -> {NoJob} \cup Entry]
          /\ Mapped(jobs, byKey, shuttingDown)
      BY DEF IInv, Placed
    <3>2. Leaves(jobs, js, gone, shuttingDown)
      BY <1>11 DEF Leaves
    <3> HIDE DEF gone
    <3>4. Mapped(js, [k \in Keys |-> IF byKey[k] \in gone THEN Free ELSE byKey[k]], shuttingDown)
      BY <3>1, <3>2, Freed
    <3> QED
      BY <3>4 DEF gone
  <2>2. byKey' = [k \in Keys |-> IF byKey[k] \in {id} THEN Free ELSE byKey[k]]
    BY <1>2 DEF Released
  <2> QED
    BY <1>13, <2>1, <2>2, AlikeIsSameOpen, MapSeesOpen
<1>15. Issued'
  <2>1. ASSUME NEW o \in Ids, jobs'[o] # NoJob PROVE o <= issued
    <3>1. jobs[o] # NoJob
      BY <1>3, <1>4, <1>9, <1>13, <2>1, PoolAssumption
         DEF Alike, Entry, NoJob, PoolAssumption
    <3> QED
      BY <3>1 DEF IInv, Issued
  <2> QED
    BY <1>2, <2>1 DEF IInv, Issued
<1>16. Ending'
  <2>1. PICK n \in 0..Len(queued) :
          /\ queued' = SubSeq(queued, n + 1, Len(queued))
          /\ shuttingDown => n = 0
          /\ running' = running - 1 + n
    BY <1>9, <1>10, <1>12, Dispatched
  <2>2. running \in Nat /\ running # 0
    BY <1>12, PoolAssumption DEF IInv, Counted, PoolAssumption
  <2>3. ASSUME shuttingDown PROVE queued' = <<>> /\ running' = running - 1
    <3>1. n = 0 /\ queued = <<>> /\ Len(queued) = 0
      BY <2>1, <2>3, EmptySeq DEF IInv, Ending
    <3>2. Len(queued') = 0 /\ queued' \in Seq(Ids)
      BY <2>1, <3>1, TailOf DEF IInv, Placed
    <3> QED
      BY <2>1, <2>2, <3>1, <3>2, EmptySeq
  <2>4. drained' = "sent" => running' = 0
    <3>1. drained # "sent"
      BY <2>2 DEF IInv, Ending
    <3>2. drained' = "sent" => running = 1 /\ shuttingDown
      BY <1>2, <3>1 DEF IInv, Ending
    <3> QED
      BY <2>3, <3>2
  <2>5. drained' \in {"none", "held", "sent"} /\ (drained' # "none" <=> drained # "none")
    BY <1>2 DEF IInv, Ending
  <2> QED
    BY <1>2, <2>3, <2>4, <2>5 DEF IInv, Ending
<1>17. IInv'
  BY <1>1, <1>2, <1>13, <1>14, <1>15, <1>16 DEF IInv
<1>18. Final
  BY <1>3, <1>4, <1>9, <1>13 DEF Final, Is, Alike, Terminal
<1>19. Moves
  <2>1. PICK n \in 0..Len(queued) : TakesFirst(queued, tasks, n)
    BY <1>9, <1>10, <1>12, Dispatched DEF TakesFirst
  <2>2. \A o \in Members(queued) : tasks[o] # "encoding" /\ o \in Members(queued)
    BY <1>3, <1>5, QueuedHaveNoTask
  <2>3. BeginsAsQueued(queued, tasks)
    BY <2>2 DEF BeginsAsQueued, IInv, Placed
  <2> QED
    BY <2>1, <2>3, DispatchMoves
<1> QED
  BY <1>17, <1>18, <1>19 DEF Fair

-----------------------------------------------------------------------------
(* Cancel and Shutdown                                                     *)

LEMMA CancelRunningInv ==
  ASSUME IInv, NEW id \in Ids, CancelRunning(id)
  PROVE  IInv' /\ Fair
<1>1. /\ jobs' = [jobs EXCEPT ![id].cancel = TRUE] /\ byKey' = Released(id)
      /\ issued' = issued /\ queued' = queued /\ terminal' = terminal /\ running' = running
      /\ exclusiveRunning' = exclusiveRunning /\ shuttingDown' = shuttingDown
      /\ drained' = drained /\ submitting' = submitting /\ task' = task
      /\ jobs[id] # NoJob /\ id \notin Members(queued)
  BY DEF CancelRunning, Present
<1>2. /\ jobs' \in [Ids -> {NoJob} \cup Entry] /\ jobs'[id] # NoJob
      /\ jobs'[id].key = jobs[id].key /\ jobs'[id].event = jobs[id].event /\ jobs'[id].cancel
      /\ \A o \in Ids : o # id => jobs'[o] = jobs[o]
  <2> DEFINE entry == [jobs[id] EXCEPT !.cancel = TRUE]
  <2>0. jobs[id] \in Entry
    BY <1>1 DEF IInv, Placed
  <2>1. /\ entry \in Entry /\ entry.key = jobs[id].key /\ entry.event = jobs[id].event
        /\ entry.cancel /\ entry.key \in Keys
    BY <2>0 DEF Entry
  <2>2. entry # NoJob
    BY <2>1, PoolAssumption DEF NoJob, PoolAssumption
  <2>3. jobs' = [jobs EXCEPT ![id] = entry]
    BY <1>1
  <2> HIDE DEF entry
  <2> QED
    BY <2>1, <2>2, <2>3 DEF IInv, Placed
<1>3. \A o \in Ids : /\ jobs'[o] = NoJob <=> jobs[o] = NoJob
                     /\ jobs'[o].event = jobs[o].event /\ jobs'[o].key = jobs[o].key
  BY <1>1, <1>2
<1>4. Placed(jobs', task, queued, terminal)
  BY <1>2, <1>3 DEF IInv, Placed, Is
<1>5. Counted(jobs', task, running, exclusiveRunning)
  BY <1>3, SlotsSeeOpen DEF IInv
<1>6. Mapped(jobs', byKey', shuttingDown)
  <2>1. Mapped(jobs', [k \in Keys |-> IF byKey[k] \in {id} THEN Free ELSE byKey[k]], shuttingDown)
    <3> DEFINE gone == {id}
    <3>1. /\ gone \in SUBSET Ids /\ jobs \in [Ids -> {NoJob} \cup Entry]
          /\ Mapped(jobs, byKey, shuttingDown)
      BY DEF IInv, Placed
    <3>2. Leaves(jobs, jobs', gone, shuttingDown)
      BY <1>2 DEF Leaves, Is
    <3> HIDE DEF gone
    <3>4. Mapped(jobs', [k \in Keys |-> IF byKey[k] \in gone THEN Free ELSE byKey[k]], shuttingDown)
      BY <3>1, <3>2, Freed
    <3> QED
      BY <3>4 DEF gone
  <2>2. byKey' = [k \in Keys |-> IF byKey[k] \in {id} THEN Free ELSE byKey[k]]
    BY <1>1 DEF Released
  <2> QED
    BY <2>1, <2>2
<1>7. Told(jobs', queued)
  <2>1. ASSUME NEW i \in 1..Len(queued) PROVE jobs'[queued[i]] = jobs[queued[i]]
    <3>1. queued[i] \in Members(queued) /\ queued[i] \in Ids
      BY MembersOf DEF IInv, Placed
    <3> QED
      BY <1>1, <1>2, <3>1
  <2> QED
    BY <2>1 DEF IInv, Told
<1>8. Issued' /\ Ending'
  BY <1>1, <1>3 DEF IInv, Issued, Ending
<1>9. IInv'
  BY <1>1, <1>4, <1>5, <1>6, <1>7, <1>8 DEF IInv
<1>10. Final
  BY <1>3 DEF Final
<1>11. Moves
  BY <1>1, QueueStands, QueuedHaveNoTask
<1> QED
  BY <1>9, <1>10, <1>11 DEF Fair


LEMMA PositionedKeeps ==
  ASSUME NEW js, NEW tasks, NEW q, NEW ring, Placed(js, tasks, q, ring)
  PROVE  LET told == WithPositions(js, q)
         IN /\ Placed(told, tasks, q, ring) /\ Told(told, q)
            /\ \A id \in Ids :
                 /\ told[id] = NoJob <=> js[id] = NoJob
                 /\ js[id] # NoJob => /\ told[id].key = js[id].key
                                      /\ told[id].cancel = js[id].cancel
                                      /\ told[id].event = js[id].event
<1> DEFINE told == WithPositions(js, q)
<1>1. js \in [Ids -> {NoJob} \cup Entry] /\ q \in Seq(Ids) /\ Distinct(q)
  BY OrderedIsDistinct DEF Placed
<1>2. \A i \in 1..Len(q) : js[q[i]] # NoJob
  <2> SUFFICES ASSUME NEW i \in 1..Len(q) PROVE js[q[i]] # NoJob
    OBVIOUS
  <2>1. q[i] \in Members(q) /\ q[i] \in Ids
    BY <1>1, MembersOf
  <2> QED
    BY <2>1 DEF Placed, Is
<1>3. /\ told \in [Ids -> {NoJob} \cup Entry] /\ Told(told, q)
      /\ \A id \in Ids :
           /\ told[id] = NoJob <=> js[id] = NoJob
           /\ js[id] # NoJob => /\ told[id].key = js[id].key
                                /\ told[id].cancel = js[id].cancel
                                /\ told[id].event = js[id].event
  BY <1>1, <1>2, Positioned
<1> HIDE DEF told
<1>4. Placed(told, tasks, q, ring)
  BY <1>3 DEF Placed, Is
<1> QED
  BY <1>3, <1>4 DEF told

LEMMA CancelQueuedInv ==
  ASSUME IInv, NEW id \in Ids, CancelQueued(id)
  PROVE  IInv' /\ Fair
<1> DEFINE ring == Append(terminal, id)
           entry == [jobs[id] EXCEPT !.event = "cancelled", !.cancel = TRUE]
           settled == [jobs EXCEPT ![id] = entry]
<1>1. PICK at \in DOMAIN queued :
        /\ queued[at] = id
        /\ \E kept \in Pruned(ring) :
             /\ terminal' = kept
             /\ queued' = RemoveAt(queued, at)
             /\ jobs' = WithPositions(
                          Remembered([jobs EXCEPT ![id].event = "cancelled",
                                                  ![id].cancel = TRUE], ring, kept),
                          RemoveAt(queued, at))
  BY DEF CancelQueued
<1>2. PICK kept \in Pruned(ring) :
        /\ terminal' = kept
        /\ queued' = RemoveAt(queued, at)
        /\ jobs' = WithPositions(
                     Remembered([jobs EXCEPT ![id].event = "cancelled",
                                             ![id].cancel = TRUE], ring, kept),
                     RemoveAt(queued, at))
  BY <1>1
<1>3. /\ byKey' = Released(id) /\ issued' = issued /\ running' = running
      /\ exclusiveRunning' = exclusiveRunning /\ shuttingDown' = shuttingDown
      /\ drained' = drained /\ submitting' = submitting /\ task' = task
  BY DEF CancelQueued
<1>4. at \in 1..Len(queued) /\ id \in Members(queued) /\ queued \in Seq(Ids) /\ Ordered(queued)
  BY <1>1, LenProperties, MembersOf DEF IInv, Placed
<1>5. /\ jobs[id] \in Entry /\ Is(jobs, id, Open) /\ jobs[id].event = "queued"
      /\ task[id] = "none" /\ id \notin Members(terminal)
  BY <1>4 DEF IInv, Placed, Is, Terminal, Open
<1>6. /\ settled \in [Ids -> {NoJob} \cup Entry] /\ settled[id] # NoJob
      /\ settled[id].event = "cancelled" /\ settled[id].cancel
      /\ \A o \in Ids : o # id => settled[o] = jobs[o]
  <2>1. /\ entry \in Entry /\ entry.event = "cancelled" /\ entry.cancel /\ entry.key \in Keys
    BY <1>5 DEF Entry, Events, Terminal
  <2>2. entry # NoJob
    BY <2>1, PoolAssumption DEF NoJob, PoolAssumption
  <2> HIDE DEF entry
  <2> QED
    BY <2>1, <2>2 DEF IInv, Placed
<1>7. [jobs EXCEPT ![id].event = "cancelled", ![id].cancel = TRUE] = settled
  BY <1>5 DEF IInv, Placed
<1> HIDE DEF settled, entry
<1>8. ring \in Seq(Ids) /\ Distinct(ring) /\ Members(ring) = Members(terminal) \cup {id}
  BY <1>5, Appended DEF IInv, Placed
<1>9. queued' \in Seq(Ids) /\ Ordered(queued') /\ Members(queued') = Members(queued) \ {id}
  BY <1>1, <1>2, <1>4, Without
<1> HIDE DEF ring
<1>10. ASSUME NEW o \in Ids
       PROVE  /\ o \in Members(queued') <=> Is(settled, o, {"queued"})
              /\ task[o] # "none" <=> Is(settled, o, {"running"})
              /\ o \in Members(ring) <=> Is(settled, o, Terminal)
  <2>1. CASE o = id
    BY <1>5, <1>6, <1>8, <1>9, <2>1 DEF Is, Terminal
  <2>2. CASE o # id
    BY <1>6, <1>8, <1>9, <2>2 DEF IInv, Placed, Is
  <2> QED
    BY <2>1, <2>2
<1>11. Placed(settled, task, queued', ring)
  BY <1>6, <1>8, <1>9, <1>10 DEF IInv, Placed
<1> DEFINE js == Remembered(settled, ring, kept)
<1>12. /\ Placed(js, task, queued', kept)
       /\ \A o \in Ids : /\ js[o] \in {settled[o], NoJob}
                         /\ Is(settled, o, Open) => js[o] = settled[o]
  BY <1>11, PruningKeeps
<1>13. jobs' = WithPositions(js, queued')
  BY <1>2, <1>7
<1> HIDE DEF js
<1>14. /\ Placed(jobs', task, queued', kept) /\ Told(jobs', queued')
       /\ \A o \in Ids : /\ jobs'[o] = NoJob <=> js[o] = NoJob
                         /\ js[o] # NoJob => /\ jobs'[o].key = js[o].key
                                             /\ jobs'[o].cancel = js[o].cancel
                                             /\ jobs'[o].event = js[o].event
  BY <1>12, <1>13, PositionedKeeps
<1>15. /\ \A o \in Ids \ {id} : /\ Is(jobs', o, Open) <=> Is(jobs, o, Open)
                                /\ Is(jobs, o, Open) => /\ jobs'[o].key = jobs[o].key
                                                        /\ jobs'[o].cancel = jobs[o].cancel
       /\ ~Is(jobs', id, Open)
  <2>1. ASSUME NEW o \in Ids \ {id}
        PROVE  /\ Is(jobs', o, Open) <=> Is(jobs, o, Open)
               /\ Is(jobs, o, Open) => /\ jobs'[o].key = jobs[o].key
                                       /\ jobs'[o].cancel = jobs[o].cancel
    BY <1>6, <1>12, <1>14 DEF Is
  <2>2. ~Is(jobs', id, Open)
    BY <1>6, <1>12, <1>14 DEF Is, Open
  <2> QED
    BY <2>1, <2>2
<1>16. Counted(jobs', task, running, exclusiveRunning)
  <2>1. \A o \in Busy(task) : jobs'[o].key = jobs[o].key
    BY <1>5, <1>15 DEF IInv, Placed, Busy, Is, Open
  <2> QED
    BY <2>1 DEF IInv, Counted
<1>17. Mapped(jobs', byKey', shuttingDown)
  <2> DEFINE gone == {id}
  <2>1. /\ gone \in SUBSET Ids /\ jobs \in [Ids -> {NoJob} \cup Entry]
        /\ Mapped(jobs, byKey, shuttingDown)
    BY DEF IInv, Placed
  <2>2. Leaves(jobs, jobs', gone, shuttingDown)
    BY <1>15 DEF Leaves
  <2>3. byKey' = [k \in Keys |-> IF byKey[k] \in gone THEN Free ELSE byKey[k]]
    BY <1>3 DEF Released
  <2> HIDE DEF gone
  <2> QED
    BY <2>1, <2>2, <2>3, Freed
<1>18. Issued'
  <2>1. ASSUME NEW o \in Ids, jobs'[o] # NoJob PROVE o <= issued
    <3>1. jobs[o] # NoJob
      BY <1>5, <1>6, <1>12, <1>14, <2>1 DEF Is
    <3> QED
      BY <3>1 DEF IInv, Issued
  <2> QED
    BY <1>3, <2>1 DEF IInv, Issued
<1>19. Ending'
  <2>1. ~shuttingDown
    <3> SUFFICES ASSUME shuttingDown PROVE FALSE
      OBVIOUS
    <3>1. Len(queued) = 0
      BY EmptySeq DEF IInv, Ending
    <3> QED
      BY <1>4, <3>1
  <2> QED
    BY <1>3, <2>1 DEF IInv, Ending
<1>20. IInv'
  BY <1>2, <1>3, <1>14, <1>16, <1>17, <1>18, <1>19 DEF IInv
<1>21. Final
  BY <1>5, <1>6, <1>12, <1>14 DEF Final, Is, Terminal
<1>22. Moves
  <2>1. /\ Len(queued') = Len(queued) - 1 /\ Len(queued) \in Nat
        /\ \A i \in 1..Len(queued') :
             /\ queued'[i] = queued[IF i < at THEN i ELSE i + 1]
             /\ (IF i < at THEN i ELSE i + 1) \in 1..Len(queued)
    BY <1>2, <1>4, Without, LenProperties
  <2>2. ASSUME NEW i \in 1..Len(queued')
        PROVE  \E j \in 1..Len(queued) : queued[j] = queued'[i] /\ i <= j
    <3> DEFINE j == IF i < at THEN i ELSE i + 1
    <3>1. i <= j
      BY <2>1
    <3>2. queued'[i] = queued[j] /\ j \in 1..Len(queued)
      BY <2>1
    <3> HIDE DEF j
    <3> QED
      BY <3>1, <3>2
  <2> QED
    BY <1>3, <2>2, QueuedHaveNoTask DEF Moves
<1> QED
  BY <1>20, <1>21, <1>22 DEF Fair


LEMMA ShutdownInv == IInv /\ Shutdown => IInv' /\ Fair
<1> SUFFICES ASSUME IInv, Shutdown PROVE IInv' /\ Fair
  OBVIOUS
<1> DEFINE ring == terminal \o queued
           flagged == [id \in Ids |->
                         CASE ~Present(id) -> NoJob
                           [] id \in Members(queued) ->
                                [jobs[id] EXCEPT !.event = "cancelled", !.cancel = TRUE]
                           [] OTHER -> [jobs[id] EXCEPT !.cancel = TRUE]]
<1>1. PICK kept \in Pruned(ring) \cup (IF queued = <<>> THEN {terminal} ELSE {}) :
        terminal' = kept /\ jobs' = Remembered(flagged, ring, kept)
  BY DEF Shutdown
<1>2. /\ shuttingDown' = TRUE /\ queued' = <<>>
      /\ byKey' = [k \in Keys |-> IF byKey[k] \in Members(queued) THEN Free ELSE byKey[k]]
      /\ drained' = IF running = 0 THEN "sent" ELSE "held"
      /\ issued' = issued /\ running' = running /\ exclusiveRunning' = exclusiveRunning
      /\ submitting' = submitting /\ task' = task
  BY DEF Shutdown
<1>3. ASSUME NEW o \in Ids
      PROVE  /\ flagged[o] \in {NoJob} \cup Entry
             /\ flagged[o] = NoJob <=> jobs[o] = NoJob
             /\ jobs[o] # NoJob =>
                  /\ flagged[o].key = jobs[o].key /\ flagged[o].cancel = TRUE
                  /\ flagged[o].event = IF o \in Members(queued) THEN "cancelled"
                                        ELSE jobs[o].event
  <2>1. CASE jobs[o] = NoJob
    <3>1. ~Present(o) /\ o \notin Members(queued)
      BY <2>1 DEF Present, IInv, Placed, Is
    <3>2. flagged[o] = NoJob
      BY <3>1
    <3> QED
      BY <2>1, <3>2
  <2>2. CASE jobs[o] # NoJob
    <3>1. jobs[o] \in Entry
      BY <2>2 DEF IInv, Placed
    <3>2. flagged[o] = IF o \in Members(queued)
                       THEN [jobs[o] EXCEPT !.event = "cancelled", !.cancel = TRUE]
                       ELSE [jobs[o] EXCEPT !.cancel = TRUE]
      BY <2>2 DEF Present
    <3> HIDE DEF flagged
    <3>3. /\ flagged[o] \in Entry /\ flagged[o].key = jobs[o].key /\ flagged[o].cancel = TRUE
          /\ flagged[o].event = IF o \in Members(queued) THEN "cancelled" ELSE jobs[o].event
      <4>1. CASE o \in Members(queued)
        BY <3>1, <3>2, <4>1 DEF Entry, Events, Terminal
      <4>2. CASE o \notin Members(queued)
        BY <3>1, <3>2, <4>2 DEF Entry
      <4> QED
        BY <4>1, <4>2
    <3>4. flagged[o].key \in Keys
      BY <3>3 DEF Entry
    <3>5. flagged[o] # NoJob
      BY <3>4, PoolAssumption DEF NoJob, PoolAssumption
    <3> QED
      BY <2>2, <3>3, <3>5
  <2> QED
    BY <2>1, <2>2
<1>4. flagged \in [Ids -> {NoJob} \cup Entry]
  BY <1>3
<1> HIDE DEF flagged
<1>5. /\ queued \in Seq(Ids) /\ Distinct(queued) /\ terminal \in Seq(Ids) /\ Distinct(terminal)
      /\ Members(terminal) \cap Members(queued) = {}
  <2>1. ASSUME NEW o \in Members(queued), o \in Members(terminal) PROVE FALSE
    <3>1. o \in Ids
      BY <2>1, MembersOf DEF IInv, Placed
    <3> QED
      BY <2>1, <3>1 DEF IInv, Placed, Is, Terminal
  <2> QED
    BY <2>1, OrderedIsDistinct DEF IInv, Placed
<1>6. /\ ring \in Seq(Ids) /\ Distinct(ring)
      /\ Members(ring) = Members(terminal) \cup Members(queued)
  BY <1>5, Joined
<1>7. kept \in Pruned(ring) \cup {ring}
  <2>1. queued = <<>> => ring = terminal
    BY <1>5, ConcatEmptySeq
  <2> QED
    BY <1>1, <2>1
<1> HIDE DEF ring
<1>8. <<>> \in Seq(Ids) /\ Len(<<>>) = 0 /\ Members(<<>>) = {}
  BY EmptySeq DEF Members
<1>9. ASSUME NEW o \in Ids
      PROVE  /\ o \in Members(<<>>) <=> Is(flagged, o, {"queued"})
             /\ task[o] # "none" <=> Is(flagged, o, {"running"})
             /\ o \in Members(ring) <=> Is(flagged, o, Terminal)
  <2>1. CASE o \in Members(queued)
    BY <1>3, <1>6, <1>8, <2>1 DEF IInv, Placed, Is, Terminal
  <2>2. CASE o \notin Members(queued)
    BY <1>3, <1>6, <1>8, <2>2 DEF IInv, Placed, Is
  <2> QED
    BY <2>1, <2>2
<1>10. Placed(flagged, task, <<>>, ring)
  BY <1>4, <1>6, <1>8, <1>9 DEF IInv, Placed, Ordered
<1>11. /\ Placed(jobs', task, <<>>, kept)
       /\ \A o \in Ids : /\ jobs'[o] \in {flagged[o], NoJob}
                         /\ Is(flagged, o, Open) => jobs'[o] = flagged[o]
  BY <1>1, <1>7, <1>10, PruningKeeps
<1>12. /\ \A o \in Ids \ Members(queued) :
            /\ Is(jobs', o, Open) <=> Is(jobs, o, Open)
            /\ Is(jobs, o, Open) => jobs'[o].key = jobs[o].key /\ jobs'[o].cancel
       /\ \A o \in Members(queued) : ~Is(jobs', o, Open)
  <2>1. ASSUME NEW o \in Ids \ Members(queued)
        PROVE  /\ Is(jobs', o, Open) <=> Is(jobs, o, Open)
               /\ Is(jobs, o, Open) => jobs'[o].key = jobs[o].key /\ jobs'[o].cancel
    <3>1. Is(flagged, o, Open) <=> Is(jobs, o, Open)
      BY <1>3 DEF Is
    <3>2. Is(jobs', o, Open) <=> Is(flagged, o, Open)
      BY <1>11 DEF Is
    <3>3. ASSUME Is(jobs, o, Open) PROVE jobs'[o].key = jobs[o].key /\ jobs'[o].cancel
      <4>1. jobs'[o] = flagged[o] /\ jobs[o] # NoJob
        BY <1>11, <3>1, <3>3 DEF Is
      <4> QED
        BY <1>3, <4>1
    <3> QED
      BY <3>1, <3>2, <3>3
  <2>2. ASSUME NEW o \in Members(queued) PROVE ~Is(jobs', o, Open)
    <3>1. o \in Ids
      BY <1>5, MembersOf
    <3>2. jobs'[o] = NoJob \/ (jobs'[o] = flagged[o] /\ flagged[o] # NoJob)
      BY <1>11, <3>1
    <3>3. flagged[o] # NoJob => flagged[o].event = "cancelled"
      BY <1>3, <3>1
    <3> QED
      BY <3>2, <3>3 DEF Is, Open
  <2> QED
    BY <2>1, <2>2
<1>13. Counted(jobs', task, running, exclusiveRunning)
  <2>1. \A o \in Busy(task) : o \in Ids /\ o \notin Members(queued) /\ Is(jobs, o, Open)
    BY DEF IInv, Placed, Busy, Is, Open
  <2>2. \A o \in Busy(task) : jobs'[o].key = jobs[o].key
    BY <1>12, <2>1
  <2> QED
    BY <2>2 DEF IInv, Counted
<1>14. Mapped(jobs', byKey', shuttingDown')
  <2> DEFINE gone == Members(queued)
  <2>1. /\ gone \in SUBSET Ids /\ jobs \in [Ids -> {NoJob} \cup Entry]
        /\ Mapped(jobs, byKey, shuttingDown)
    BY <1>5, MembersOf DEF IInv, Placed
  <2>2. Leaves(jobs, jobs', gone, shuttingDown') /\ (shuttingDown => shuttingDown')
    BY <1>2, <1>12 DEF Leaves
  <2>3. byKey' = [k \in Keys |-> IF byKey[k] \in gone THEN Free ELSE byKey[k]]
    BY <1>2
  <2> HIDE DEF gone
  <2> QED
    BY <2>1, <2>2, <2>3, Freed
<1>15. Told(jobs', <<>>)
  BY <1>8 DEF Told
<1>16. Issued'
  <2>1. ASSUME NEW o \in Ids, jobs'[o] # NoJob PROVE o <= issued
    <3>1. jobs[o] # NoJob
      BY <1>3, <1>11, <2>1
    <3> QED
      BY <3>1 DEF IInv, Issued
  <2> QED
    BY <1>2, <2>1 DEF IInv, Issued
<1>17. Ending'
  BY <1>2 DEF Ending
<1>18. IInv'
  BY <1>1, <1>2, <1>11, <1>13, <1>14, <1>15, <1>16, <1>17 DEF IInv
<1>19. Final
  BY <1>3, <1>9, <1>11 DEF Final, Is, IInv, Placed, Terminal
<1>20. Moves
  BY <1>2, <1>8, QueuedHaveNoTask DEF Moves
<1> QED
  BY <1>18, <1>19, <1>20 DEF Fair

-----------------------------------------------------------------------------
(* Every step                                                              *)

LEMMA NextInv ==
  ASSUME IInv, [Next]_vars
  PROVE  IInv'
<1>0. IInv => submitting \in Keys \cup {NoKey} /\ (submitting # NoKey => issued < MaxJobs)
  BY DEF IInv, Issued
<1>1. ASSUME NEW k \in Keys, SubmitLookup(k) PROVE IInv'
  BY <1>1, LookInv DEF SubmitLookup, Idle, cacheVars
<1>2. ASSUME NEW k \in Keys, Evict(k) PROVE IInv'
  BY <1>0, <1>2, LookInv DEF Evict, actorVars
<1>3. CASE SubmitJoin
  BY <1>3, LookInv DEF SubmitJoin
<1>4. CASE SubmitRefused
  BY <1>4, SubmitRefusedInv
<1>5. CASE SubmitCreate
  BY <1>5, SubmitCreateInv
<1>6. ASSUME NEW id \in Ids, EncodeOk(id) PROVE IInv'
  BY <1>6, EncodeInv DEF EncodeOk, Phases
<1>7. ASSUME NEW id \in Ids, PublishOk(id) PROVE IInv'
  BY <1>7, EncodeInv DEF PublishOk, Phases, Terminal
<1>8. ASSUME NEW id \in Ids, PublishFails(id) PROVE IInv'
  BY <1>8, EncodeInv DEF PublishFails, Phases, Terminal
<1>9. ASSUME NEW id \in Ids, EncodeFails(id) PROVE IInv'
  BY <1>9, EncodeInv DEF EncodeFails, Phases, Terminal
<1>10. ASSUME NEW id \in Ids, SpawnFails(id) PROVE IInv'
  BY <1>10, EncodeInv DEF SpawnFails, Phases, Terminal
<1>11. ASSUME NEW id \in Ids, EncodeCancelled(id) PROVE IInv'
  BY <1>11, EncodeInv DEF EncodeCancelled, Phases, Terminal
<1>12. ASSUME NEW id \in Ids, FinishJob(id) PROVE IInv'
  BY <1>12, FinishJobInv
<1>13. ASSUME NEW id \in Ids, CancelRunning(id) PROVE IInv'
  BY <1>13, CancelRunningInv
<1>14. ASSUME NEW id \in Ids, CancelQueued(id) PROVE IInv'
  BY <1>14, CancelQueuedInv
<1>15. CASE Shutdown
  BY <1>15, ShutdownInv
<1>16. CASE UNCHANGED vars
  BY <1>0, <1>16, LookInv DEF vars, actorVars
<1> QED
  BY <1>1, <1>2, <1>3, <1>4, <1>5, <1>6, <1>7, <1>8, <1>9, <1>10, <1>11, <1>12,
     <1>13, <1>14, <1>15, <1>16 DEF Next

THEOREM Invariance == Spec => []IInv
<1>1. Init => IInv
  BY InitInv
<1>2. IInv /\ [Next]_vars => IInv'
  BY NextInv
<1> QED
  BY <1>1, <1>2, PTL DEF Spec

(* In a sequence of different jobs, each is found once.                    *)
LEMMA FoundOnce ==
  ASSUME NEW s \in Seq(Ids), Distinct(s), NEW id \in Ids
  PROVE  Cardinality({i \in DOMAIN s : s[i] = id}) <= 1
<1> DEFINE at == {i \in DOMAIN s : s[i] = id}
<1>1. DOMAIN s = 1..Len(s)
  BY LenProperties
<1>2. CASE at = {}
  <2>1. Cardinality(at) = 0
    BY <1>2, FS_EmptySet
  <2> QED
    BY <2>1
<1>3. CASE at # {}
  <2>1. PICK i \in at : TRUE
    BY <1>3
  <2>2. at = {i}
    BY <1>1, <2>1 DEF Distinct
  <2>3. Cardinality(at) = 1
    BY <2>2, FS_Singleton
  <2> QED
    BY <2>3
<1> QED
  BY <1>2, <1>3

(* BooksBalance: the slots that are held, the entries of the table, the    *)
(* queue, the ring and the dedup map tell of the same jobs in every state  *)
(* the actor's messages lead to, and a shutdown that has replied has left  *)
(* no encode.                                                              *)
THEOREM BooksAlwaysBalance == Spec => []BooksBalance
<1>1. IInv => BooksBalance
  <2> SUFFICES ASSUME IInv PROVE BooksBalance
    OBVIOUS
  <2>1. SlotsAreCounted
    <3>1. {id \in Ids : Live(id)} = Busy(task)
      BY DEF Live, Busy
    <3> QED
      BY <3>1 DEF IInv, Counted, SlotsAreCounted
  <2>2. JobsAreAccounted
    <3> SUFFICES ASSUME NEW id \in Ids
                 PROVE  /\ id \in Members(queued) <=> Present(id) /\ jobs[id].event = "queued"
                        /\ Live(id) <=> Present(id) /\ jobs[id].event = "running"
                        /\ id \in Members(terminal) <=> Present(id) /\ Settled(id)
                        /\ Cardinality({i \in DOMAIN queued : queued[i] = id}) <= 1
                        /\ Cardinality({i \in DOMAIN terminal : terminal[i] = id}) <= 1
      BY DEF JobsAreAccounted
    <3>1. /\ queued \in Seq(Ids) /\ Distinct(queued)
          /\ terminal \in Seq(Ids) /\ Distinct(terminal)
      BY OrderedIsDistinct DEF IInv, Placed
    <3>2. /\ Cardinality({i \in DOMAIN queued : queued[i] = id}) <= 1
          /\ Cardinality({i \in DOMAIN terminal : terminal[i] = id}) <= 1
      BY <3>1, FoundOnce
    <3>3. /\ id \in Members(queued) <=> Present(id) /\ jobs[id].event = "queued"
          /\ Live(id) <=> Present(id) /\ jobs[id].event = "running"
          /\ id \in Members(terminal) <=> Present(id) /\ Settled(id)
      BY DEF IInv, Placed, Is, Present, Live, Settled
    <3> QED
      BY <3>2, <3>3
  <2>3. OneWantedJobPerKey
    <3> SUFFICES ASSUME NEW k \in Keys, ~shuttingDown
                 PROVE  {id \in Ids : /\ Present(id) /\ jobs[id].key = k
                                      /\ ~Settled(id) /\ ~jobs[id].cancel}
                          = {byKey[k]} \ {Free}
      BY DEF OneWantedJobPerKey
    <3>1. \A id \in Ids : Present(id) /\ ~Settled(id) <=> Is(jobs, id, Open)
      <4> SUFFICES ASSUME NEW id \in Ids
                   PROVE  Present(id) /\ ~Settled(id) <=> Is(jobs, id, Open)
        OBVIOUS
      <4>1. CASE jobs[id] = NoJob
        BY <4>1 DEF Present, Is
      <4>2. CASE jobs[id] # NoJob
        <5>1. jobs[id].event \in Events
          BY <4>2 DEF IInv, Placed, Entry
        <5> QED
          BY <4>2, <5>1 DEF Present, Settled, Is, Open, Events, Terminal
      <4> QED
        BY <4>1, <4>2
    <3>2. \A id \in Ids : Is(jobs, id, Open) /\ jobs[id].key = k /\ ~jobs[id].cancel => id = byKey[k]
      BY DEF IInv, Mapped, Open
    <3>3. byKey[k] # Free => /\ byKey[k] \in Ids /\ Is(jobs, byKey[k], Open)
                             /\ jobs[byKey[k]].key = k /\ ~jobs[byKey[k]].cancel
      BY DEF IInv, Mapped, Open
    <3>4. Free \notin Ids
      BY DEF Free, Ids
    <3> QED
      BY <3>1, <3>2, <3>3, <3>4
  <2>4. DrainedMeansStopped
    <3> SUFFICES ASSUME drained = "sent"
                 PROVE  running = 0 /\ queued = <<>> /\ \A id \in Ids : ~Live(id)
      BY DEF DrainedMeansStopped
    <3>1. running = 0 /\ queued = <<>>
      BY DEF IInv, Ending
    <3>2. IsFiniteSet(Busy(task))
      <4>1. IsFiniteSet(Ids)
        BY FS_Interval, PoolAssumption DEF Ids, PoolAssumption
      <4> QED
        BY <4>1, FS_Subset DEF Busy
    <3>3. Busy(task) = {}
      BY <3>1, <3>2, FS_EmptySet DEF IInv, Counted
    <3> QED
      BY <3>1, <3>3 DEF Busy, Live
  <2> QED
    BY <2>1, <2>2, <2>3, <2>4 DEF BooksBalance
<1> QED
  BY <1>1, Invariance, PTL

(* Every step keeps what the clients of the queue were told.               *)
LEMMA NextFair ==
  ASSUME IInv, [Next]_vars
  PROVE  Fair
<1>1. ASSUME jobs' = jobs, queued' = queued,
             \A o \in Members(queued) : task'[o] # "encoding"
      PROVE  Fair
  BY <1>1, QueueStands DEF Fair, Final
<1>2. ASSUME NEW id \in Ids, NEW phase, task[id] # "none",
             task' = [task EXCEPT ![id] = phase], UNCHANGED actorVars
      PROVE  Fair
  <2>1. \A o \in Members(queued) : task'[o] # "encoding"
    BY <1>2, QueuedHaveNoTask DEF IInv, Placed
  <2> QED
    BY <1>1, <1>2, <2>1 DEF actorVars
<1>3. ASSUME jobs' = jobs, queued' = queued, task' = task PROVE Fair
  BY <1>1, <1>3, QueuedHaveNoTask
<1>4. ASSUME NEW k \in Keys, SubmitLookup(k) \/ Evict(k) PROVE Fair
  BY <1>3, <1>4 DEF SubmitLookup, Evict, actorVars
<1>5. CASE SubmitJoin
  BY <1>3, <1>5 DEF SubmitJoin
<1>6. ASSUME NEW id \in Ids,
             \/ EncodeOk(id) \/ PublishOk(id) \/ PublishFails(id)
             \/ EncodeFails(id) \/ SpawnFails(id) \/ EncodeCancelled(id)
      PROVE  Fair
  BY <1>2, <1>6
     DEF EncodeOk, PublishOk, PublishFails, EncodeFails, SpawnFails, EncodeCancelled
<1>7. ASSUME NEW id \in Ids, FinishJob(id) \/ CancelRunning(id) \/ CancelQueued(id)
      PROVE  Fair
  BY <1>7, FinishJobInv, CancelRunningInv, CancelQueuedInv
<1>8. CASE SubmitRefused \/ SubmitCreate \/ Shutdown
  BY <1>8, SubmitRefusedInv, SubmitCreateInv, ShutdownInv
<1>9. CASE UNCHANGED vars
  BY <1>3, <1>9 DEF vars, actorVars
<1> QED
  BY <1>4, <1>5, <1>6, <1>7, <1>8, <1>9 DEF Next

(* QueueIsFair: the position a queued client was told is the one it has,   *)
(* it never gets worse and a verdict never changes (dispatch, cancel_job,  *)
(* finish_job), and of two queued jobs the earlier one starts first.       *)
THEOREM QueueIsAlwaysFair == Spec => QueueIsFair
<1>1. IInv => PositionsAreTold
  <2>1. IInv => DOMAIN queued = 1..Len(queued)
    BY LenProperties DEF IInv, Placed
  <2> QED
    BY <2>1 DEF IInv, Told, PositionsAreTold
<1>2. IInv /\ IInv' /\ [Next]_vars =>
        [\A id \in Ids : Present(id) /\ Present(id)' =>
           /\ jobs[id].event = "queued" /\ jobs'[id].event = "queued"
                => jobs'[id].position <= jobs[id].position
           /\ Settled(id) => jobs'[id].event = jobs[id].event]_vars
  <2> SUFFICES ASSUME IInv, IInv', [Next]_vars, NEW id \in Ids, Present(id), Present(id)'
               PROVE  /\ jobs[id].event = "queued" /\ jobs'[id].event = "queued"
                           => jobs'[id].position <= jobs[id].position
                      /\ Settled(id) => jobs'[id].event = jobs[id].event
    OBVIOUS
  <2>1. Final /\ Moves
    BY NextFair DEF Fair
  <2>2. jobs[id] # NoJob /\ jobs'[id] # NoJob
    BY DEF Present
  <2>3. ASSUME jobs[id].event = "queued", jobs'[id].event = "queued"
        PROVE  jobs'[id].position <= jobs[id].position
    <3>1. id \in Members(queued) /\ id \in Members(queued')
      BY <2>2, <2>3 DEF IInv, Placed, Is
    <3>2. queued' \in Seq(Ids) /\ queued \in Seq(Ids) /\ Distinct(queued)
      BY OrderedIsDistinct DEF IInv, Placed
    <3>3. PICK i \in 1..Len(queued') : id = queued'[i]
      BY <3>1, <3>2, MembersOf
    <3>4. PICK j \in 1..Len(queued) : queued[j] = id /\ i <= j
      BY <2>1, <3>1, <3>3 DEF Moves
    <3>5. jobs'[id].position = i
      BY <3>3 DEF IInv, Told
    <3>6. jobs[id].position = j
      BY <3>4 DEF IInv, Told
    <3> QED
      BY <3>4, <3>5, <3>6
  <2>4. ASSUME Settled(id) PROVE jobs'[id].event = jobs[id].event
    BY <2>1, <2>2, <2>4 DEF Settled, Final, Is
  <2> QED
    BY <2>3, <2>4
<1>3. IInv /\ [Next]_vars =>
        [\A id \in Members(queued) : task'[id] = "encoding" =>
           \A other \in Members(queued) : other < id => other \notin Members(queued')]_vars
  BY NextFair DEF Fair, Moves
<1>4. Spec => []PositionsAreTold
  BY <1>1, Invariance, PTL
<1>5. Spec => QueueIsAPromise
  BY <1>2, Invariance, PTL DEF Spec, QueueIsAPromise
<1>6. Spec => StartsInOrder
  BY <1>3, Invariance, PTL DEF Spec, StartsInOrder
<1> QED
  BY <1>4, <1>5, <1>6 DEF QueueIsFair
=============================================================================
