---------------------------- MODULE InferioProofs ----------------------------
(***************************************************************************)
(* The manager, for any number of models, cache keys, clients, loads and   *)
(* faults: pins are counted right, no set of workers is forgotten, a       *)
(* registered model can be unloaded, and a shutdown leaves nothing behind. *)
(*                                                                         *)
(* This argument never looks into the LRU lists: whatever entries a touch, *)
(* an unload, an expiry or a death removes, the same step unloads exactly  *)
(* the models whose last reference was among them.  What carries it is     *)
(* that a generation belongs to one model, that load_lock has one holder   *)
(* and that this holder is the only client that spawns.  The lists have an *)
(* invariant of their own, Agree: they and the references say the same.    *)
(*                                                                         *)
(* The dispatcher, for any requests, replicas, caps, byte budget and       *)
(* faults: batching is invisible and nobody is forgotten.  The first half  *)
(* is the theory of windows: concatenation, its bytes and its slices, by   *)
(* induction over the length of a sequence.  The second is an invariant in *)
(* four parts: every frame is made of the inputs of its window, answers    *)
(* are grounded, who waits is held, and what was taken, the queue and the  *)
(* mailbox are one line in the order of sending.                           *)
(***************************************************************************)
EXTENDS InferioManager, InferioDispatch, SequenceTheorems, FiniteSetTheorems,
        WellFoundedInduction, TLAPS


WaitingClients == [at : Waits, kind : {"load", "predict"}, model : Models,
            key : CacheKeys, ttl : Ttls, gen : {None} \cup Gens]

Types ==
  /\ refs \in [Models -> SUBSET CacheKeys]
  /\ pins \in [Models -> Nat]
  /\ models \in [Models -> {None} \cup Gens]
  /\ sets \in [Gens -> {"none", "serving", "closing", "dead", "gone"}]
  /\ draining \subseteq Gens /\ awaited \subseteq Gens
  /\ generations \in 0..MaxLoads
  /\ shutdown \in {"no", "locking", "awaiting", "done"}
  /\ client \in [Clients -> {Idle} \cup WaitingClients]

(* The client that spawns is the one that holds load_lock, and its model   *)
(* is not loaded.                                                          *)
OneSpawner ==
  /\ \A c \in Clients :
       /\ client[c].at = "spawn" <=> lock = c
       /\ client[c].at = "spawn" => models[client[c].model] = None
  /\ lock # Nobody => lock \in Clients /\ generations < MaxLoads

(* Generations are counted up, and each is of one model at most.           *)
Numbered ==
  /\ \A m \in Models : models[m] <= generations
  /\ \A g \in Gens : sets[g] = "none" <=> generations < g
  /\ \A m, n \in Models : models[m] = models[n] /\ models[m] # None => m = n

(* A predict waits for a generation of its own model.                      *)
AnswersAwaited ==
  \A c \in Clients : client[c].at = "answer" =>
    /\ client[c].gen \in 1..generations
    /\ \A m \in Models : models[m] = client[c].gen => m = client[c].model

(* Nothing is awaited before the shutdown.  A manager that shuts down has  *)
(* nothing registered, and once it has taken the lock nothing more comes   *)
(* up.                                                                     *)
Down ==
  /\ ~ShuttingDown => awaited = {}
  /\ ShuttingDown => \A m \in Models : models[m] = None /\ refs[m] = {}
  /\ shutdown \in {"awaiting", "done"} => draining = {} /\ lock = Nobody

Holds(x, m) == x # Idle /\ x.at \in {"spawn", "answer"} /\ x.model = m
Holders(m) == {c \in Clients : Holds(client[c], m)}

Books == /\ Types /\ OneSpawner /\ Numbered /\ AnswersAwaited /\ Down
         /\ RegisteredIsReferenced /\ WorkersAreOwned

IInv == Books /\ PinsAreHeld /\ ShutdownLeavesNoWorker
-----------------------------------------------------------------------------
(* Removing entries                                                        *)

(* What touch_load, unload_model, clear_cache, a failed spawn and a sweep  *)
(* share: references go, and with the last one the model.                  *)
Drops(r, gone) ==
  LET us == Unreferenced(r, gone)
      gs == {models[m] : m \in us} \ {None}
  IN /\ refs' = WithoutRefs(r, gone)
     /\ models' = [m \in Models |-> IF m \in us THEN None ELSE models[m]]
     /\ sets' = [g \in Gens |-> IF g \in gs /\ sets[g] = "serving"
                                THEN "closing" ELSE sets[g]]
     /\ draining' \subseteq draining \cup gs
     /\ {g \in draining : sets[g] # "gone"} \cup gs \subseteq draining'
     /\ generations' = generations /\ awaited' = awaited /\ shutdown' = shutdown

(* The part of the invariant that is not about clients.                    *)
Store == /\ refs \in [Models -> SUBSET CacheKeys]
         /\ models \in [Models -> {None} \cup Gens]
         /\ sets \in [Gens -> {"none", "serving", "closing", "dead", "gone"}]
         /\ draining \subseteq Gens /\ awaited \subseteq Gens
         /\ generations \in 0..MaxLoads
         /\ shutdown \in {"no", "locking", "awaiting", "done"}
         /\ Numbered
         /\ RegisteredIsReferenced /\ WorkersAreOwned
         /\ ~ShuttingDown => awaited = {}
         /\ ShuttingDown => \A m \in Models : models[m] = None /\ refs[m] = {}
         /\ shutdown \in {"awaiting", "done"} => draining = {}

(* r is refs, or refs with the key of a touch added.                       *)
LEMMA DropsKeepStore ==
  ASSUME Store, NEW gone, NEW r \in [Models -> SUBSET CacheKeys],
         \A m \in Models : refs[m] \subseteq r[m],
         ShuttingDown => r = refs,
         Drops(r, gone)
  PROVE  /\ Store'
         /\ \A m \in Models : models'[m] \in {None, models[m]}
         /\ ShuttingDown => sets' = sets
<1> DEFINE us == Unreferenced(r, gone)
           gs == {models[m] : m \in us} \ {None}
<1>0. ManagerAssumption
  BY ManagerAssumption
<1>1. us \subseteq Models /\ gs \subseteq Gens
  BY DEF Unreferenced, Store
<1>2. /\ refs' = WithoutRefs(r, gone)
      /\ models' = [m \in Models |-> IF m \in us THEN None ELSE models[m]]
      /\ sets' = [g \in Gens |-> IF g \in gs /\ sets[g] = "serving"
                                 THEN "closing" ELSE sets[g]]
      /\ draining' \subseteq draining \cup gs
      /\ {g \in draining : sets[g] # "gone"} \cup gs \subseteq draining'
      /\ generations' = generations /\ awaited' = awaited /\ shutdown' = shutdown
  BY DEF Drops
<1>3. \A m \in Models : refs'[m] # {} <=> (r[m] # {} /\ m \notin us)
  BY <1>2 DEF WithoutRefs, Unreferenced
<1>4. \A g \in gs : \E m \in us : models[m] = g
  OBVIOUS
<1> HIDE DEF us, gs
<1>5. /\ refs' \in [Models -> SUBSET CacheKeys]
      /\ models' \in [Models -> {None} \cup Gens]
      /\ sets' \in [Gens -> {"none", "serving", "closing", "dead", "gone"}]
      /\ draining' \subseteq Gens
  BY <1>1, <1>2 DEF Store, WithoutRefs
<1>6. \A m \in Models : models'[m] \in {None, models[m]}
  BY <1>2
<1>7. Numbered'
  <2>1. \A m \in Models : models'[m] <= generations'
    BY <1>0, <1>2 DEF Store, Numbered, None
  <2>2. \A g \in Gens : sets'[g] = "none" <=> generations' < g
    BY <1>2 DEF Store, Numbered
  <2>3. \A m, n \in Models : models'[m] = models'[n] /\ models'[m] # None => m = n
    BY <1>6 DEF Store, Numbered
  <2> QED
    BY <2>1, <2>2, <2>3 DEF Numbered
<1>8. RegisteredIsReferenced'
  <2> SUFFICES ASSUME NEW m \in Models, models'[m] # None
               PROVE  refs'[m] # {} /\ sets'[models'[m]] \in {"serving", "dead"}
    BY DEF RegisteredIsReferenced
  <2>1. m \notin us /\ models'[m] = models[m]
    BY <1>2
  <2>2. refs[m] # {} /\ sets[models[m]] \in {"serving", "dead"} /\ models[m] \in Gens
    BY <2>1 DEF Store, RegisteredIsReferenced
  <2>3. models[m] \notin gs
    BY <1>1, <1>4, <2>1 DEF Store, Numbered
  <2> QED
    BY <1>2, <1>3, <2>1, <2>2, <2>3
<1>9. WorkersAreOwned'
  <2> SUFFICES ASSUME NEW g \in Gens
               PROVE  /\ sets'[g] = "serving" => \E m \in Models : models'[m] = g
                      /\ sets'[g] \in {"closing", "dead"} =>
                           g \in draining' \cup awaited' \/ \E m \in Models : models'[m] = g
    BY DEF WorkersAreOwned
  <2>1. CASE g \in gs
    BY <1>2, <2>1
  <2>2. CASE g \notin gs
    <3>1. sets'[g] = sets[g]
      BY <1>2, <2>2
    <3>2. \A m \in Models : models[m] = g => models'[m] = g
      <4> SUFFICES ASSUME NEW m \in Models, models[m] = g, m \in us PROVE FALSE
        BY <1>2
      <4> QED
        BY <2>2, <1>0 DEF gs, None, Gens
    <3>3. g \in draining /\ sets[g] # "gone" => g \in draining'
      BY <1>2
    <3> QED
      BY <1>2, <3>1, <3>2, <3>3 DEF Store, WorkersAreOwned
  <2> QED
    BY <2>1, <2>2
<1>10. ShuttingDown' => /\ \A m \in Models : models'[m] = None /\ refs'[m] = {}
                        /\ us = {} /\ gs = {}
  <2> SUFFICES ASSUME ShuttingDown' PROVE /\ \A m \in Models : models'[m] = None /\ refs'[m] = {}
                                          /\ us = {} /\ gs = {}
    OBVIOUS
  <2>1. r = refs /\ \A m \in Models : models[m] = None /\ refs[m] = {}
    BY <1>2 DEF Store, ShuttingDown
  <2>2. us = {}
    BY <2>1 DEF us, Unreferenced
  <2> QED
    BY <1>2, <1>3, <2>1, <2>2 DEF gs
<1>11. shutdown' \in {"awaiting", "done"} => draining' = {}
  BY <1>2, <1>10 DEF Store, ShuttingDown
<1>12. ShuttingDown => sets' = sets
  <2> SUFFICES ASSUME ShuttingDown PROVE \A g \in Gens : sets'[g] = sets[g]
    BY <1>5 DEF Store
  <2> QED
    BY <1>2, <1>10 DEF ShuttingDown
<1> QED
  BY <1>2, <1>5, <1>6, <1>7, <1>8, <1>9, <1>10, <1>11, <1>12 DEF Store, ShuttingDown

-----------------------------------------------------------------------------
(* Requests                                                                *)

(* One client moves: the holders of a pin on a model change by it alone.   *)
LEMMA OneMoves ==
  ASSUME client \in [Clients -> {Idle} \cup WaitingClients],
         NEW c \in Clients, NEW x, client' = [client EXCEPT ![c] = x],
         NEW m \in Models
  PROVE  /\ Cardinality(Holders(m)) \in Nat
         /\ Holds(client[c], m) => Cardinality(Holders(m)) > 0
         /\ Cardinality(Holders(m)') =
              Cardinality(Holders(m)) + (IF Holds(x, m) THEN 1 ELSE 0)
                                      - (IF Holds(client[c], m) THEN 1 ELSE 0)
<1> DEFINE H == Holders(m)
           others == {d \in Clients : d # c /\ Holds(client[d], m)}
<1>1. IsFiniteSet(H) /\ IsFiniteSet(others)
  BY ManagerAssumption, FS_Subset DEF ManagerAssumption, Holders
<1>2. Cardinality(others) \in Nat
  BY <1>1, FS_CardinalityType
<1>3. c \notin others
  OBVIOUS
<1>4. H = IF Holds(client[c], m) THEN others \cup {c} ELSE others
  BY DEF Holders
<1>5. H' = IF Holds(x, m) THEN others \cup {c} ELSE others
  <2>1. \A d \in Clients : client'[d] = IF d = c THEN x ELSE client[d]
    OBVIOUS
  <2>2. H' = {d \in Clients : Holds(client'[d], m)}
    BY DEF Holders, Holds
  <2> QED
    BY <2>1, <2>2
<1>6. Cardinality(others \cup {c}) = Cardinality(others) + 1
  BY <1>1, <1>3, FS_AddElement
<1> QED
  BY <1>2, <1>4, <1>5, <1>6

(* The invariant of the store, as the parts the step lemmas work with.     *)
LEMMA Parts ==
  Books <=> /\ Store /\ OneSpawner /\ AnswersAwaited
            /\ pins \in [Models -> Nat]
            /\ client \in [Clients -> {Idle} \cup WaitingClients]
            /\ shutdown \in {"awaiting", "done"} => lock = Nobody
BY DEF Books, Store, Types, Down

(* Pins that follow the one client that moves.                             *)
LEMMA PinsFollow ==
  ASSUME Books, PinsAreHeld, shutdown' = shutdown,
         NEW c \in Clients, NEW x, client' = [client EXCEPT ![c] = x],
         \A m \in Models :
           pins'[m] = IF Holds(client[c], m) <=> Holds(x, m) THEN pins[m]
                      ELSE IF Holds(x, m) THEN pins[m] + 1
                      ELSE IF pins[m] = 0 THEN 0 ELSE pins[m] - 1
  PROVE  PinsAreHeld'
<1> SUFFICES ASSUME ~ShuttingDown, NEW m \in Models
             PROVE  pins'[m] = Cardinality(Holders(m)')
  BY DEF PinsAreHeld, ShuttingDown, Holders, Holds
<1>1. pins[m] = Cardinality(Holders(m))
  BY DEF PinsAreHeld, Holders, Holds
<1>2. client \in [Clients -> {Idle} \cup WaitingClients]
  BY DEF Books, Types
<1>3. /\ Cardinality(Holders(m)) \in Nat
      /\ Holds(client[c], m) => Cardinality(Holders(m)) > 0
      /\ Cardinality(Holders(m)') =
              Cardinality(Holders(m)) + (IF Holds(x, m) THEN 1 ELSE 0)
                                      - (IF Holds(client[c], m) THEN 1 ELSE 0)
  BY <1>2, OneMoves
<1>4. Holds(x, m) \in BOOLEAN /\ Holds(client[c], m) \in BOOLEAN
  BY DEF Holds
<1> QED
  BY <1>1, <1>3, <1>4

(* A client that lets go releases the pin it held.                         *)
LEMMA PinReleased ==
  ASSUME Books, PinsAreHeld, shutdown' = shutdown,
         NEW c \in Clients, client' = [client EXCEPT ![c] = Idle],
         NEW m \in Models, \A n \in Models : Holds(client[c], n) <=> n = m,
         pins' = Unpin(pins, m)
  PROVE  PinsAreHeld'
<1> SUFFICES ASSUME ~ShuttingDown, NEW n \in Models
             PROVE  pins'[n] = Cardinality(Holders(n)')
  BY DEF PinsAreHeld, ShuttingDown, Holders, Holds
<1>1. pins[n] = Cardinality(Holders(n))
  BY DEF PinsAreHeld, Holders, Holds
<1>2. client \in [Clients -> {Idle} \cup WaitingClients] /\ pins \in [Models -> Nat]
  BY DEF Books, Types
<1>3. ~Holds(Idle, n)
  BY DEF Holds
<1>4. /\ Cardinality(Holders(n)) \in Nat
      /\ Holds(client[c], n) => Cardinality(Holders(n)) > 0
      /\ Cardinality(Holders(n)') =
              Cardinality(Holders(n)) + (IF Holds(Idle, n) THEN 1 ELSE 0)
                                      - (IF Holds(client[c], n) THEN 1 ELSE 0)
  BY <1>2, OneMoves
<1>5. pins'[n] = IF n # m THEN pins[n] ELSE IF pins[n] = 0 THEN 0 ELSE pins[n] - 1
  BY <1>2 DEF Unpin
<1>6. CASE n = m
  BY <1>1, <1>3, <1>4, <1>5, <1>6
<1>7. CASE n # m
  BY <1>1, <1>3, <1>4, <1>5, <1>7
<1> QED
  BY <1>6, <1>7

(* Nobody moves, and no pin does.                                          *)
LEMMA PinsStay ==
  ASSUME PinsAreHeld, client' = client, pins' = pins, ShuttingDown => ShuttingDown'
  PROVE  PinsAreHeld'
BY DEF PinsAreHeld

(* A predict keeps waiting for its own model while models only go.         *)
LEMMA AnsweringStays ==
  ASSUME AnswersAwaited, client' = client, generations' = generations,
         \A m \in Models : models'[m] \in {None, models[m]}
  PROVE  AnswersAwaited'
BY DEF AnswersAwaited, None

(* Why no set of workers is left when the shutdown is done: nothing that   *)
(* was loaded is, and nobody is spawning.                                  *)
AllStopped == shutdown = "done" => \A g \in Gens : sets[g] \in {"none", "gone"}

LEMMA Assembled ==
  ASSUME Store', AllStopped', OneSpawner', AnswersAwaited', PinsAreHeld',
         pins' \in [Models -> Nat],
         client' \in [Clients -> {Idle} \cup WaitingClients],
         shutdown' \in {"awaiting", "done"} => lock' = Nobody
  PROVE  IInv'
<1>1. Books'
  BY DEF Books, Store, Types, Down
<1>2. ShutdownLeavesNoWorker'
  <2> SUFFICES ASSUME shutdown' = "done", NEW c \in Clients
               PROVE  client'[c].at # "spawn"
    BY DEF ShutdownLeavesNoWorker, AllStopped
  <2> QED
    BY ManagerAssumption DEF ManagerAssumption, OneSpawner
<1> QED
  BY <1>1, <1>2 DEF IInv

(* load_lock follows the client that moves.                                *)
LEMMA SpawnerFollows ==
  ASSUME OneSpawner, client \in [Clients -> {Idle} \cup WaitingClients],
         NEW c \in Clients, NEW x, client' = [client EXCEPT ![c] = x],
         x.at = "spawn" => lock = Nobody,
         lock' = IF x.at = "spawn" THEN c
                 ELSE IF client[c].at = "spawn" THEN Nobody ELSE lock,
         lock' # Nobody => /\ generations' < MaxLoads
                           /\ \A m \in Models : models'[m] \in {None, models[m]},
         x.at = "spawn" => models'[x.model] = None
  PROVE  OneSpawner'
<1>1. \A d \in Clients : client'[d] = IF d = c THEN x ELSE client[d]
  OBVIOUS
<1>2. lock' # Nobody => lock' \in Clients /\ generations' < MaxLoads
  BY DEF OneSpawner
<1>3. ASSUME NEW d \in Clients PROVE client'[d].at = "spawn" <=> lock' = d
  BY <1>1, ManagerAssumption DEF ManagerAssumption, OneSpawner
<1>4. ASSUME NEW d \in Clients, client'[d].at = "spawn"
      PROVE  models'[client'[d].model] = None
  <2>1. CASE d = c
    BY <1>1, <1>4, <2>1
  <2>2. CASE d # c
    <3>1. client'[d] = client[d] /\ client[d].at = "spawn" /\ models[client[d].model] = None
      BY <1>1, <1>4, <2>2 DEF OneSpawner
    <3>2. client[d].model \in Models /\ lock' # Nobody
      BY <1>3, <1>4, <3>1, ManagerAssumption DEF WaitingClients, Idle, ManagerAssumption
    <3> QED
      BY <3>1, <3>2
  <2> QED
    BY <2>1, <2>2
<1> QED
  BY <1>2, <1>3, <1>4 DEF OneSpawner

(* So do the generations that predicts wait for: the generations that      *)
(* appear are new.                                                         *)
LEMMA AnsweringFollows ==
  ASSUME Store, AnswersAwaited, client \in [Clients -> {Idle} \cup WaitingClients],
         NEW c \in Clients, NEW x, client' = [client EXCEPT ![c] = x],
         generations' \in {generations, generations + 1},
         \A m \in Models : models'[m] \in {None, models[m], generations + 1},
         x.at = "answer" =>
           /\ x.gen \in 1..generations'
           /\ \A m \in Models : models'[m] = x.gen => m = x.model
  PROVE  AnswersAwaited'
<1>1. \A d \in Clients : client'[d] = IF d = c THEN x ELSE client[d]
  OBVIOUS
<1>2. generations \in Nat
  BY ManagerAssumption DEF ManagerAssumption, Store
<1> QED
  BY <1>1, <1>2 DEF AnswersAwaited, None

(* Nobody moves, and models only go.                                       *)
LEMMA NobodyMoves ==
  ASSUME IInv, Store', AllStopped',
         UNCHANGED <<client, pins, lock, shutdown, generations>>,
         \A m \in Models : models'[m] \in {None, models[m]}
  PROVE  IInv'
<1>1. OneSpawner' /\ AnswersAwaited'
  <2>1. ASSUME NEW c \in Clients, client[c].at = "spawn" PROVE client[c].model \in Models
    BY <2>1, Parts DEF IInv, WaitingClients, Idle
  <2> QED
    BY <2>1, Parts, AnsweringStays DEF IInv, OneSpawner
<1>2. PinsAreHeld'
  BY PinsStay DEF IInv, ShuttingDown
<1> QED
  BY <1>1, <1>2, Parts, Assembled DEF IInv

-----------------------------------------------------------------------------
(* The steps                                                               *)

LEMMA InitInv == Init => IInv
<1> SUFFICES ASSUME Init PROVE IInv
  OBVIOUS
<1> USE ManagerAssumption DEF ManagerAssumption
<1>1. Types
  BY DEF Init, Types, None
<1>2. OneSpawner
  BY DEF Init, OneSpawner, Idle
<1>3. Numbered
  BY DEF Init, Numbered, None, Gens
<1>4. AnswersAwaited /\ Down
  BY DEF Init, AnswersAwaited, Down, Idle, ShuttingDown
<1>5. RegisteredIsReferenced /\ WorkersAreOwned
  BY DEF Init, RegisteredIsReferenced, WorkersAreOwned
<1>6. PinsAreHeld
  <2> SUFFICES ASSUME NEW m \in Models PROVE pins[m] = Cardinality(Holders(m))
    BY DEF PinsAreHeld, Holders, Holds
  <2>1. Holders(m) = {}
    BY DEF Init, Holders, Holds
  <2> QED
    BY <2>1, FS_EmptySet DEF Init
<1>7. ShutdownLeavesNoWorker
  BY DEF Init, ShutdownLeavesNoWorker
<1> QED
  BY <1>1, <1>2, <1>3, <1>4, <1>5, <1>6, <1>7 DEF IInv, Books

LEMMA AskInv ==
  ASSUME IInv, NEW c \in Clients, NEW kind \in {"load", "predict"}, NEW m \in Models,
         NEW k \in CacheKeys, NEW t \in Ttls, Ask(c, kind, m, k, t)
  PROVE  IInv'
<1> DEFINE x == [at |-> "lock", kind |-> kind, model |-> m, key |-> k, ttl |-> t,
                 gen |-> None]
<1>1. /\ client' = [client EXCEPT ![c] = x] /\ client[c] = Idle
      /\ UNCHANGED <<cache, pins, models, sets, draining, generations, lock, shutdown,
                     awaited>>
  BY DEF Ask
<1>2. x \in WaitingClients /\ ~Holds(x, m) /\ \A n \in Models : ~Holds(x, n) /\ ~Holds(Idle, n)
  BY DEF WaitingClients, Waits, Holds, Idle
<1>3. x.at = "lock" /\ Idle.at = "idle"
  BY DEF Idle
<1> HIDE DEF x
<1>4. Store' /\ AllStopped'
  BY <1>1, Parts DEF IInv, Store, Numbered, RegisteredIsReferenced, WorkersAreOwned,
     ShuttingDown, ShutdownLeavesNoWorker, AllStopped, cache
<1>5. client' \in [Clients -> {Idle} \cup WaitingClients]
  BY <1>1, <1>2, Parts DEF IInv
<1>6. OneSpawner' /\ AnswersAwaited'
  BY <1>1, <1>3, Parts, SpawnerFollows, AnsweringFollows DEF IInv, OneSpawner
<1>7. PinsAreHeld'
  <2>1. \A n \in Models : pins'[n] = pins[n] /\ ~Holds(client[c], n) /\ ~Holds(x, n)
    BY <1>1, <1>2
  <2> QED
    BY <1>1, <1>2, <2>1, PinsFollow DEF IInv
<1> QED
  BY <1>1, <1>4, <1>5, <1>6, <1>7, Assembled, Parts DEF IInv

LEMMA RefusedInv == ASSUME IInv, NEW c \in Clients, Refused(c) PROVE IInv'
<1>1. /\ client' = [client EXCEPT ![c] = Idle] /\ client[c].at = "lock"
      /\ UNCHANGED <<cache, pins, models, sets, draining, generations, lock, shutdown,
                     awaited>>
  BY DEF Refused
<1>2. Idle.at = "idle" /\ \A n \in Models : ~Holds(Idle, n) /\ ~Holds(client[c], n)
  BY <1>1 DEF Holds, Idle
<1>3. Store' /\ AllStopped'
  BY <1>1, Parts DEF IInv, Store, Numbered, RegisteredIsReferenced, WorkersAreOwned,
     ShuttingDown, ShutdownLeavesNoWorker, AllStopped, cache
<1>4. client' \in [Clients -> {Idle} \cup WaitingClients]
  BY <1>1, Parts DEF IInv
<1>5. OneSpawner' /\ AnswersAwaited'
  BY <1>1, <1>2, Parts, SpawnerFollows, AnsweringFollows DEF IInv, OneSpawner
<1>6. PinsAreHeld'
  BY <1>1, <1>2, PinsFollow DEF IInv
<1> QED
  BY <1>1, <1>3, <1>4, <1>5, <1>6, Assembled, Parts DEF IInv

(* A touch adds one reference, and drops what it evicts.                   *)
LEMMA TouchDrops ==
  ASSUME Store, NEW m \in Models, NEW k \in CacheKeys, NEW t \in Ttls, NEW size,
         Touch(m, k, t, size), ~ShuttingDown,
         UNCHANGED <<generations, shutdown, awaited>>
  PROVE  /\ Store' /\ \A n \in Models : models'[n] \in {None, models[n]}
         /\ ShuttingDown => sets' = sets
<1> DEFINE touched == [refs EXCEPT ![m] = @ \cup {k}]
<1>1. touched \in [Models -> SUBSET CacheKeys] /\ \A n \in Models : refs[n] \subseteq touched[n]
  BY DEF Store
<1>2. PICK gone : refs' = WithoutRefs(touched, gone) /\ Unload(Unreferenced(touched, gone))
  BY DEF Touch
<1> HIDE DEF touched
<1>3. Drops(touched, gone)
  BY <1>2 DEF Drops, Unload
<1> QED
  BY <1>1, <1>3, DropsKeepStore

LEMMA BeginInv == ASSUME IInv, NEW c \in Clients, Begin(c) PROVE IInv'
<1> DEFINE m == client[c].model
<1>1. /\ client[c].at = "lock" /\ lock = Nobody /\ ~ShuttingDown
      /\ UNCHANGED <<generations, shutdown, awaited, bounds>>
  BY DEF Begin
<1>2. client[c] \in WaitingClients /\ Store /\ client \in [Clients -> {Idle} \cup WaitingClients]
  BY <1>1, Parts DEF IInv, Idle
<1>3. m \in Models /\ client[c].key \in CacheKeys /\ client[c].ttl \in Ttls
  BY <1>2 DEF WaitingClients
<1>4. PICK x :
        /\ \E size \in LruSizes : Touch(m, client[c].key, client[c].ttl, size)
        /\ client' = [client EXCEPT ![c] = x]
        /\ \/ x = Idle /\ UNCHANGED <<pins, lock>>
           \/ /\ models'[m] # None
              /\ x = [client[c] EXCEPT !.at = "answer", !.gen = models'[m]]
              /\ pins' = Pin(pins, m) /\ UNCHANGED lock
           \/ /\ generations < MaxLoads
              /\ x = [client[c] EXCEPT !.at = "spawn"] /\ models'[m] = None
              /\ pins' = Pin(pins, m) /\ lock' = c
  BY DEF Begin
<1>5. Store' /\ \A n \in Models : models'[n] \in {None, models[n]}
  BY <1>1, <1>2, <1>3, <1>4, TouchDrops
<1>6. models' \in [Models -> {None} \cup Gens] /\ Numbered' /\ pins \in [Models -> Nat]
  BY <1>5, Parts DEF Store, IInv
<1>7. x \in {Idle} \cup WaitingClients
  BY <1>2, <1>3, <1>4, <1>6 DEF WaitingClients, Waits
<1>8. Idle.at = "idle" /\ \A n \in Models : ~Holds(client[c], n)
  BY <1>1 DEF Idle, Holds
<1>9. OneSpawner'
  <2>1. x.at = "spawn" => generations < MaxLoads
    BY <1>2, <1>4, <1>8 DEF WaitingClients
  <2>2. lock' = IF x.at = "spawn" THEN c ELSE lock
    BY <1>2, <1>4, <1>8 DEF WaitingClients
  <2>3. x.at = "spawn" => models'[x.model] = None
    BY <1>2, <1>4, <1>8 DEF WaitingClients
  <2> QED
    BY <1>1, <1>2, <1>4, <1>5, <2>1, <2>2, <2>3, Parts, SpawnerFollows DEF IInv, OneSpawner
<1>10. AnswersAwaited'
  <2> SUFFICES ASSUME x.at = "answer"
               PROVE  /\ x.gen \in 1..generations'
                      /\ \A n \in Models : models'[n] = x.gen => n = x.model
    BY <1>1, <1>2, <1>4, <1>5, Parts, AnsweringFollows DEF IInv
  <2>1. /\ x.gen = models'[m] /\ x.model = m /\ models'[m] # None
    BY <1>2, <1>4, <1>8 DEF WaitingClients
  <2>2. models'[m] \in Gens /\ models'[m] <= generations'
    BY <1>3, <1>6, <2>1 DEF Numbered
  <2>3. generations' \in Nat
    BY <1>1, <1>2, ManagerAssumption DEF Store, ManagerAssumption
  <2> QED
    BY <1>3, <1>6, <2>1, <2>2, <2>3, ManagerAssumption DEF Numbered, Gens, ManagerAssumption
<1>11. pins' \in [Models -> Nat]
  BY <1>3, <1>4, <1>6 DEF Pin
<1>12. PinsAreHeld'
  <2>1. ASSUME NEW n \in Models
        PROVE  pins'[n] = IF Holds(x, n) THEN pins[n] + 1 ELSE pins[n]
    <3>1. CASE x = Idle /\ pins' = pins
      BY <3>1 DEF Holds
    <3>2. CASE x.at \in {"spawn", "answer"} /\ x.model = m /\ pins' = Pin(pins, m)
      <4>1. Holds(x, n) <=> n = m
        BY <1>8, <3>2 DEF Holds
      <4>2. pins'[n] = IF n = m THEN pins[n] + 1 ELSE pins[n]
        BY <1>3, <1>6, <3>2 DEF Pin
      <4> QED
        BY <4>1, <4>2
    <3> QED
      BY <1>2, <1>4, <3>1, <3>2 DEF WaitingClients
  <2> QED
    BY <1>1, <1>4, <1>7, <1>8, <2>1, PinsFollow DEF IInv
<1>13. AllStopped'
  BY <1>1 DEF AllStopped, ShuttingDown
<1> QED
  BY <1>1, <1>2, <1>4, <1>5, <1>7, <1>9, <1>10, <1>11, <1>12, <1>13, Assembled
     DEF ShuttingDown

LEMMA SpawnOkInv == ASSUME IInv, NEW c \in Clients, SpawnOk(c) PROVE IInv'
<1> DEFINE m == client[c].model
           g == generations + 1
<1>1. /\ client[c].at = "spawn" /\ lock' = Nobody /\ generations' = g
      /\ UNCHANGED <<cache, shutdown, awaited, bounds>>
  BY DEF SpawnOk
<1>2. /\ client[c] \in WaitingClients /\ Store /\ client \in [Clients -> {Idle} \cup WaitingClients]
      /\ lock = c /\ generations \in Nat /\ generations < MaxLoads /\ c # Nobody
      /\ pins \in [Models -> Nat] /\ shutdown \notin {"awaiting", "done"}
      /\ models[m] = None
  BY <1>1, Parts, ManagerAssumption DEF IInv, Idle, OneSpawner, ManagerAssumption, Store
<1>3. m \in Models /\ g \in Gens /\ g \in Nat /\ generations < g
  BY <1>2, ManagerAssumption DEF WaitingClients, Gens, ManagerAssumption
<1>4. PICK x :
        /\ client' = [client EXCEPT ![c] = x]
        /\ \/ /\ ShuttingDown \/ refs[m] = {}
              /\ x = Idle /\ pins' = Unpin(pins, m)
              /\ sets' = [sets EXCEPT ![g] = "closing"]
              /\ draining' = draining \cup {g} /\ models' = models
           \/ /\ ~ShuttingDown /\ refs[m] # {}
              /\ sets' = [sets EXCEPT ![g] = "serving"]
              /\ models' = [models EXCEPT ![m] = g] /\ draining' = draining
              /\ \/ x = Idle /\ pins' = Unpin(pins, m)
                 \/ /\ x = [client[c] EXCEPT !.at = "answer", !.gen = g]
                    /\ pins' = Pin(Unpin(pins, m), m)
  BY DEF SpawnOk
<1>5. /\ Idle.at = "idle"
      /\ x \in {Idle} \cup WaitingClients
      /\ x = Idle \/ (x.at = "answer" /\ x.model = m /\ x.gen = g)
  <2>1. CASE x = Idle
    BY <2>1 DEF Idle
  <2>2. CASE x = [client[c] EXCEPT !.at = "answer", !.gen = g]
    BY <2>2, <1>2, <1>3 DEF WaitingClients, Waits, Idle
  <2> QED
    BY <1>4, <2>1, <2>2
<1>6. sets[g] = "none" /\ (\A n \in Models : models[n] <= generations /\ models[n] # g)
  BY <1>2, <1>3, ManagerAssumption DEF Store, Numbered, Gens, None
<1> HIDE DEF m, g
<1>7. Store'
  <2>1. /\ refs' = refs /\ shutdown' = shutdown /\ awaited' = awaited
        /\ models' \in [Models -> {None} \cup Gens]
        /\ sets' \in [Gens -> {"none", "serving", "closing", "dead", "gone"}]
        /\ draining' \subseteq Gens
    BY <1>1, <1>2, <1>3, <1>4 DEF Store, cache
  <2>11. generations' \in 0..MaxLoads
    BY <1>1, <1>3 DEF Gens
  <2>2. Numbered'
    <3>1. \A n \in Models : models'[n] = models[n] \/ (n = m /\ models'[n] = g)
      BY <1>2, <1>4 DEF Store
    <3>2. \A n \in Models : models'[n] <= generations'
      BY <1>1, <1>2, <1>3, <1>6, <3>1, ManagerAssumption DEF Store, None, Gens, g
    <3>3. \A h \in Gens : sets'[h] = "none" <=> generations' < h
      <4> SUFFICES ASSUME NEW h \in Gens PROVE sets'[h] = "none" <=> g < h
        BY <1>1
      <4>1. sets[h] = "none" <=> generations < h
        BY <1>2 DEF Store, Numbered
      <4>2. sets'[h] = sets[h] \/ h = g
        BY <1>2, <1>4 DEF Store
      <4>3. sets'[g] # "none"
        BY <1>2, <1>3, <1>4 DEF Store
      <4>4. h # g => (generations < h <=> g < h)
        BY <1>2, ManagerAssumption DEF g, Gens, ManagerAssumption
      <4>5. h = g => sets'[h] # "none" /\ ~(g < h)
        BY <1>3, <4>3
      <4> QED
        BY <1>4, <4>1, <4>2, <4>4, <4>5
    <3>4. \A n, p \in Models : models'[n] = models'[p] /\ models'[n] # None => n = p
      BY <1>2, <1>6, <3>1 DEF Store, Numbered
    <3> QED
      BY <3>2, <3>3, <3>4 DEF Numbered
  <2>3. RegisteredIsReferenced'
    <3> SUFFICES ASSUME NEW n \in Models, models'[n] # None
                 PROVE  refs[n] # {} /\ sets'[models'[n]] \in {"serving", "dead"}
      BY <2>1 DEF RegisteredIsReferenced
    <3>1. CASE models'[n] = models[n]
      BY <3>1, <1>2, <1>4, <1>6 DEF Store, RegisteredIsReferenced
    <3>2. CASE models'[n] # models[n]
      <4>1. n = m /\ models'[n] = g /\ refs[n] # {} /\ sets' = [sets EXCEPT ![g] = "serving"]
        BY <3>2, <1>2, <1>4 DEF Store
      <4> QED
        BY <4>1, <1>2, <1>3 DEF Store
    <3> QED
      BY <3>1, <3>2
  <2>4. WorkersAreOwned'
    <3> SUFFICES ASSUME NEW h \in Gens
                 PROVE  /\ sets'[h] = "serving" => \E n \in Models : models'[n] = h
                        /\ sets'[h] \in {"closing", "dead"} =>
                             h \in draining' \cup awaited' \/ \E n \in Models : models'[n] = h
      BY DEF WorkersAreOwned
    <3>1. CASE h = g
      <4>1. CASE models' = models
        BY <3>1, <4>1, <1>2, <1>3, <1>4, <1>6 DEF Store
      <4>2. CASE models' = [models EXCEPT ![m] = g]
        <5>1. models'[m] = g
          BY <4>2, <1>2, <1>3 DEF Store
        <5> QED
          BY <5>1, <3>1, <1>3
      <4> QED
        BY <4>1, <4>2, <1>4
    <3>2. CASE h # g
      <4>1. sets'[h] = sets[h] /\ draining \subseteq draining' /\ awaited' = awaited
        BY <3>2, <1>1, <1>2, <1>4 DEF Store
      <4>2. ASSUME NEW n \in Models, models[n] = h PROVE models'[n] = h
        <5>1. n # m
          BY <4>2, <1>2 DEF None, Gens
        <5> QED
          BY <5>1, <4>2, <1>2, <1>4 DEF Store
      <4> QED
        BY <4>1, <4>2, <1>2 DEF Store, WorkersAreOwned
    <3> QED
      BY <3>1, <3>2
  <2> QED
    BY <1>2, <1>4, <2>1, <2>11, <2>2, <2>3, <2>4 DEF Store, ShuttingDown
<1>8. OneSpawner'
  BY <1>1, <1>2, <1>4, <1>5, Parts, SpawnerFollows DEF IInv
<1>9. AnswersAwaited'
  <2>1. \A n \in Models : models'[n] \in {None, models[n], generations + 1}
    BY <1>2, <1>4 DEF Store, g
  <2>2. x.at = "answer" => /\ x.gen \in 1..generations'
                           /\ \A n \in Models : models'[n] = x.gen => n = x.model
    <3> SUFFICES ASSUME x.at = "answer"
                 PROVE  /\ x.gen \in 1..generations'
                        /\ \A n \in Models : models'[n] = x.gen => n = x.model
      OBVIOUS
    <3>1. x.gen = g /\ x.model = m /\ g \in 1..g
      BY <1>2, <1>5 DEF g
    <3> QED
      BY <3>1, <1>1, <1>2, <1>4, <1>6 DEF Store
  <2> QED
    BY <1>1, <1>2, <1>4, <2>1, <2>2, Parts, AnsweringFollows DEF IInv, g
<1>10. pins' \in [Models -> Nat]
  BY <1>2, <1>4 DEF Pin, Unpin
<1>11. PinsAreHeld'
  <2>1. Holds(client[c], m) /\ \A n \in Models : n # m => ~Holds(client[c], n)
    BY <1>1, <1>5 DEF Holds, m
  <2>2. ~ShuttingDown => pins[m] > 0
    <3> SUFFICES ASSUME ~ShuttingDown PROVE pins[m] > 0
      OBVIOUS
    <3>1. pins[m] = Cardinality(Holders(m))
      BY <1>3 DEF IInv, PinsAreHeld, Holders, Holds
    <3> QED
      BY <3>1, <2>1, <1>2, <1>3, <1>4, OneMoves
  <2>3. CASE x = Idle /\ pins' = Unpin(pins, m)
    BY <2>1, <2>3, <1>1, <1>3, <1>4, PinReleased DEF IInv
  <2>4. CASE x.at = "answer" /\ x.model = m /\ ~ShuttingDown /\ pins' = Pin(Unpin(pins, m), m)
    <3>1. \A n \in Models : Holds(x, n) <=> n = m
      <4>1. x # Idle
        BY <2>4, <1>5
      <4> QED
        BY <2>4, <4>1 DEF Holds
    <3>2. \A n \in Models : pins'[n] = pins[n]
      <4> DEFINE p == Unpin(pins, m)
      <4>1. p \in [Models -> Nat] /\ p[m] + 1 = pins[m] /\ \A n \in Models : n # m => p[n] = pins[n]
        BY <2>2, <2>4, <1>2, <1>3 DEF Unpin
      <4> HIDE DEF p
      <4>2. pins' = Pin(p, m)
        BY <2>4 DEF p
      <4> QED
        BY <4>1, <4>2, <1>3 DEF Pin
    <3>3. \A n \in Models : Holds(client[c], n) <=> Holds(x, n)
      BY <3>1, <2>1
    <3>4. Books /\ PinsAreHeld /\ shutdown' = shutdown /\ client' = [client EXCEPT ![c] = x]
      BY <1>1, <1>4 DEF IInv
    <3> QED
      BY <3>2, <3>3, <3>4, PinsFollow
  <2>5. x # Idle => x.at = "answer" /\ x.model = m
    BY <1>5
  <2>6. x = [client[c] EXCEPT !.at = "answer", !.gen = g] => x # Idle
    BY <1>2, <1>5 DEF WaitingClients
  <2> QED
    BY <1>4, <2>3, <2>4, <2>5, <2>6
<1>12. AllStopped'
  BY <1>1, <1>2 DEF AllStopped
<1>13. client' \in [Clients -> {Idle} \cup WaitingClients]
  BY <1>2, <1>4, <1>5
<1> QED
  BY <1>1, <1>2, <1>7, <1>8, <1>9, <1>10, <1>11, <1>12, <1>13, Assembled

LEMMA SpawnFailsInv == ASSUME IInv, NEW c \in Clients, SpawnFails(c) PROVE IInv'
<1> DEFINE m == client[c].model
           gone == {<<client[c].key, m>>}
<1>1. /\ client[c].at = "spawn" /\ lock' = Nobody /\ pins' = Unpin(pins, m)
      /\ client' = [client EXCEPT ![c] = Idle] /\ Removed(gone)
      /\ UNCHANGED <<generations, shutdown, awaited, bounds>>
  BY DEF SpawnFails
<1> HIDE DEF gone
<1>2. /\ client[c] \in WaitingClients /\ Store /\ client \in [Clients -> {Idle} \cup WaitingClients]
      /\ pins \in [Models -> Nat] /\ shutdown \notin {"awaiting", "done"}
  BY <1>1, Parts, ManagerAssumption DEF IInv, Idle, OneSpawner, ManagerAssumption
<1>3. m \in Models /\ Idle.at = "idle"
  BY <1>2 DEF WaitingClients, Idle
<1>4. Drops(refs, gone)
  BY <1>1 DEF Removed, Unload, Drops
<1>5. Store' /\ \A n \in Models : models'[n] \in {None, models[n]}
  <2>1. refs \in [Models -> SUBSET CacheKeys]
    BY <1>2 DEF Store
  <2> QED
    BY <1>2, <1>4, <2>1, DropsKeepStore
<1>6. OneSpawner' /\ AnswersAwaited'
  BY <1>1, <1>2, <1>3, <1>5, Parts, SpawnerFollows, AnsweringFollows DEF IInv
<1>7. PinsAreHeld'
  <2>1. \A n \in Models : ~Holds(Idle, n) /\ (Holds(client[c], n) <=> n = m)
    BY <1>1, <1>3 DEF Holds
  <2> QED
    BY <2>1, <1>1, <1>3, PinReleased DEF IInv
<1>8. AllStopped' /\ pins' \in [Models -> Nat] /\ client' \in [Clients -> {Idle} \cup WaitingClients]
  <2>1. AllStopped'
    BY <1>1, <1>2 DEF AllStopped
  <2>2. pins' \in [Models -> Nat]
    BY <1>1, <1>2, <1>3 DEF Unpin
  <2> QED
    BY <2>1, <2>2, <1>1, <1>2
<1> QED
  BY <1>1, <1>2, <1>5, <1>6, <1>7, <1>8, Assembled

(* An answer and a hang-up end a request, and release what it holds.       *)
LEMMA ReleaseInv ==
  ASSUME IInv, NEW c \in Clients, client' = [client EXCEPT ![c] = Idle],
         UNCHANGED <<refs, models, sets, draining, generations, shutdown, awaited>>,
         lock' = IF client[c].at = "spawn" THEN Nobody ELSE lock,
         pins' = IF client[c].at \in {"spawn", "answer"}
                 THEN Unpin(pins, client[c].model) ELSE pins
  PROVE  IInv'
<1> DEFINE m == client[c].model
<1>1. /\ Store /\ client \in [Clients -> {Idle} \cup WaitingClients] /\ pins \in [Models -> Nat]
      /\ client[c] \in {Idle} \cup WaitingClients
      /\ shutdown \in {"awaiting", "done"} => lock = Nobody
  BY Parts DEF IInv
<1>2. Idle.at = "idle" /\ (client[c].at \in {"spawn", "answer"} => m \in Models /\ client[c] # Idle)
  BY <1>1 DEF WaitingClients, Idle
<1>3. Store' /\ AllStopped'
  BY <1>1 DEF IInv, Store, Numbered, RegisteredIsReferenced, WorkersAreOwned,
     ShuttingDown, ShutdownLeavesNoWorker, AllStopped
<1>4. OneSpawner' /\ AnswersAwaited'
  <2>1. lock' # Nobody => lock # Nobody
    BY DEF IInv
  <2>2. lock # Nobody => generations < MaxLoads
    BY Parts DEF IInv, OneSpawner
  <2>3. \A n \in Models : models'[n] = models[n]
    OBVIOUS
  <2> QED
    BY <2>1, <2>2, <2>3, <1>1, <1>2, Parts, SpawnerFollows, AnsweringFollows DEF IInv
<1>5. PinsAreHeld'
  <2>1. CASE client[c].at \in {"spawn", "answer"}
    <3>1. \A n \in Models : Holds(client[c], n) <=> n = m
      BY <2>1, <1>2 DEF Holds
    <3> QED
      BY <2>1, <3>1, <1>2, PinReleased DEF IInv
  <2>2. CASE client[c].at \notin {"spawn", "answer"}
    <3>1. \A n \in Models : ~Holds(client[c], n) /\ ~Holds(Idle, n)
      BY <2>2 DEF Holds
    <3> QED
      BY <2>2, <3>1, PinsFollow DEF IInv
  <2> QED
    BY <2>1, <2>2
<1>6. pins' \in [Models -> Nat] /\ client' \in [Clients -> {Idle} \cup WaitingClients]
  BY <1>1, <1>2 DEF Unpin
<1> QED
  BY <1>1, <1>3, <1>4, <1>5, <1>6, Assembled

LEMMA AnswerInv == ASSUME IInv, NEW c \in Clients, Answer(c) PROVE IInv'
BY ReleaseInv DEF Answer, Restored

LEMMA HangUpInv == ASSUME IInv, NEW c \in Clients, HangUp(c) PROVE IInv'
<1>1. /\ client' = [client EXCEPT ![c] = Idle] /\ client[c] # Idle
      /\ UNCHANGED <<refs, models, sets, draining, generations, shutdown, awaited>>
  BY DEF HangUp
<1>2. client[c].at \in {"lock", "spawn", "answer"}
  BY <1>1, Parts DEF IInv, WaitingClients, Waits
<1>3. CASE client[c].at = "lock"
  BY <1>1, <1>3, ReleaseInv DEF HangUp
<1>4. CASE client[c].at = "spawn"
  BY <1>1, <1>4, ReleaseInv DEF HangUp
<1>5. CASE client[c].at = "answer"
  BY <1>1, <1>5, ReleaseInv DEF HangUp, Restored
<1> QED
  BY <1>2, <1>3, <1>4, <1>5

(* The unloads and the sweeper.                                            *)
LEMMA RemovalInv ==
  ASSUME IInv, NEW gone, Drops(refs, gone), UNCHANGED <<client, pins, lock>>
  PROVE  IInv'
<1>1. Store /\ refs \in [Models -> SUBSET CacheKeys]
  BY Parts DEF IInv, Store
<1>2. /\ Store' /\ \A m \in Models : models'[m] \in {None, models[m]}
      /\ ShuttingDown => sets' = sets
  BY <1>1, DropsKeepStore
<1>3. shutdown' = shutdown /\ generations' = generations
  BY DEF Drops
<1>4. AllStopped'
  BY <1>2, <1>3 DEF AllStopped, IInv, ShutdownLeavesNoWorker, ShuttingDown
<1> QED
  BY <1>2, <1>3, <1>4, NobodyMoves

LEMMA UnloadModelInv ==
  ASSUME IInv, NEW k \in CacheKeys, NEW m \in Models, UnloadModel(k, m) PROVE IInv'
BY RemovalInv DEF UnloadModel, Removed, Unload, Drops

LEMMA ClearCacheInv == ASSUME IInv, NEW k \in CacheKeys, ClearCache(k) PROVE IInv'
<1>1. PICK gone : Removed(gone) /\ UNCHANGED <<generations, shutdown, awaited>>
  BY DEF ClearCache
<1>2. Drops(refs, gone)
  BY <1>1 DEF Removed, Unload, Drops
<1> QED
  BY <1>2, RemovalInv DEF ClearCache

LEMMA SweepInv == ASSUME IInv, Sweep PROVE IInv'
<1>1. PICK gone \in SUBSET Expirable :
        LET us == Unreferenced(refs, gone)
            gs == {models[m] : m \in us} \ {None}
        IN /\ refs' = WithoutRefs(refs, gone)
           /\ models' = [m \in Models |-> IF m \in us THEN None ELSE models[m]]
           /\ sets' = [g \in Gens |-> IF g \in gs /\ sets[g] = "serving"
                                      THEN "closing" ELSE sets[g]]
           /\ draining' = {g \in draining : sets[g] # "gone"} \cup gs
  BY DEF Sweep
<1>2. UNCHANGED <<pins, generations, lock, shutdown, awaited, client>>
  BY DEF Sweep
<1>3. Drops(refs, gone)
  BY <1>1, <1>2 DEF Drops
<1> QED
  BY <1>2, <1>3, RemovalInv

(* A set of workers dies, or is through.                                   *)
LEMMA WorkerDiesInv == ASSUME IInv, NEW g \in Gens, WorkerDies(g) PROVE IInv'
<1>1. /\ sets[g] = "serving" /\ sets' = [sets EXCEPT ![g] = "dead"]
      /\ UNCHANGED <<cache, pins, models, draining, generations, lock, shutdown, awaited, client>>
  BY DEF WorkerDies
<1>2. Store
  BY Parts DEF IInv
<1>3. \A h \in Gens : sets'[h] = IF h = g THEN "dead" ELSE sets[h]
  BY <1>1, <1>2 DEF Store
<1>4. PICK m \in Models : models[m] = g
  BY <1>1, <1>2 DEF Store, WorkersAreOwned
<1>5. Numbered' /\ WorkersAreOwned'
  BY <1>1, <1>2, <1>3, <1>4 DEF Store, Numbered, WorkersAreOwned
<1>6. RegisteredIsReferenced'
  <2> SUFFICES ASSUME NEW n \in Models, models[n] # None
               PROVE  refs[n] # {} /\ sets'[models[n]] \in {"serving", "dead"}
    BY <1>1 DEF RegisteredIsReferenced, cache
  <2>1. refs[n] # {} /\ sets[models[n]] \in {"serving", "dead"} /\ models[n] \in Gens
    BY <1>2 DEF Store, RegisteredIsReferenced
  <2> QED
    BY <2>1, <1>3
<1>7. Store'
  BY <1>1, <1>2, <1>5, <1>6 DEF Store, ShuttingDown, cache
<1>8. AllStopped'
  BY <1>1 DEF IInv, ShutdownLeavesNoWorker, AllStopped
<1> QED
  BY <1>1, <1>7, <1>8, NobodyMoves

LEMMA DrainEndsInv == ASSUME IInv, NEW g \in Gens, DrainEnds(g) PROVE IInv'
<1>1. /\ sets[g] = "closing" /\ sets' = [sets EXCEPT ![g] = "gone"]
      /\ UNCHANGED <<cache, pins, models, draining, generations, lock, shutdown, awaited, client>>
  BY DEF DrainEnds
<1>2. Store
  BY Parts DEF IInv
<1>3. \A h \in Gens : sets'[h] = IF h = g THEN "gone" ELSE sets[h]
  BY <1>1, <1>2 DEF Store
<1>4. Numbered' /\ WorkersAreOwned'
  BY <1>1, <1>2, <1>3 DEF Store, Numbered, WorkersAreOwned
<1>5. RegisteredIsReferenced'
  <2> SUFFICES ASSUME NEW n \in Models, models[n] # None
               PROVE  refs[n] # {} /\ sets'[models[n]] \in {"serving", "dead"}
    BY <1>1 DEF RegisteredIsReferenced, cache
  <2>1. refs[n] # {} /\ sets[models[n]] \in {"serving", "dead"} /\ models[n] \in Gens
    BY <1>2 DEF Store, RegisteredIsReferenced
  <2> QED
    BY <2>1, <1>1, <1>3
<1>6. Store'
  BY <1>1, <1>2, <1>4, <1>5 DEF Store, ShuttingDown, cache
<1>7. AllStopped'
  BY <1>1, <1>3 DEF IInv, ShutdownLeavesNoWorker, AllStopped
<1> QED
  BY <1>1, <1>6, <1>7, NobodyMoves

LEMMA ReportDeathInv == ASSUME IInv, NEW g \in Gens, ReportDeath(g) PROVE IInv'
<1> DEFINE ms == {m \in Models : models[m] = g}
<1>1. /\ sets[g] = "dead" /\ sets' = [sets EXCEPT ![g] = "gone"]
      /\ models' = [m \in Models |-> IF m \in ms THEN None ELSE models[m]]
      /\ draining' = IF ms = {} THEN draining ELSE draining \cup {g}
      /\ refs' = WithoutRefs(refs, CacheKeys \X ms)
      /\ UNCHANGED <<pins, generations, lock, shutdown, awaited, client>>
  BY DEF ReportDeath
<1>2. Store
  BY Parts DEF IInv
<1>3. \A h \in Gens : sets'[h] = IF h = g THEN "gone" ELSE sets[h]
  BY <1>1, <1>2 DEF Store
<1>4. \A m \in Models : refs'[m] = IF m \in ms THEN {} ELSE refs[m]
  BY <1>1, <1>2 DEF WithoutRefs, Store
<1>5. \A m \in Models : models'[m] \in {None, models[m]} /\ (models[m] = g <=> m \in ms)
  BY <1>1
<1>6. ShuttingDown => ms = {}
  BY <1>2 DEF Store, None, Gens
<1> HIDE DEF ms
<1>7. /\ refs' \in [Models -> SUBSET CacheKeys]
      /\ models' \in [Models -> {None} \cup Gens]
      /\ sets' \in [Gens -> {"none", "serving", "closing", "dead", "gone"}]
      /\ draining' \subseteq Gens
  <2>1. refs' \in [Models -> SUBSET CacheKeys]
    BY <1>1, <1>2 DEF WithoutRefs, Store
  <2> QED
    BY <2>1, <1>1, <1>2 DEF Store
<1>8. Numbered'
  <2>1. \A m \in Models : models'[m] <= generations'
    BY <1>1, <1>2, <1>5, ManagerAssumption DEF Store, Numbered, None
  <2> QED
    BY <2>1, <1>1, <1>2, <1>3, <1>5 DEF Store, Numbered
<1>9. RegisteredIsReferenced'
  <2> SUFFICES ASSUME NEW n \in Models, models'[n] # None
               PROVE  refs'[n] # {} /\ sets'[models'[n]] \in {"serving", "dead"}
    BY DEF RegisteredIsReferenced
  <2>1. n \notin ms /\ models'[n] = models[n] /\ models[n] # g
    BY <1>1, <1>5
  <2>2. refs[n] # {} /\ sets[models[n]] \in {"serving", "dead"} /\ models[n] \in Gens
    BY <2>1, <1>2 DEF Store, RegisteredIsReferenced
  <2> QED
    BY <2>1, <2>2, <1>3, <1>4
<1>10. WorkersAreOwned'
  <2> SUFFICES ASSUME NEW h \in Gens, h # g
               PROVE  /\ sets'[h] = "serving" => \E m \in Models : models'[m] = h
                      /\ sets'[h] \in {"closing", "dead"} =>
                           h \in draining' \cup awaited' \/ \E m \in Models : models'[m] = h
    BY <1>3 DEF WorkersAreOwned
  <2>1. \A m \in Models : models[m] = h => models'[m] = h
    BY <1>1, <1>5
  <2>2. draining \subseteq draining' /\ awaited' = awaited
    BY <1>1
  <2> QED
    BY <2>1, <2>2, <1>2, <1>3 DEF Store, WorkersAreOwned
<1>11. Store'
  <2>1. ShuttingDown' => \A m \in Models : models'[m] = None /\ refs'[m] = {}
    BY <1>1, <1>2, <1>4, <1>5 DEF Store, ShuttingDown
  <2>2. shutdown' \in {"awaiting", "done"} => draining' = {}
    BY <1>1, <1>2, <1>6 DEF Store, ShuttingDown
  <2> QED
    BY <1>1, <1>2, <1>7, <1>8, <1>9, <1>10, <2>1, <2>2 DEF Store, ShuttingDown
<1>12. AllStopped'
  BY <1>1, <1>3 DEF IInv, ShutdownLeavesNoWorker, AllStopped
<1> QED
  BY <1>1, <1>5, <1>11, <1>12, NobodyMoves

(* The shutdown.                                                           *)
LEMMA BeginShutdownInv == ASSUME IInv, BeginShutdown PROVE IInv'
<1> DEFINE gs == {models[m] : m \in Models} \ {None}
<1>1. /\ shutdown = "no" /\ shutdown' = "locking" /\ draining' = {}
      /\ awaited' = gs \cup draining
      /\ sets' = [g \in Gens |-> IF g \in gs /\ sets[g] = "serving"
                                 THEN "closing" ELSE sets[g]]
      /\ models' = [m \in Models |-> None] /\ refs' = [m \in Models |-> {}]
      /\ pins' = [m \in Models |-> 0]
      /\ UNCHANGED <<generations, lock, client>>
  BY DEF BeginShutdown
<1>2. Store
  BY Parts DEF IInv
<1>3. gs \subseteq Gens
  BY <1>2 DEF Store
<1>4. \A g \in Gens : (\E m \in Models : models[m] = g) => g \in gs
  BY DEF None, Gens
<1> HIDE DEF gs
<1>5. Numbered'
  BY <1>1, <1>2, ManagerAssumption DEF Store, Numbered, None, ManagerAssumption
<1>6. RegisteredIsReferenced'
  BY <1>1 DEF RegisteredIsReferenced
<1>7. WorkersAreOwned'
  <2> SUFFICES ASSUME NEW g \in Gens
               PROVE  /\ sets'[g] # "serving"
                      /\ sets'[g] \in {"closing", "dead"} => g \in awaited'
    BY DEF WorkersAreOwned
  <2>1. awaited = {}
    BY <1>1, <1>2 DEF Store, ShuttingDown
  <2>2. CASE g \in gs
    BY <1>1, <2>2
  <2>3. CASE g \notin gs
    BY <1>1, <1>2, <1>4, <2>1, <2>3 DEF Store, WorkersAreOwned
  <2> QED
    BY <2>2, <2>3
<1>8. Store'
  BY <1>1, <1>2, <1>3, <1>5, <1>6, <1>7 DEF Store, ShuttingDown
<1>9. OneSpawner' /\ AnswersAwaited'
  <2>1. \A m \in Models : models'[m] = None
    BY <1>1
  <2>2. ASSUME NEW c \in Clients, client[c].at = "spawn" PROVE client[c].model \in Models
    BY <2>2, Parts DEF IInv, WaitingClients, Idle
  <2> QED
    BY <2>1, <2>2, <1>1, Parts DEF IInv, OneSpawner, AnswersAwaited, None
<1>10. PinsAreHeld' /\ AllStopped' /\ pins' \in [Models -> Nat]
  BY <1>1 DEF PinsAreHeld, AllStopped, ShuttingDown
<1> QED
  BY <1>1, <1>8, <1>9, <1>10, Parts, Assembled DEF IInv

LEMMA LockedShutdownInv == ASSUME IInv, LockedShutdown PROVE IInv'
<1>1. /\ shutdown = "locking" /\ lock = Nobody /\ shutdown' = "awaiting"
      /\ awaited' = awaited \cup draining /\ draining' = {}
      /\ UNCHANGED <<cache, pins, models, sets, generations, lock, client>>
  BY DEF LockedShutdown
<1>2. Store'
  BY <1>1, Parts DEF IInv, Store, Numbered, RegisteredIsReferenced, WorkersAreOwned,
     ShuttingDown, cache
<1>3. OneSpawner' /\ AnswersAwaited' /\ PinsAreHeld' /\ AllStopped'
  BY <1>1, Parts DEF IInv, OneSpawner, AnswersAwaited, PinsAreHeld, ShuttingDown, AllStopped
<1> QED
  BY <1>1, <1>2, <1>3, Parts, Assembled DEF IInv

(* Everything that ran was awaited.                                        *)
LEMMA EndShutdownInv == ASSUME IInv, EndShutdown PROVE IInv'
<1>1. /\ shutdown = "awaiting" /\ shutdown' = "done"
      /\ \A g \in awaited : sets[g] = "gone"
      /\ UNCHANGED <<cache, pins, models, sets, draining, generations, lock, awaited, client>>
  BY DEF EndShutdown
<1>2. Store'
  BY <1>1, Parts DEF IInv, Store, Numbered, RegisteredIsReferenced, WorkersAreOwned,
     ShuttingDown, cache
<1>3. OneSpawner' /\ AnswersAwaited' /\ PinsAreHeld'
  BY <1>1, Parts DEF IInv, OneSpawner, AnswersAwaited, PinsAreHeld, ShuttingDown
<1>4. AllStopped'
  <2> SUFFICES ASSUME NEW g \in Gens, sets[g] \notin {"none", "gone"} PROVE FALSE
    BY <1>1 DEF AllStopped
  <2>1. Store /\ draining = {} /\ ~(\E m \in Models : models[m] = g)
    BY <1>1, Parts DEF IInv, Store, ShuttingDown, None, Gens
  <2>2. g \notin awaited
    BY <1>1
  <2> QED
    BY <2>1, <2>2 DEF Store, WorkersAreOwned
<1> QED
  BY <1>1, <1>2, <1>3, <1>4, Parts, Assembled DEF IInv

-----------------------------------------------------------------------------
(* The theorems                                                            *)

LEMMA StutterInv == ASSUME IInv, UNCHANGED vars PROVE IInv'
BY DEF vars, cache, bounds, IInv, Books, Types, OneSpawner, Numbered, AnswersAwaited, Down,
   RegisteredIsReferenced, WorkersAreOwned, PinsAreHeld, ShutdownLeavesNoWorker,
   ShuttingDown

LEMMA NextInv == IInv /\ [Next]_vars => IInv'
<1> SUFFICES ASSUME IInv, [Next]_vars PROVE IInv'
  OBVIOUS
<1>1. ASSUME NEW c \in Clients, NEW kind \in {"load", "predict"}, NEW m \in Models,
             NEW k \in CacheKeys, NEW t \in Ttls, Ask(c, kind, m, k, t)
      PROVE  IInv'
  BY <1>1, AskInv
<1>2. ASSUME NEW c \in Clients, Refused(c) PROVE IInv'
  BY <1>2, RefusedInv
<1>3. ASSUME NEW c \in Clients, Begin(c) PROVE IInv'
  BY <1>3, BeginInv
<1>4. ASSUME NEW c \in Clients, SpawnOk(c) PROVE IInv'
  BY <1>4, SpawnOkInv
<1>5. ASSUME NEW c \in Clients, SpawnFails(c) PROVE IInv'
  BY <1>5, SpawnFailsInv
<1>6. ASSUME NEW c \in Clients, Answer(c) PROVE IInv'
  BY <1>6, AnswerInv
<1>7. ASSUME NEW c \in Clients, HangUp(c) PROVE IInv'
  BY <1>7, HangUpInv
<1>8. ASSUME NEW k \in CacheKeys, ClearCache(k) PROVE IInv'
  BY <1>8, ClearCacheInv
<1>9. ASSUME NEW k \in CacheKeys, NEW m \in Models, UnloadModel(k, m) PROVE IInv'
  BY <1>9, UnloadModelInv
<1>10. CASE Sweep
  BY <1>10, SweepInv
<1>11. ASSUME NEW g \in Gens, WorkerDies(g) PROVE IInv'
  BY <1>11, WorkerDiesInv
<1>12. ASSUME NEW g \in Gens, ReportDeath(g) PROVE IInv'
  BY <1>12, ReportDeathInv
<1>13. ASSUME NEW g \in Gens, DrainEnds(g) PROVE IInv'
  BY <1>13, DrainEndsInv
<1>14. CASE BeginShutdown
  BY <1>14, BeginShutdownInv
<1>15. CASE LockedShutdown
  BY <1>15, LockedShutdownInv
<1>16. CASE EndShutdown
  BY <1>16, EndShutdownInv
<1>17. CASE UNCHANGED vars
  BY <1>17, StutterInv
<1> QED
  BY <1>1, <1>2, <1>3, <1>4, <1>5, <1>6, <1>7, <1>8, <1>9, <1>10, <1>11, <1>12, <1>13,
     <1>14, <1>15, <1>16, <1>17 DEF Next

LEMMA Invariance == Spec => []IInv
BY InitInv, NextInv, PTL DEF Spec

(* A registered model has a cache key that refers to it, so that something *)
(* will unload it (CacheState and ManagerState of manager.rs).             *)
THEOREM RegisteredModelsCanBeUnloaded == Spec => []RegisteredIsReferenced
<1>1. IInv => RegisteredIsReferenced
  BY DEF IInv, Books
<1> QED
  BY <1>1, Invariance, PTL

(* No workers are forgotten: those that run belong to a registered model,  *)
(* those that are told to stop are in the list the shutdown awaits.        *)
THEOREM NoWorkersAreForgotten == Spec => []WorkersAreOwned
<1>1. IInv => WorkersAreOwned
  BY DEF IInv, Books
<1> QED
  BY <1>1, Invariance, PTL

(* Spawn pins and request pins add up to the requests that hold one,       *)
(* through failed spawns and clients that hang up (PinGuard).              *)
THEOREM PinsCountRequests == Spec => []PinsAreHeld
<1>1. IInv => PinsAreHeld
  BY DEF IInv
<1> QED
  BY <1>1, Invariance, PTL

(* A shutdown that returns has awaited every set of workers, the one that  *)
(* was being spawned when it began included.                               *)
THEOREM ShutdownIsComplete == Spec => []ShutdownLeavesNoWorker
<1>1. IInv => ShutdownLeavesNoWorker
  BY DEF IInv
<1> QED
  BY <1>1, Invariance, PTL

(* The sweeper does not expire a model under a request, whichever cache    *)
(* key the request came through: a request waits for a generation of its   *)
(* own model, which its pin protects.                                      *)
LEMMA SweepSpares ==
  ASSUME IInv, Sweep, NEW c \in Clients, client[c] # Idle, client[c].at = "answer",
         NEW m \in Models, models[m] = client[c].gen
  PROVE  models'[m] = models[m]
<1>1. PICK gone \in SUBSET Expirable :
        models' = [n \in Models |-> IF n \in Unreferenced(refs, gone) THEN None ELSE models[n]]
  BY DEF Sweep
<1>2. ~ShuttingDown /\ client[c].model = m
  BY DEF Sweep, IInv, Books, AnswersAwaited
<1>3. pins[m] # 0
  <2>1. pins[m] = Cardinality(Holders(m)) /\ c \in Holders(m)
    BY <1>2 DEF IInv, PinsAreHeld, Holders, Holds
  <2>2. IsFiniteSet(Holders(m))
    BY ManagerAssumption, FS_Subset DEF ManagerAssumption, Holders
  <2> QED
    BY <2>1, <2>2, FS_EmptySet
<1>4. m \notin Unreferenced(refs, gone)
  <2> SUFFICES ASSUME refs[m] # {}, WithoutRefs(refs, gone)[m] = {} PROVE FALSE
    BY DEF Unreferenced
  <2>1. PICK k \in refs[m] : <<k, m>> \in gone
    BY DEF WithoutRefs
  <2>2. pins[<<k, m>>[2]] = 0
    BY <1>1, <2>1 DEF Expirable
  <2> QED
    BY <1>3, <2>2
<1> QED
  BY <1>1, <1>4

THEOREM RequestsKeepTheirModel == Spec => SweepSparesRequests
<1>1. IInv /\ [Next]_vars =>
        [Sweep => \A c \in Clients :
           client[c] # Idle /\ client[c].at = "answer" =>
             \A m \in Models : models[m] = client[c].gen => models'[m] = models[m]]_vars
  BY SweepSpares
<1> QED
  BY <1>1, Invariance, PTL DEF Spec, SweepSparesRequests

(* All four at once: from the load through pins, deaths and discarded      *)
(* loads to the shutdown, the workers are accounted for (ManagerState).    *)
THEOREM WorkersAreAlwaysAccounted == Spec => []WorkersAreAccounted
<1>1. IInv => WorkersAreAccounted
  BY DEF IInv, Books, WorkersAreAccounted
<1> QED
  BY <1>1, Invariance, PTL

(* handle_worker_death looks at the generation before it drops a model.    *)
LEMMA DeathSpares ==
  ASSUME IInv, NEW g \in Gens, ReportDeath(g), NEW m \in Models, models[m] # g
  PROVE  models'[m] = models[m] /\ refs'[m] = refs[m]
<1> DEFINE ms == {n \in Models : models[n] = g}
<1>1. /\ models' = [n \in Models |-> IF n \in ms THEN None ELSE models[n]]
      /\ refs' = WithoutRefs(refs, CacheKeys \X ms)
  BY DEF ReportDeath
<1>2. m \notin ms
  OBVIOUS
<1> HIDE DEF ms
<1>3. refs'[m] = {k \in refs[m] : <<k, m>> \notin CacheKeys \X ms}
  BY <1>1 DEF WithoutRefs
<1>4. \A k \in refs[m] : <<k, m>> \notin CacheKeys \X ms
  BY <1>2
<1> QED
  BY <1>1, <1>2, <1>3, <1>4

(* A key takes its own references along and nothing else.                  *)
LEMMA OwnEntries ==
  ASSUME NEW r, NEW k, NEW gone, \A e \in gone : e[1] = k, NEW m \in Models
  PROVE  /\ WithoutRefs(r, gone)[m] \ {k} = r[m] \ {k}
         /\ r[m] \ {k} # {} => m \notin Unreferenced(r, gone)
<1>1. WithoutRefs(r, gone)[m] = {h \in r[m] : <<h, m>> \notin gone}
  BY DEF WithoutRefs
<1>2. \A h \in r[m] \ {k} : <<h, m>> \notin gone
  OBVIOUS
<1>3. r[m] \ {k} # {} => WithoutRefs(r, gone)[m] # {}
  BY <1>1, <1>2
<1> QED
  BY <1>1, <1>2, <1>3 DEF Unreferenced

LEMMA RemovedSpares ==
  ASSUME NEW k, NEW gone, \A e \in gone : e[1] = k, Removed(gone), NEW m \in Models
  PROVE  /\ refs'[m] \ {k} = refs[m] \ {k}
         /\ refs[m] \ {k} # {} => models'[m] = models[m]
<1>1. /\ refs' = WithoutRefs(refs, gone)
      /\ models' = [n \in Models |-> IF n \in Unreferenced(refs, gone) THEN None ELSE models[n]]
  BY DEF Removed, Unload
<1>2. /\ WithoutRefs(refs, gone)[m] \ {k} = refs[m] \ {k}
      /\ refs[m] \ {k} # {} => m \notin Unreferenced(refs, gone)
  BY OwnEntries
<1> QED
  BY <1>1, <1>2

LEMMA TouchSpares ==
  ASSUME IInv, NEW n \in Models, NEW k \in CacheKeys, NEW t, NEW size \in Nat,
         Touch(n, k, t, size), NEW m \in Models
  PROVE  /\ refs'[m] \ {k} = refs[m] \ {k}
         /\ refs[m] \ {k} # {} => models'[m] = models[m]
<1> DEFINE entries == Append(Forget(lru[k], {n}), n)
           over == IF Len(entries) > size THEN Len(entries) - size ELSE 0
           gone == {<<k, entries[i]>> : i \in 1..over}
           touched == [refs EXCEPT ![n] = @ \cup {k}]
<1>1. /\ refs' = WithoutRefs(touched, gone)
      /\ models' = [l \in Models |-> IF l \in Unreferenced(touched, gone) THEN None ELSE models[l]]
  BY DEF Touch, Unload
<1>2. \A e \in gone : e[1] = k
  OBVIOUS
<1>3. touched[m] \ {k} = refs[m] \ {k}
  BY DEF IInv, Books, Types
<1> HIDE DEF gone, touched
<1>4. /\ WithoutRefs(touched, gone)[m] \ {k} = touched[m] \ {k}
      /\ touched[m] \ {k} # {} => m \notin Unreferenced(touched, gone)
  BY <1>2, OwnEntries
<1> QED
  BY <1>1, <1>3, <1>4

LEMMA KeySpares ==
  ASSUME IInv, NEW k \in CacheKeys, UnderKey(k), NEW m \in Models
  PROVE  /\ refs'[m] \ {k} = refs[m] \ {k}
         /\ refs[m] \ {k} # {} => models'[m] = models[m]
<1> DEFINE Goal == /\ refs'[m] \ {k} = refs[m] \ {k}
                   /\ refs[m] \ {k} # {} => models'[m] = models[m]
<1>1. ASSUME NEW c \in Clients, Begin(c), client[c].key = k PROVE Goal
  <2>1. client[c].model \in Models
    BY <1>1 DEF Begin, IInv, Books, Types, WaitingClients, Idle
  <2>2. PICK size \in LruSizes : Touch(client[c].model, client[c].key, client[c].ttl, size)
    BY <1>1 DEF Begin
  <2>3. size \in Nat
    BY <2>2, ManagerAssumption DEF ManagerAssumption
  <2> QED
    BY <1>1, <2>1, <2>2, <2>3, TouchSpares
<1>2. ASSUME NEW c \in Clients, SpawnFails(c), client[c].key = k PROVE Goal
  <2>1. Removed({<<k, client[c].model>>})
    BY <1>2 DEF SpawnFails
  <2>2. \A e \in {<<k, client[c].model>>} : e[1] = k
    OBVIOUS
  <2> QED
    BY <2>1, <2>2, RemovedSpares
<1>3. ASSUME ClearCache(k) PROVE Goal
  BY <1>3, RemovedSpares DEF ClearCache
<1>4. ASSUME NEW n \in Models, UnloadModel(k, n) PROVE Goal
  <2>1. Removed({<<k, n>>})
    BY <1>4 DEF UnloadModel
  <2>2. \A e \in {<<k, n>>} : e[1] = k
    OBVIOUS
  <2> QED
    BY <2>1, <2>2, RemovedSpares
<1> QED
  BY <1>1, <1>2, <1>3, <1>4 DEF UnderKey

(* An entry without a TTL never expires.                                   *)
LEMMA HoldersSpared ==
  ASSUME Sweep, NEW m \in Models, NEW k \in refs[m], ttl[k][m] = "never"
  PROVE  k \in refs'[m] /\ models'[m] = models[m]
<1>1. PICK gone \in SUBSET Expirable :
        /\ refs' = WithoutRefs(refs, gone)
        /\ models' = [n \in Models |-> IF n \in Unreferenced(refs, gone) THEN None ELSE models[n]]
  BY DEF Sweep
<1>2. <<k, m>> \notin gone
  BY <1>1 DEF Expirable
<1>3. k \in WithoutRefs(refs, gone)[m]
  BY <1>2 DEF WithoutRefs
<1> QED
  BY <1>1, <1>3 DEF Unreferenced

(* What is done under one cache key leaves the references of the others    *)
(* alone and their models loaded (touch_load, remove, clear); the sweeper  *)
(* takes nothing that a key without TTL or a request holds (expire); and   *)
(* the report of a death takes nothing that was loaded again               *)
(* (handle_worker_death).                                                  *)
THEOREM OthersModelsAlwaysStay == Spec => OthersModelsStay
<1>1. IInv /\ [Next]_vars =>
        [\A g \in Gens : ReportDeath(g) =>
           \A m \in Models : models[m] # g => models'[m] = models[m] /\ refs'[m] = refs[m]]_vars
  BY DeathSpares
<1>2. IInv /\ [Next]_vars =>
        [\A k \in CacheKeys : UnderKey(k) =>
           \A m \in Models : /\ refs'[m] \ {k} = refs[m] \ {k}
                             /\ refs[m] \ {k} # {} => models'[m] = models[m]]_vars
  BY KeySpares
<1>3. IInv /\ [Next]_vars =>
        [Sweep => \A m \in Models, k \in CacheKeys :
           k \in refs[m] /\ ttl[k][m] = "never" => k \in refs'[m] /\ models'[m] = models[m]]_vars
  BY HoldersSpared
<1>4. Spec => LateDeathSparesReload
  BY <1>1, Invariance, PTL DEF Spec, LateDeathSparesReload
<1>5. Spec => OtherKeysStay
  BY <1>2, Invariance, PTL DEF Spec, OtherKeysStay
<1>6. Spec => SweepSparesHolders
  BY <1>3, Invariance, PTL DEF Spec, SweepSparesHolders
<1> QED
  BY <1>4, <1>5, <1>6, RequestsKeepTheirModel DEF OthersModelsStay

-----------------------------------------------------------------------------
(* What the caches list                                                    *)

(* As long as no client has hung up, a model that some key lists is loaded *)
(* or is the one that is being spawned, and then no other key lists it:    *)
(* the failure of that spawn removes the last reference.                   *)
Listed ==
  /\ hangups \in Nat
  /\ hangups = 0 =>
       \A m \in Models : refs[m] # {} =>
         \/ models[m] # None
         \/ /\ lock # Nobody /\ client[lock].model = m
            /\ refs[m] \subseteq {client[lock].key}

(* References only go, and the model with the last of them.                *)
LEMMA RemovalKeepsListed ==
  ASSUME Listed, NEW gone, refs' = WithoutRefs(refs, gone),
         models' = [m \in Models |-> IF m \in Unreferenced(refs, gone) THEN None ELSE models[m]],
         UNCHANGED <<lock, client, hangups>>
  PROVE  Listed'
<1> SUFFICES ASSUME hangups' = 0, NEW m \in Models, refs'[m] # {}, models'[m] = None
             PROVE  /\ lock # Nobody /\ client[lock].model = m
                    /\ refs'[m] \subseteq {client[lock].key}
  BY DEF Listed
<1>1. refs'[m] \subseteq refs[m] /\ m \notin Unreferenced(refs, gone)
  BY DEF WithoutRefs, Unreferenced
<1>2. models[m] = None /\ refs[m] # {}
  BY <1>1
<1> QED
  BY <1>1, <1>2 DEF Listed

LEMMA BeginListed == ASSUME IInv, Listed, NEW c \in Clients, Begin(c) PROVE Listed'
<1> DEFINE m == client[c].model
           k == client[c].key
           touched == [refs EXCEPT ![m] = @ \cup {k}]
<1>1. /\ client[c].at = "lock" /\ lock = Nobody /\ hangups' = hangups
      /\ c # Nobody
  BY ManagerAssumption DEF Begin, bounds, ManagerAssumption
<1>2. client[c] \in WaitingClients /\ client \in [Clients -> {Idle} \cup WaitingClients]
  BY <1>1, Parts DEF IInv, Idle
<1>3. m \in Models /\ refs \in [Models -> SUBSET CacheKeys]
  BY <1>2, Parts DEF WaitingClients, IInv, Store
<1>31. PICK size : Touch(m, k, client[c].ttl, size)
  BY DEF Begin
<1>4. PICK gone :
        /\ refs' = WithoutRefs(touched, gone)
        /\ models' = [n \in Models |-> IF n \in Unreferenced(touched, gone) THEN None ELSE models[n]]
  BY <1>31 DEF Touch, Unload
<1>5. \/ refs'[m] = {}
      \/ models'[m] # None
      \/ client' = [client EXCEPT ![c] = [client[c] EXCEPT !.at = "spawn"]] /\ lock' = c
  BY DEF Begin
<1>6. \A n \in Models : touched[n] = IF n = m THEN refs[n] \cup {k} ELSE refs[n]
  BY <1>3
<1> SUFFICES ASSUME hangups' = 0, NEW n \in Models, refs'[n] # {}, models'[n] = None
             PROVE  /\ lock' # Nobody /\ client'[lock'].model = n
                    /\ refs'[n] \subseteq {client'[lock'].key}
  BY <1>1 DEF Listed
<1> HIDE DEF touched
<1>7. refs'[n] \subseteq touched[n] /\ n \notin Unreferenced(touched, gone)
  BY <1>4 DEF WithoutRefs, Unreferenced
<1>8. models[n] = None
  BY <1>4, <1>7
<1>9. refs[n] = {}
  BY <1>1, <1>8 DEF Listed
<1>10. n = m /\ refs'[n] \subseteq {k}
  BY <1>6, <1>7, <1>9
<1>11. client' = [client EXCEPT ![c] = [client[c] EXCEPT !.at = "spawn"]] /\ lock' = c
  BY <1>5, <1>10
<1>12. client'[c].model = m /\ client'[c].key = k
  BY <1>2, <1>11 DEF WaitingClients
<1> QED
  BY <1>1, <1>10, <1>11, <1>12

LEMMA SpawnOkListed == ASSUME IInv, Listed, NEW c \in Clients, SpawnOk(c) PROVE Listed'
<1> DEFINE m == client[c].model
           g == generations + 1
<1>1. /\ client[c].at = "spawn" /\ lock' = Nobody /\ hangups' = hangups /\ refs' = refs
  BY DEF SpawnOk, cache, bounds
<1>2. /\ client[c] \in WaitingClients /\ lock = c /\ g # None
      /\ models \in [Models -> {None} \cup Gens]
  <2>1. client[c] \in WaitingClients /\ lock = c /\ Store
    BY <1>1, Parts DEF IInv, Idle, OneSpawner
  <2>2. generations \in Nat
    BY <2>1, ManagerAssumption DEF Store, ManagerAssumption
  <2> QED
    BY <2>1, <2>2 DEF Store, None
<1>3. \/ models' = models /\ (ShuttingDown \/ refs[m] = {})
      \/ models' = [models EXCEPT ![m] = g]
  BY DEF SpawnOk
<1>4. ShuttingDown => \A n \in Models : refs[n] = {}
  BY Parts DEF IInv, Store
<1> SUFFICES ASSUME hangups' = 0, NEW n \in Models, refs'[n] # {} PROVE models'[n] # None
  BY <1>1 DEF Listed
<1>5. models[n] # None \/ n = m
  BY <1>1, <1>2 DEF Listed
<1>6. CASE models' = models
  BY <1>1, <1>2, <1>3, <1>4, <1>5, <1>6
<1>7. CASE models' = [models EXCEPT ![m] = g]
  BY <1>2, <1>5, <1>7
<1> QED
  BY <1>3, <1>6, <1>7

(* The reference of the load that failed was the only one.                 *)
LEMMA SpawnFailsListed ==
  ASSUME IInv, Listed, NEW c \in Clients, SpawnFails(c) PROVE Listed'
<1> DEFINE m == client[c].model
           gone == {<<client[c].key, m>>}
<1>1. /\ client[c].at = "spawn" /\ lock' = Nobody /\ hangups' = hangups
      /\ refs' = WithoutRefs(refs, gone)
      /\ models' = [n \in Models |-> IF n \in Unreferenced(refs, gone) THEN None ELSE models[n]]
  BY DEF SpawnFails, Removed, Unload, bounds
<1>2. lock = c
  BY <1>1, Parts DEF IInv, OneSpawner
<1> SUFFICES ASSUME hangups' = 0, NEW n \in Models, refs'[n] # {}, models'[n] = None PROVE FALSE
  BY <1>1 DEF Listed
<1>3. refs'[n] = {k \in refs[n] : <<k, n>> \notin gone}
  BY <1>1 DEF WithoutRefs
<1>4. refs[n] # {} /\ n \notin Unreferenced(refs, gone)
  BY <1>3 DEF WithoutRefs, Unreferenced
<1>5. models[n] = None
  BY <1>1, <1>4
<1>6. n = m /\ refs[n] \subseteq {client[c].key}
  BY <1>1, <1>2, <1>4, <1>5 DEF Listed
<1>7. PICK k : k \in refs[n] /\ <<k, n>> \notin gone
  BY <1>3
<1>8. k = client[c].key
  BY <1>6, <1>7
<1> QED
  BY <1>6, <1>7, <1>8

LEMMA NextListed == IInv /\ Listed /\ [Next]_vars => Listed'
<1> SUFFICES ASSUME IInv, Listed, [Next]_vars PROVE Listed'
  OBVIOUS
<1>1. ASSUME NEW c \in Clients, NEW kind \in {"load", "predict"}, NEW m \in Models,
             NEW k \in CacheKeys, NEW t \in Ttls, Ask(c, kind, m, k, t)
      PROVE  Listed'
  <2>1. lock # c
    BY <1>1, Parts DEF IInv, OneSpawner, Ask, Idle
  <2>2. lock # Nobody => client'[lock] = client[lock]
    BY <1>1, <2>1, Parts DEF IInv, Ask, OneSpawner
  <2> QED
    BY <1>1, <2>2 DEF Ask, Listed, cache
<1>2. ASSUME NEW c \in Clients, Refused(c) \/ Answer(c) PROVE Listed'
  <2>1. lock # c
    BY <1>2, Parts DEF IInv, OneSpawner, Refused, Answer
  <2>2. lock # Nobody => client'[lock] = client[lock]
    BY <1>2, <2>1, Parts DEF IInv, Refused, Answer, OneSpawner
  <2> QED
    BY <1>2, <2>2 DEF Refused, Answer, Listed, cache, bounds
<1>3. ASSUME NEW c \in Clients, HangUp(c) PROVE Listed'
  <2>1. hangups' \in Nat /\ hangups' # 0
    BY <1>3 DEF Listed, HangUp
  <2> QED
    BY <2>1 DEF Listed
<1>4. ASSUME NEW k \in CacheKeys, NEW m \in Models, UnloadModel(k, m) PROVE Listed'
  BY <1>4, RemovalKeepsListed DEF UnloadModel, Removed, Unload
<1>5. ASSUME NEW k \in CacheKeys, ClearCache(k) PROVE Listed'
  BY <1>5, RemovalKeepsListed DEF ClearCache, Removed, Unload
<1>6. CASE Sweep
  <2>1. PICK gone \in SUBSET Expirable :
          /\ refs' = WithoutRefs(refs, gone)
          /\ models' = [m \in Models |->
                          IF m \in Unreferenced(refs, gone) THEN None ELSE models[m]]
    BY <1>6 DEF Sweep
  <2> QED
    BY <1>6, <2>1, RemovalKeepsListed DEF Sweep, bounds
<1>7. ASSUME NEW g \in Gens, WorkerDies(g) \/ DrainEnds(g) PROVE Listed'
  BY <1>7 DEF WorkerDies, DrainEnds, Listed, cache, bounds
<1>8. ASSUME NEW g \in Gens, ReportDeath(g) PROVE Listed'
  <2> DEFINE ms == {m \in Models : models[m] = g}
             gone == CacheKeys \X ms
  <2>1. /\ models' = [m \in Models |-> IF m \in ms THEN None ELSE models[m]]
        /\ refs' = WithoutRefs(refs, gone)
        /\ UNCHANGED <<lock, client, hangups>>
    BY <1>8 DEF ReportDeath, bounds
  <2>2. g # None /\ refs \in [Models -> SUBSET CacheKeys]
    BY Parts DEF IInv, Store, Gens, None
  <2>3. \A m \in Models : refs'[m] \subseteq refs[m] /\ (m \in ms => refs'[m] = {})
    BY <2>1, <2>2 DEF WithoutRefs
  <2> SUFFICES ASSUME hangups' = 0, NEW m \in Models, refs'[m] # {}, models'[m] = None
               PROVE  /\ lock' # Nobody /\ client'[lock'].model = m
                      /\ refs'[m] \subseteq {client'[lock'].key}
    BY <2>1 DEF Listed
  <2> HIDE DEF ms, gone
  <2>4. m \notin ms /\ refs[m] # {}
    BY <2>3
  <2>5. models[m] = None
    BY <2>1, <2>4
  <2> QED
    BY <2>1, <2>3, <2>4, <2>5 DEF Listed
<1>9. CASE BeginShutdown
  BY <1>9 DEF BeginShutdown, Listed, bounds
<1>10. CASE LockedShutdown \/ EndShutdown \/ UNCHANGED vars
  BY <1>10 DEF LockedShutdown, EndShutdown, Listed, vars, cache, bounds
<1> QED
  BY <1>1, <1>2, <1>3, <1>4, <1>5, <1>6, <1>7, <1>8, <1>9, <1>10, BeginListed,
     SpawnOkListed, SpawnFailsListed DEF Next

(* "Failed loads never leave a phantom id" (module doc of manager.rs): as  *)
(* long as no client has hung up in the middle of its load, what the       *)
(* caches list is loaded or being loaded, through failed spawns, evictions *)
(* in the middle of a load, deaths and shutdowns.                          *)
THEOREM FailedLoadsLeaveNoEntry == Spec => [](hangups = 0 => NoPhantomEntry)
<1>1. Init => Listed
  BY DEF Init, Listed
<1>2. Listed => (hangups = 0 => NoPhantomEntry)
  BY DEF Listed, NoPhantomEntry
<1> QED
  BY <1>1, <1>2, NextListed, Invariance, PTL DEF Spec

-----------------------------------------------------------------------------
(* Induction over the naturals, from the well-foundedness of <.  The        *)
(* prover has no induction over data; a set of numbers without a least     *)
(* counterexample does the work of it.                                     *)
LEMMA LeastElement ==
  ASSUME NEW T \in SUBSET Nat, T # {}
  PROVE  \E n \in T : \A m \in T : n <= m
<1> DEFINE R == OpToRel(<, Nat)
<1>1. IsWellFoundedOn(R, Nat)
  BY NatLessThanWellFounded
<1>2. \A x, y \in Nat : <<x, y>> \in R <=> x < y
  BY DEF OpToRel
<1> HIDE DEF R
<1>3. PICK x \in T : \A y \in T : ~ (<<y, x>> \in R)
  BY <1>1, WFMin
<1>4. \A y \in T : ~ (y < x)
  <2> TAKE y \in T
  <2>1. x \in Nat /\ y \in Nat
    OBVIOUS
  <2> QED
    BY <2>1, <1>2, <1>3
<1> QED
  BY <1>4

LEMMA Induction ==
  ASSUME NEW P \in SUBSET Nat, 0 \in P, \A n \in P : n + 1 \in P
  PROVE  Nat \subseteq P
<1> SUFFICES ASSUME Nat \ P # {} PROVE FALSE
  OBVIOUS
<1>1. PICK n \in Nat \ P : \A m \in Nat \ P : n <= m
  BY LeastElement
<1>2. n # 0 /\ n - 1 \in Nat
  BY <1>1
<1>3. n - 1 \in P
  BY <1>1, <1>2
<1> QED
  BY <1>1, <1>2, <1>3

-----------------------------------------------------------------------------
(* What a sequence lists                                                   *)
LEMMA ToSetIs ==
  \A s : ToSet(s) = {s[i] : i \in DOMAIN s}
BY DEF ToSet

LEMMA ToSetEmpty == \A s : s = <<>> => ToSet(s) = {}
BY DEF ToSet

LEMMA ToSetOne == \A e : ToSet(<<e>>) = {e}
BY DEF ToSet

LEMMA ToSetConcat ==
  ASSUME NEW X, NEW s \in Seq(X), NEW t \in Seq(X)
  PROVE  ToSet(s \o t) = ToSet(s) \cup ToSet(t)
<1> DEFINE m == Len(s)
           n == Len(t)
           st == s \o t
<1>1. m \in Nat /\ n \in Nat /\ DOMAIN s = 1..m /\ DOMAIN t = 1..n
  OBVIOUS
<1>2. /\ st \in Seq(X) /\ Len(st) = m + n
      /\ \A i \in 1..(m + n) : st[i] = IF i <= m THEN s[i] ELSE t[i - m]
  BY ConcatProperties, <1>1
<1>3. DOMAIN st = 1..(m + n)
  BY <1>2, LenProperties
<1> HIDE DEF m, n, st
<1>4. \A i \in DOMAIN st : st[i] \in ToSet(s) \cup ToSet(t)
  <2> TAKE i \in DOMAIN st
  <2>1. CASE i <= m
    <3>1. i \in DOMAIN s /\ st[i] = s[i]
      BY <2>1, <1>1, <1>2, <1>3
    <3> QED
      BY <3>1, ToSetIs
  <2>2. CASE ~(i <= m)
    <3>1. i - m \in DOMAIN t /\ st[i] = t[i - m]
      BY <2>2, <1>1, <1>2, <1>3
    <3> QED
      BY <3>1, ToSetIs
  <2> QED
    BY <2>1, <2>2
<1>5. \A i \in DOMAIN s : s[i] \in ToSet(st)
  <2> TAKE i \in DOMAIN s
  <2>1. i \in DOMAIN st /\ st[i] = s[i]
    BY <1>1, <1>2, <1>3
  <2> QED
    BY <2>1, ToSetIs
<1>6. \A i \in DOMAIN t : t[i] \in ToSet(st)
  <2> TAKE i \in DOMAIN t
  <2>1. m + i \in DOMAIN st /\ ~(m + i <= m) /\ (m + i) - m = i
    BY <1>1, <1>3
  <2>2. st[m + i] = t[i]
    BY <2>1, <1>2, <1>3
  <2> QED
    BY <2>1, <2>2, ToSetIs
<1>7. ToSet(st) = ToSet(s) \cup ToSet(t)
  BY <1>4, <1>5, <1>6, ToSetIs
<1> QED
  BY <1>7 DEF st

LEMMA ToSetAppend ==
  ASSUME NEW X, NEW s \in Seq(X), NEW e \in X
  PROVE  ToSet(Append(s, e)) = ToSet(s) \cup {e}
<1>1. Append(s, e) = s \o <<e>>
  BY AppendIsConcat
<1> DEFINE t == <<e>>
<1>2. t \in Seq(X) /\ ToSet(t) = {e}
  BY ToSetOne
<1> HIDE DEF t
<1>3. ToSet(s \o t) = ToSet(s) \cup ToSet(t)
  BY <1>2, ToSetConcat
<1> QED
  BY <1>1, <1>2, <1>3 DEF t

(* What Forget computes, step by step; ForgetsUpTo is a prefix of it.      *)
ForgetStep(left, entries, gone, i) ==
    IF i = 0 THEN <<>>
    ELSE IF entries[i] \in gone THEN left[i - 1]
    ELSE Append(left[i - 1], entries[i])

ForgetsUpTo(left, entries, gone, n, X) ==
    left \in [0 .. n -> Seq(X)] /\ \A i \in 0 .. n : left[i] = ForgetStep(left, entries, gone, i)

LEMMA ForgetExists ==
    ASSUME NEW X, NEW entries \in Seq(X), NEW gone
    PROVE  \E left : ForgetsUpTo(left, entries, gone, Len(entries), X)
<1> DEFINE P == {n \in Nat : n <= Len(entries) => \E left : ForgetsUpTo(left, entries, gone, n, X)}
<1>1. 0 \in P
  <2> DEFINE left == [i \in 0 .. 0 |-> <<>>]
  <2>1. left \in [0 .. 0 -> Seq(X)]
    OBVIOUS
  <2>2. \A i \in 0 .. 0 : left[i] = ForgetStep(left, entries, gone, i)
    BY DEF ForgetStep
  <2> HIDE DEF left
  <2>3. ForgetsUpTo(left, entries, gone, 0, X)
    BY <2>1, <2>2 DEF ForgetsUpTo
  <2> QED
    BY <2>3
<1>2. \A n \in P : n + 1 \in P
  <2> TAKE n \in P
  <2>0. n \in Nat /\ n + 1 \in Nat
    OBVIOUS
  <2> SUFFICES ASSUME n + 1 <= Len(entries)
               PROVE  \E left : ForgetsUpTo(left, entries, gone, n + 1, X)
    BY <2>0
  <2>5. Len(entries) \in Nat /\ n <= Len(entries)
    BY <2>0
  <2>6. PICK m : ForgetsUpTo(m, entries, gone, n, X)
    BY <2>5
  <2>7. PICK l \in [0 .. n -> Seq(X)] : l = m
    BY <2>6 DEF ForgetsUpTo
  <2>1. \A i \in 0 .. n : l[i] = ForgetStep(l, entries, gone, i)
    BY <2>6, <2>7 DEF ForgetsUpTo
  <2> DEFINE left == [i \in 0 .. n + 1 |-> IF i = n + 1 THEN ForgetStep(l, entries, gone, i) ELSE l[i]]
  <2>2. ForgetStep(l, entries, gone, n + 1) \in Seq(X)
    <3>1. entries[n + 1] \in X /\ l[n] \in Seq(X)
      BY <2>0
    <3> QED
      BY <2>0, <3>1 DEF ForgetStep
  <2>3. left \in [0 .. n + 1 -> Seq(X)]
    BY <2>0, <2>2
  <2>4. \A i \in 0 .. n + 1 : left[i] = ForgetStep(left, entries, gone, i)
    <3> TAKE i \in 0 .. n + 1
    <3>1. i # 0 => i - 1 \in 0 .. n /\ i - 1 # n + 1 /\ i - 1 \in 0 .. n + 1
      BY <2>0
    <3>2. i # 0 => left[i - 1] = l[i - 1]
      BY <3>1
    <3>3. i # n + 1 => i \in 0 .. n
      BY <2>0
    <3>4. left[i] = ForgetStep(l, entries, gone, i)
      BY <2>1, <3>3
    <3> HIDE DEF left
    <3> QED
      BY <3>2, <3>4 DEF ForgetStep
  <2> HIDE DEF left
  <2>8. ForgetsUpTo(left, entries, gone, n + 1, X)
    BY <2>3, <2>4 DEF ForgetsUpTo
  <2> QED
    BY <2>8
<1>3. P \in SUBSET Nat
  OBVIOUS
<1>4. Len(entries) \in P
  <2>1. Len(entries) \in Nat
    OBVIOUS
  <2> HIDE DEF P
  <2> QED
    BY <1>1, <1>2, <1>3, <2>1, Induction
<1> QED
  BY <1>4

(* What is left is what was there without the models, each once.           *)
Kept(r, entries, gone, i) ==
    /\ ToSet(r) = {entries[j] : j \in 1 .. i} \ gone
    /\ IsInjective(entries) => IsInjective(r)

LEMMA AppendOnce ==
    ASSUME NEW X, NEW s \in Seq(X), NEW x \in X, IsInjective(s), x \notin ToSet(s)
    PROVE  IsInjective(Append(s, x))
<1> DEFINE t == Append(s, x)
<1>1. t \in Seq(X) /\ DOMAIN t = 1 .. Len(s) + 1 /\ DOMAIN s = 1 .. Len(s) /\ Len(s) \in Nat
  OBVIOUS
<1>2. t[Len(s) + 1] = x /\ \A i \in 1 .. Len(s) : t[i] = s[i]
  OBVIOUS
<1> HIDE DEF t
<1>3. \A i \in DOMAIN s : s[i] # x
  BY ToSetIs
<1> QED
  BY <1>1, <1>2, <1>3 DEF IsInjective, t

LEMMA ForgetKeeps ==
    ASSUME NEW X, NEW entries \in Seq(X), NEW gone
    PROVE  LET F == Forget(entries, gone)
           IN  /\ F \in Seq(X)
               /\ ToSet(F) = ToSet(entries) \ gone
               /\ IsInjective(entries) => IsInjective(F)
<1> DEFINE n == Len(entries)
           G(l) == [i \in 0 .. n |-> IF i = 0 THEN <<>>
                                     ELSE IF entries[i] \in gone THEN l[i - 1]
                                     ELSE Append(l[i - 1], entries[i])]
<1>0. n \in Nat /\ DOMAIN entries = 1 .. n
  OBVIOUS
<1>2. \E l : l = G(l)
  <2>1. PICK l : ForgetsUpTo(l, entries, gone, Len(entries), X)
    BY ForgetExists
  <2>2. l = G(l)
    BY <2>1 DEF ForgetsUpTo, ForgetStep
  <2> QED
    BY <2>2
<1> DEFINE left == CHOOSE l : l = G(l)
<1>1. Forget(entries, gone) = left[n]
  BY DEF Forget
<1>8. left = G(left)
  BY <1>2
<1> HIDE DEF left
<1>3. \A i \in 0 .. n : left[i] = ForgetStep(left, entries, gone, i)
  BY <1>8 DEF ForgetStep
<1> DEFINE P == {i \in Nat : i <= n => left[i] \in Seq(X) /\ Kept(left[i], entries, gone, i)}
<1> HIDE DEF n
<1>4. 0 \in P
  <2>1. left[0] = <<>>
    BY <1>0, <1>3 DEF ForgetStep
  <2>2. \A r : r = <<>> => ToSet(r) = {} /\ IsInjective(r) /\ r \in Seq(X)
    BY DEF ToSet, IsInjective
  <2>3. {entries[j] : j \in 1 .. 0} = {}
    OBVIOUS
  <2> QED
    BY <2>1, <2>2, <2>3 DEF Kept
<1>5. \A i \in P : i + 1 \in P
  <2> SUFFICES ASSUME NEW i \in P, i + 1 <= n
               PROVE  left[i + 1] \in Seq(X) /\ Kept(left[i + 1], entries, gone, i + 1)
    OBVIOUS
  <2>0. i \in Nat /\ i <= n /\ i + 1 \in 1 .. n /\ i + 1 \in 0 .. n /\ (i + 1) - 1 = i /\ i + 1 # 0
    BY <1>0
  <2>1. left[i] \in Seq(X) /\ Kept(left[i], entries, gone, i)
    BY <2>0
  <2>2. left[i + 1] = IF entries[i + 1] \in gone THEN left[i] ELSE Append(left[i], entries[i + 1])
    BY <1>3, <2>0 DEF ForgetStep
  <2>3. {entries[j] : j \in 1 .. i + 1} = {entries[j] : j \in 1 .. i} \cup {entries[i + 1]}
    <3>1. \A j : j \in 1 .. i + 1 <=> (j \in 1 .. i \/ j = i + 1)
      BY <2>0
    <3> QED
      BY <3>1
  <2>4. CASE entries[i + 1] \in gone
    BY <2>1, <2>2, <2>3, <2>4 DEF Kept
  <2>5. CASE entries[i + 1] \notin gone
    <3>1. entries[i + 1] \in X
      BY <1>0, <2>0
    <3>2. left[i + 1] = Append(left[i], entries[i + 1])
      BY <2>2, <2>5
    <3>3. /\ left[i + 1] \in Seq(X)
          /\ ToSet(left[i + 1]) = ToSet(left[i]) \cup {entries[i + 1]}
          /\ IsInjective(left[i]) /\ entries[i + 1] \notin ToSet(left[i]) => IsInjective(left[i + 1])
      BY <2>1, <3>1, <3>2, ToSetAppend, AppendOnce
    <3>4. IsInjective(entries) => entries[i + 1] \notin {entries[j] : j \in 1 .. i}
      BY <1>0, <2>0 DEF IsInjective
    <3>5. ToSet(left[i + 1]) = {entries[j] : j \in 1 .. i + 1} \ gone
      BY <2>1, <2>3, <2>5, <3>3 DEF Kept
    <3>6. IsInjective(entries) => IsInjective(left[i + 1])
      BY <2>1, <3>3, <3>4 DEF Kept
    <3> QED
      BY <3>3, <3>5, <3>6 DEF Kept
  <2> QED
    BY <2>4, <2>5
<1>6. n \in P
  <2>1. P \in SUBSET Nat
    OBVIOUS
  <2> HIDE DEF P
  <2> QED
    BY <1>0, <1>4, <1>5, <2>1, Induction
<1>7. ToSet(entries) = {entries[j] : j \in 1 .. n}
  BY <1>0 DEF ToSet
<1> QED
  BY <1>0, <1>1, <1>6, <1>7 DEF Kept

LEMMA OnceEach ==
    ASSUME NEW X, NEW s \in Seq(X), IsInjective(s)
    PROVE  Cardinality(ToSet(s)) = Len(s)
<1>1. DOMAIN s = 1 .. Len(s) /\ Len(s) \in Nat
  OBVIOUS
<1>2. s \in [1 .. Len(s) -> ToSet(s)] /\ \A y \in ToSet(s) : \E i \in 1 .. Len(s) : s[i] = y
  BY <1>1 DEF ToSet
<1>3. s \in Bijection(1 .. Len(s), ToSet(s))
  BY <1>1, <1>2 DEF Bijection, Injection, Surjection, IsInjective
<1>4. IsFiniteSet(1 .. Len(s)) /\ Cardinality(1 .. Len(s)) = Len(s)
  BY <1>1, FS_Interval
<1> QED
  BY <1>3, <1>4, FS_Bijection DEF ExistsBijection

-----------------------------------------------------------------------------
(* LRUs and references agree: an LRU lists a model once, and it lists it   *)
(* exactly if the model refers to the LRU's key.                           *)
Agree(l, r) ==
  /\ l \in [CacheKeys -> Seq(Models)] /\ r \in [Models -> SUBSET CacheKeys]
  /\ \A k \in CacheKeys : IsInjective(l[k])
  /\ \A k \in CacheKeys, m \in Models : k \in r[m] <=> m \in ToSet(l[k])

LEMMA RemovalAgrees ==
  ASSUME NEW l, NEW r, Agree(l, r), NEW gone
  PROVE  Agree(WithoutEntries(l, gone), WithoutRefs(r, gone))
<1> DEFINE L == WithoutEntries(l, gone)
           R == WithoutRefs(r, gone)
           Left(k) == {m \in Models : <<k, m>> \in gone}
<1>1. \A k \in CacheKeys :
        /\ L[k] \in Seq(Models)
        /\ ToSet(L[k]) = ToSet(l[k]) \ Left(k)
        /\ IsInjective(L[k])
  <2> TAKE k \in CacheKeys
  <2> DEFINE ms == Left(k)
  <2>1. L[k] = Forget(l[k], ms)
    BY DEF WithoutEntries
  <2>2. l[k] \in Seq(Models) /\ IsInjective(l[k])
    BY DEF Agree
  <2> HIDE DEF ms, L
  <2>3. L[k] \in Seq(Models) /\ ToSet(L[k]) = ToSet(l[k]) \ ms /\ IsInjective(L[k])
    BY <2>1, <2>2, ForgetKeeps
  <2> QED
    BY <2>3 DEF ms
<1>2. L = [k \in CacheKeys |-> L[k]]
  BY DEF WithoutEntries
<1>3. \A m \in Models : R[m] = {k \in r[m] : <<k, m>> \notin gone}
  BY DEF WithoutRefs
<1>4. R \in [Models -> SUBSET CacheKeys]
  BY DEF WithoutRefs, Agree
<1> HIDE DEF L, R
<1>5. L \in [CacheKeys -> Seq(Models)]
  BY <1>1, <1>2
<1>6. \A k \in CacheKeys, m \in Models : k \in R[m] <=> m \in ToSet(L[k])
  <2> TAKE k \in CacheKeys, m \in Models
  <2>1. k \in r[m] <=> m \in ToSet(l[k])
    BY DEF Agree
  <2>2. k \in R[m] <=> (k \in r[m] /\ <<k, m>> \notin gone)
    BY <1>3
  <2>3. m \in ToSet(L[k]) <=> (m \in ToSet(l[k]) /\ <<k, m>> \notin gone)
    BY <1>1
  <2> QED
    BY <2>1, <2>2, <2>3
<1>7. Agree(L, R)
  BY <1>1, <1>4, <1>5, <1>6 DEF Agree
<1> QED
  BY <1>7 DEF L, R

(* touch_load: the entry becomes the newest of its key.                    *)
LEMMA TouchAgrees ==
  ASSUME Agree(lru, refs), NEW m \in Models, NEW k \in CacheKeys
  PROVE  Agree([lru EXCEPT ![k] = Append(Forget(lru[k], {m}), m)],
               [refs EXCEPT ![m] = @ \cup {k}])
<1> DEFINE rest == Forget(lru[k], {m})
           e == Append(rest, m)
           L == [lru EXCEPT ![k] = e]
           R == [refs EXCEPT ![m] = @ \cup {k}]
<1>1. lru[k] \in Seq(Models) /\ IsInjective(lru[k])
  BY DEF Agree
<1>2. rest \in Seq(Models) /\ ToSet(rest) = ToSet(lru[k]) \ {m} /\ IsInjective(rest)
  BY <1>1, ForgetKeeps
<1> HIDE DEF rest
<1>3. e \in Seq(Models) /\ ToSet(e) = ToSet(lru[k]) \cup {m} /\ IsInjective(e)
  <2>1. m \notin ToSet(rest)
    BY <1>2
  <2>2. e \in Seq(Models)
    BY <1>2
  <2>3. ToSet(e) = ToSet(rest) \cup {m} /\ IsInjective(e)
    BY <1>2, <2>1, ToSetAppend, AppendOnce
  <2> QED
    BY <1>2, <2>2, <2>3
<1> HIDE DEF e
<1>4. /\ L \in [CacheKeys -> Seq(Models)]
      /\ \A j \in CacheKeys : L[j] = IF j = k THEN e ELSE lru[j]
  BY <1>3 DEF Agree
<1>5. /\ R \in [Models -> SUBSET CacheKeys]
      /\ \A n \in Models : R[n] = IF n = m THEN refs[n] \cup {k} ELSE refs[n]
  BY DEF Agree
<1> HIDE DEF L, R
<1>6. \A j \in CacheKeys, n \in Models : j \in R[n] <=> n \in ToSet(L[j])
  <2> TAKE j \in CacheKeys, n \in Models
  <2>1. j \in refs[n] <=> n \in ToSet(lru[j])
    BY DEF Agree
  <2>2. CASE j = k
    BY <1>3, <1>4, <1>5, <2>1, <2>2
  <2>3. CASE j # k
    BY <1>4, <1>5, <2>1, <2>3
  <2> QED
    BY <2>2, <2>3
<1>7. \A j \in CacheKeys : IsInjective(L[j])
  BY <1>3, <1>4 DEF Agree
<1>8. Agree(L, R)
  BY <1>4, <1>5, <1>6, <1>7 DEF Agree
<1> QED
  BY <1>8 DEF L, R, e, rest

LEMMA InitAgrees == Init => Agree(lru, refs)
<1> SUFFICES ASSUME Init PROVE Agree(lru, refs)
  OBVIOUS
<1>1. \A s : s = <<>> => s \in Seq(Models) /\ IsInjective(s) /\ ToSet(s) = {}
  BY DEF IsInjective, ToSet
<1>2. \A k \in CacheKeys : lru[k] = <<>>
  BY DEF Init
<1>3. lru = [k \in CacheKeys |-> <<>>] /\ refs = [m \in Models |-> {}]
  BY DEF Init
<1> QED
  BY <1>1, <1>2, <1>3 DEF Agree

LEMMA NextAgrees == IInv /\ Agree(lru, refs) /\ [Next]_vars => Agree(lru', refs')
<1> SUFFICES ASSUME IInv, Agree(lru, refs), [Next]_vars PROVE Agree(lru', refs')
  OBVIOUS
<1>1. ASSUME NEW c \in Clients, Begin(c) PROVE Agree(lru', refs')
  <2> DEFINE m == client[c].model
             k == client[c].key
             entries == Append(Forget(lru[k], {m}), m)
             L == [lru EXCEPT ![k] = entries]
             R == [refs EXCEPT ![m] = @ \cup {k}]
  <2>1. client[c] \in WaitingClients
    BY <1>1, Parts DEF Begin, IInv, Idle
  <2>2. m \in Models /\ k \in CacheKeys
    BY <2>1 DEF WaitingClients
  <2>3. PICK size : Touch(m, k, client[c].ttl, size)
    BY <1>1 DEF Begin
  <2>4. Agree(L, R)
    BY <2>2, TouchAgrees
  <2>5. \E gone : lru' = WithoutEntries(L, gone) /\ refs' = WithoutRefs(R, gone)
    BY <2>3 DEF Touch
  <2> HIDE DEF L, R
  <2> QED
    BY <2>4, <2>5, RemovalAgrees
<1>2. ASSUME NEW gone, lru' = WithoutEntries(lru, gone), refs' = WithoutRefs(refs, gone)
      PROVE  Agree(lru', refs')
  BY <1>2, RemovalAgrees
<1>3. ASSUME NEW c \in Clients, SpawnFails(c) PROVE Agree(lru', refs')
  BY <1>2, <1>3 DEF SpawnFails, Removed
<1>4. ASSUME NEW k \in CacheKeys, NEW m \in Models, UnloadModel(k, m) PROVE Agree(lru', refs')
  BY <1>2, <1>4 DEF UnloadModel, Removed
<1>5. ASSUME NEW k \in CacheKeys, ClearCache(k) PROVE Agree(lru', refs')
  BY <1>2, <1>5 DEF ClearCache, Removed
<1>6. CASE Sweep
  BY <1>2, <1>6 DEF Sweep
<1>7. ASSUME NEW g \in Gens, ReportDeath(g) PROVE Agree(lru', refs')
  BY <1>2, <1>7 DEF ReportDeath
<1>8. CASE BeginShutdown
  <2>1. lru' = [k \in CacheKeys |-> <<>>] /\ refs' = [m \in Models |-> {}]
    BY <1>8 DEF BeginShutdown
  <2>2. \A s : s = <<>> => s \in Seq(Models) /\ IsInjective(s) /\ ToSet(s) = {}
    BY DEF IsInjective, ToSet
  <2>3. \A k \in CacheKeys : lru'[k] = <<>>
    BY <2>1
  <2> QED
    BY <2>1, <2>2, <2>3 DEF Agree
<1>9. ASSUME UNCHANGED <<lru, refs>> PROVE Agree(lru', refs')
  BY <1>9
<1>10. ASSUME NEW c \in Clients, NEW kind \in {"load", "predict"}, NEW m \in Models,
              NEW k \in CacheKeys, NEW t \in Ttls, Ask(c, kind, m, k, t)
       PROVE  Agree(lru', refs')
  BY <1>9, <1>10 DEF Ask, cache
<1>11. ASSUME NEW c \in Clients, Refused(c) \/ SpawnOk(c) \/ Answer(c) \/ HangUp(c)
       PROVE  Agree(lru', refs')
  BY <1>9, <1>11 DEF Refused, SpawnOk, Answer, HangUp, cache
<1>12. ASSUME NEW g \in Gens, WorkerDies(g) \/ DrainEnds(g) PROVE Agree(lru', refs')
  BY <1>9, <1>12 DEF WorkerDies, DrainEnds, cache
<1>13. CASE LockedShutdown \/ EndShutdown \/ UNCHANGED vars
  BY <1>9, <1>13 DEF LockedShutdown, EndShutdown, vars, cache
<1> QED
  BY <1>1, <1>3, <1>4, <1>5, <1>6, <1>7, <1>8, <1>10, <1>11, <1>12, <1>13 DEF Next

(* A model refers to exactly the cache keys whose LRU lists it, and an LRU *)
(* lists it once, whatever touches, evictions, expiries, unloads, deaths   *)
(* and failed loads came before; and what is listed is loaded or being     *)
(* loaded (CacheState of manager.rs, and its module doc).                  *)
THEOREM CachesTellTheTruth == Spec => []CacheIsTrue
<1>1. Agree(lru, refs) => RefsMatchEntries
  <2> SUFFICES ASSUME Agree(lru, refs) PROVE RefsMatchEntries
    OBVIOUS
  <2>1. \A m \in Models : refs[m] = {k \in CacheKeys : <<k, m>> \in Entries}
    BY DEF Agree, Entries
  <2>2. \A k \in CacheKeys : Cardinality(ToSet(lru[k])) = Len(lru[k])
    BY OnceEach DEF Agree
  <2> QED
    BY <2>1, <2>2 DEF RefsMatchEntries
<1> DEFINE P == Agree(lru, refs)
<1>2. Init => P
  BY InitAgrees
<1>3. IInv /\ P /\ [Next]_vars => P'
  BY NextAgrees
<1>4. P => RefsMatchEntries
  BY <1>1
<1> HIDE DEF P
<1>5. Spec => []P
  BY <1>2, <1>3, Invariance, PTL DEF Spec
<1> QED
  BY <1>4, <1>5, FailedLoadsLeaveNoEntry, PTL DEF CacheIsTrue

-----------------------------------------------------------------------------
(* The dispatcher: smallest and greatest elements                          *)

LEMMA GreatestElement ==
  ASSUME NEW k \in Nat, NEW T \in SUBSET (0..k), T # {}
  PROVE  Max(T) \in T /\ \A m \in T : m <= Max(T)
<1> DEFINE U == {k - x : x \in T}
<1>1. U \in SUBSET Nat /\ U # {}
  <2>1. \A x \in T : x \in Nat /\ x <= k
    OBVIOUS
  <2>2. \A x \in T : k - x \in Nat
    BY <2>1
  <2> QED
    BY <2>2
<1>2. PICK n \in U : \A m \in U : n <= m
  BY <1>1, LeastElement
<1>3. PICK x \in T : n = k - x
  BY <1>2
<1>4. \A m \in T : m <= x
  <2> TAKE m \in T
  <2>1. k - m \in U
    OBVIOUS
  <2>2. m \in 0..k /\ x \in 0..k
    OBVIOUS
  <2>3. k - x <= k - m
    BY <2>1, <1>2, <1>3
  <2> QED
    BY <2>2, <2>3
<1>5. \E y \in T : \A m \in T : m <= y
  BY <1>4
<1>6. \E y \in T : \A m \in T : y >= m
  <2>1. PICK y \in T : \A m \in T : m <= y
    BY <1>5
  <2>2. \A m \in T : y >= m
    BY <2>1
  <2> QED
    BY <2>2
<1>7. Max(T) = CHOOSE y \in T : \A m \in T : y >= m
  BY DEF Max
<1>8. Max(T) \in T /\ \A m \in T : Max(T) >= m
  BY <1>6, <1>7
<1> QED
  BY <1>8

LEMMA SmallestIsMin ==
  ASSUME NEW T \in SUBSET Nat, T # {}
  PROVE  Min(T) \in T /\ \A m \in T : Min(T) <= m
<1>1. \E n \in T : \A m \in T : n <= m
  BY LeastElement
<1>2. Min(T) = CHOOSE y \in T : \A m \in T : y <= m
  BY DEF Min
<1> QED
  BY <1>1, <1>2

\* Two functions that agree at the start and in every step agree.
SameSteps(n, g, h) == g[0] = h[0] /\ \A i \in 1..n : g[i - 1] = h[i - 1] => g[i] = h[i]
SameUpTo(n, g, h) == \A i \in 0..n : g[i] = h[i]
LEMMA PrefixAgree ==
  ASSUME NEW n \in Nat, NEW g, NEW h, SameSteps(n, g, h)
  PROVE  SameUpTo(n, g, h)
<1>0. g[0] = h[0] /\ \A i \in 1..n : g[i - 1] = h[i - 1] => g[i] = h[i]
  BY DEF SameSteps
<1> DEFINE P == {k \in Nat : k <= n => g[k] = h[k]}
<1>1. 0 \in P
  BY <1>0
<1>2. \A k \in P : k + 1 \in P
  <2> SUFFICES ASSUME NEW k \in P, k + 1 <= n PROVE g[k + 1] = h[k + 1]
    OBVIOUS
  <2>1. k \in Nat /\ g[k] = h[k] /\ k + 1 \in 1..n /\ (k + 1) - 1 = k
    OBVIOUS
  <2> QED
    BY <1>0, <2>1
<1> HIDE DEF P
<1>3. Nat \subseteq P
  BY <1>1, <1>2, Induction DEF P
<1> QED
  BY <1>3 DEF P, SameUpTo
\* ConcatAssociative in the form the provers can instantiate.
Assoc(s, t, u) == (s \o t) \o u = s \o (t \o u)
LEMMA ConcatAssoc == \A S : \A s, t, u \in Seq(S) : Assoc(s, t, u)
BY ConcatAssociative DEF Assoc

-----------------------------------------------------------------------------
(* What FlattenSeq computes *)

\* The concatenations of the first sequences of ss, up to n of them.
PartialTo(X, ss, n, h) ==
  /\ h \in [0..n -> Seq(X)]
  /\ h[0] = <<>>
  /\ \A i \in 1..n : h[i] = h[i - 1] \o ss[i]
Partial(X, ss, h) == PartialTo(X, ss, Len(ss), h)

LEMMA FlattenIs ==
  ASSUME NEW X, NEW ss \in Seq(Seq(X)), NEW h, Partial(X, ss, h)
  PROVE  FlattenSeq(ss) = h[Len(ss)]
<1>1. CASE Len(ss) = 0
  <2>1. FlattenSeq(ss) = ss
    BY <1>1 DEF FlattenSeq
  <2>2. ss = <<>>
    BY <1>1, EmptySeq
  <2> QED
    BY <2>1, <2>2, <1>1 DEF Partial, PartialTo
<1>2. CASE Len(ss) # 0
  <2> DEFINE n == Len(ss)
             Eq(g) == g = [i \in 1..n |-> IF i = 1 THEN ss[i] ELSE g[i - 1] \o ss[i]]
             g0 == [i \in 1..n |-> h[i]]
  <2>1. n \in Nat \ {0}
    BY <1>2
  <2>2. Eq(g0)
    <3>1. \A i \in 1..n : h[i] = IF i = 1 THEN ss[i] ELSE g0[i - 1] \o ss[i]
      <4> TAKE i \in 1..n
      <4>1. h[i] = h[i - 1] \o ss[i] /\ ss[i] \in Seq(X)
        BY ElementOfSeq DEF Partial, PartialTo
      <4>2. CASE i = 1
        <5>1. h[i - 1] = <<>>
          BY <4>2 DEF Partial, PartialTo
        <5>2. <<>> \o ss[i] = ss[i]
          BY <4>1, ConcatEmptySeq
        <5> QED
          BY <5>1, <5>2, <4>1, <4>2
      <4>3. CASE i # 1
        <5>1. i - 1 \in 1..n
          BY <4>3, <2>1
        <5> QED
          BY <5>1, <4>1, <4>3
      <4> QED
        BY <4>2, <4>3
    <3> QED
      BY <3>1
  <2>3. \E g : Eq(g) /\ FlattenSeq(ss) = g[n]
    <3>1. FlattenSeq(ss) = (CHOOSE g : Eq(g))[n]
      BY <1>2 DEF FlattenSeq
    <3>2. Eq(CHOOSE g : Eq(g))
      <4> HIDE DEF Eq
      <4> QED
        BY <2>2
    <3> QED
      BY <3>1, <3>2
  <2>4. PICK g : Eq(g) /\ FlattenSeq(ss) = g[n]
    BY <2>3
  <2> DEFINE e == [i \in 0..n |-> IF i = 0 THEN <<>> ELSE g[i]]
  <2>5. e[0] = h[0]
    BY <2>1 DEF Partial, PartialTo
  <2>6. \A i \in 1..n : e[i - 1] = h[i - 1] => e[i] = h[i]
    <3> SUFFICES ASSUME NEW i \in 1..n, e[i - 1] = h[i - 1] PROVE e[i] = h[i]
      OBVIOUS
    <3>1. h[i] = h[i - 1] \o ss[i] /\ ss[i] \in Seq(X)
      BY ElementOfSeq DEF Partial, PartialTo
    <3>2. g[i] = IF i = 1 THEN ss[i] ELSE g[i - 1] \o ss[i]
      BY <2>4
    <3>3. e[i] = g[i]
      OBVIOUS
    <3>4. CASE i = 1
      <4>1. h[i - 1] = <<>>
        BY <3>4 DEF Partial, PartialTo
      <4>2. <<>> \o ss[i] = ss[i]
        BY <3>1, ConcatEmptySeq
      <4> QED
        BY <4>1, <4>2, <3>1, <3>2, <3>3, <3>4
    <3>5. CASE i # 1
      <4>1. e[i - 1] = g[i - 1]
        BY <3>5, <2>1
      <4> QED
        BY <4>1, <3>1, <3>2, <3>3, <3>5
    <3> QED
      BY <3>4, <3>5
  <2> HIDE DEF e
  <2>7. \A i \in 0..n : e[i] = h[i]
    <3> HIDE DEF n
    <3>1. n \in Nat
      BY <2>1
    <3>2. SameSteps(n, e, h)
      BY <2>5, <2>6 DEF SameSteps
    <3>3. SameUpTo(n, e, h)
      BY <3>1, <3>2, PrefixAgree
    <3> QED
      BY <3>3 DEF SameUpTo
  <2>8. e[n] = g[n]
    BY <2>1 DEF e
  <2> QED
    BY <2>1, <2>4, <2>7, <2>8
<1> QED
  BY <1>1, <1>2

LEMMA PartialExtends ==
  ASSUME NEW X, NEW ss, NEW k \in Nat, NEW g, PartialTo(X, ss, k, g),
         ss[k + 1] \in Seq(X)
  PROVE  \E h : PartialTo(X, ss, k + 1, h)
<1> DEFINE last == g[k] \o ss[k + 1]
           h == [i \in 0..(k + 1) |-> IF i <= k THEN g[i] ELSE last]
<1>2. /\ \A i \in 0..k : g[i] \in Seq(X)
      /\ g[0] = <<>>
      /\ \A i \in 1..k : g[i] = g[i - 1] \o ss[i]
  BY DEF PartialTo
<1>3. last \in Seq(X)
  <2>1. g[k] \in Seq(X)
    BY <1>2
  <2> QED
    BY <2>1, ConcatProperties
<1>4. h \in [0..(k + 1) -> Seq(X)]
  <2> HIDE DEF last
  <2>1. \A i \in 0..(k + 1) : (IF i <= k THEN g[i] ELSE last) \in Seq(X)
    <3> TAKE i \in 0..(k + 1)
    <3>1. i <= k => i \in 0..k
      OBVIOUS
    <3> QED
      BY <3>1, <1>2, <1>3
  <2> QED
    BY <2>1
<1>5. h[0] = <<>>
  BY <1>2
<1>6. \A i \in 1..(k + 1) : h[i] = h[i - 1] \o ss[i]
  <2> TAKE i \in 1..(k + 1)
  <2>1. CASE i <= k
    <3>1. h[i] = g[i] /\ h[i - 1] = g[i - 1] /\ i \in 1..k
      BY <2>1
    <3>2. g[i] = g[i - 1] \o ss[i]
      BY <3>1, <1>2
    <3> HIDE DEF h
    <3> QED
      BY <3>1, <3>2
  <2>2. CASE ~(i <= k)
    <3>1. i = k + 1 /\ i - 1 = k
      BY <2>2
    <3>2. h[k + 1] = last /\ h[k] = g[k]
      OBVIOUS
    <3> HIDE DEF h
    <3>3. h[i - 1] \o ss[i] = last
      BY <3>1, <3>2
    <3> QED
      BY <3>1, <3>2, <3>3
  <2> QED
    BY <2>1, <2>2
<1> HIDE DEF h
<1>7. PartialTo(X, ss, k + 1, h)
  BY <1>4, <1>5, <1>6 DEF PartialTo
<1> QED
  BY <1>7

LEMMA PartialExists ==
  ASSUME NEW X, NEW ss \in Seq(Seq(X))
  PROVE  \E h : Partial(X, ss, h)
<1> DEFINE P == {k \in Nat : k <= Len(ss) => \E g : PartialTo(X, ss, k, g)}
<1>1. 0 \in P
  <2>1. PartialTo(X, ss, 0, [i \in 0..0 |-> <<>>])
    BY DEF PartialTo
  <2> QED
    BY <2>1
<1>2. \A k \in P : k + 1 \in P
  <2> TAKE k \in P
  <2>1. k \in Nat /\ (k <= Len(ss) => \E g : PartialTo(X, ss, k, g))
    OBVIOUS
  <2>2. ASSUME k + 1 <= Len(ss) PROVE \E g : PartialTo(X, ss, k + 1, g)
    <3> HIDE DEF P
    <3>1. PICK g : PartialTo(X, ss, k, g)
      BY <2>1, <2>2
    <3>2. ss[k + 1] \in Seq(X)
      BY <2>1, <2>2, ElementOfSeq
    <3> QED
      BY <2>1, <3>1, <3>2, PartialExtends
  <2> QED
    BY <2>1, <2>2
<1> HIDE DEF P
<1>3. Nat \subseteq P
  BY <1>1, <1>2, Induction DEF P
<1> QED
  BY <1>3 DEF P, Partial

LEMMA FlattenType ==
  ASSUME NEW X, NEW ss \in Seq(Seq(X))
  PROVE  FlattenSeq(ss) \in Seq(X)
<1>1. PICK h : Partial(X, ss, h)
  BY PartialExists
<1>2. FlattenSeq(ss) = h[Len(ss)] /\ Len(ss) \in 0..Len(ss)
  BY <1>1, FlattenIs
<1> QED
  BY <1>1, <1>2 DEF Partial, PartialTo

LEMMA FlattenOne ==
  ASSUME NEW X, NEW s \in Seq(X)
  PROVE  FlattenSeq(<<s>>) = s
<1> DEFINE h == [i \in 0..1 |-> IF i = 0 THEN <<>> ELSE s]
<1>1. <<s>> \in Seq(Seq(X)) /\ Len(<<s>>) = 1 /\ <<s>>[1] = s
  OBVIOUS
<1>2. <<>> \o s = s
  BY ConcatEmptySeq
<1>3. Partial(X, <<s>>, h)
  <2>1. h \in [0..1 -> Seq(X)] /\ h[0] = <<>> /\ h[1] = s
    OBVIOUS
  <2>2. \A i \in 1..1 : i = 1 /\ i - 1 = 0
    OBVIOUS
  <2>3. \A i \in 1..1 : h[i] = h[i - 1] \o <<s>>[i]
    BY <2>1, <2>2, <1>1, <1>2
  <2> QED
    BY <2>1, <2>3, <1>1 DEF Partial, PartialTo
<1> HIDE DEF h
<1>4. FlattenSeq(<<s>>) = h[1]
  BY <1>1, <1>3, FlattenIs
<1> QED
  BY <1>4 DEF h

LEMMA FlattenConcat ==
  ASSUME NEW X, NEW s \in Seq(Seq(X)), NEW t \in Seq(Seq(X))
  PROVE  FlattenSeq(s \o t) = FlattenSeq(s) \o FlattenSeq(t)
<1>1. PICK g : Partial(X, s, g)
  BY PartialExists
<1>2. PICK h : Partial(X, t, h)
  BY PartialExists
<1> DEFINE m == Len(s)
           n == Len(t)
           e == [i \in 0..(m + n) |-> IF i <= m THEN g[i] ELSE g[m] \o h[i - m]]
<1>3. m \in Nat /\ n \in Nat
  OBVIOUS
<1>4. /\ s \o t \in Seq(Seq(X)) /\ Len(s \o t) = m + n
      /\ \A i \in 1..(m + n) : (s \o t)[i] = IF i <= m THEN s[i] ELSE t[i - m]
  BY ConcatProperties, <1>3
<1>5. (\A i \in 0..m : g[i] \in Seq(X)) /\ \A i \in 0..n : h[i] \in Seq(X)
  BY <1>1, <1>2 DEF Partial, PartialTo
<1>5a. g[m] \in Seq(X)
  BY <1>5, <1>3
<1>6. e \in [0..(m + n) -> Seq(X)]
  <2>1. \A i \in 0..(m + n) : (IF i <= m THEN g[i] ELSE g[m] \o h[i - m]) \in Seq(X)
    <3> TAKE i \in 0..(m + n)
    <3>1. CASE i <= m
      <4>1. i \in 0..m
        BY <3>1, <1>3
      <4> QED
        BY <4>1, <3>1, <1>5
    <3>2. CASE ~(i <= m)
      <4>1. i - m \in 0..n
        BY <3>2, <1>3
      <4>2. h[i - m] \in Seq(X)
        BY <4>1, <1>5
      <4>3. g[m] \o h[i - m] \in Seq(X)
        BY <4>2, <1>5a, ConcatProperties
      <4> QED
        BY <4>3, <3>2
    <3> QED
      BY <3>1, <3>2
  <2> QED
    BY <2>1
<1>7. e[0] = <<>>
  BY <1>1, <1>3 DEF Partial, PartialTo
<1>8. \A i \in 1..(m + n) : e[i] = e[i - 1] \o (s \o t)[i]
  <2> TAKE i \in 1..(m + n)
  <2>1. CASE i <= m
    <3>1. e[i] = g[i] /\ e[i - 1] = g[i - 1] /\ i \in 1..m
      BY <2>1, <1>3
    <3>2. (s \o t)[i] = s[i]
      BY <2>1, <1>4
    <3>3. g[i] = g[i - 1] \o s[i]
      BY <3>1, <1>1 DEF Partial, PartialTo
    <3> QED
      BY <3>1, <3>2, <3>3
  <2>2. CASE ~(i <= m)
    <3>1. i - m \in 1..n /\ (i - m) - 1 \in 0..n /\ (i - 1) - m = (i - m) - 1
      BY <2>2, <1>3
    <3>2. e[i] = g[m] \o h[i - m] /\ (s \o t)[i] = t[i - m]
      <4>1. i \in 0..(m + n)
        BY <1>3
      <4> QED
        BY <4>1, <2>2, <1>4
    <3>3. h[i - m] = h[(i - m) - 1] \o t[i - m] /\ t[i - m] \in Seq(X)
      BY <3>1, <1>2, ElementOfSeq DEF Partial, PartialTo
    <3>4. h[(i - m) - 1] \in Seq(X)
      BY <3>1, <1>5
    <3>7. h[i - m] \in Seq(X)
      BY <3>1, <1>5
    <3>5. g[m] \o (h[(i - m) - 1] \o t[i - m]) = (g[m] \o h[(i - m) - 1]) \o t[i - m]
      <4> DEFINE a == g[m]
                 b == h[(i - m) - 1]
                 c == t[i - m]
      <4>1. a \in Seq(X) /\ b \in Seq(X) /\ c \in Seq(X)
        BY <3>3, <3>4, <1>5a
      <4> HIDE DEF a, b, c
      <4>2. a \o (b \o c) = (a \o b) \o c
        <5>1. Assoc(a, b, c)
          BY <4>1, ConcatAssoc
        <5> QED
          BY <5>1 DEF Assoc
      <4> QED
        BY <4>2 DEF a, b, c
    <3>6. e[i - 1] = g[m] \o h[(i - m) - 1]
      <4>1. CASE i = m + 1
        <5>1. (i - m) - 1 = 0 /\ i - 1 = m
          BY <4>1, <1>3
        <5>2. h[(i - m) - 1] = <<>>
          BY <5>1, <1>2 DEF Partial, PartialTo
        <5>3. g[m] \o <<>> = g[m]
          BY <1>5a, ConcatEmptySeq
        <5>4. e[m] = g[m]
          BY <1>3
        <5> QED
          BY <5>1, <5>2, <5>3, <5>4
      <4>2. CASE i # m + 1
        <5>1. ~(i - 1 <= m) /\ i - 1 \in 0..(m + n)
          BY <4>2, <2>2, <1>3
        <5>2. e[i - 1] = g[m] \o h[(i - 1) - m]
          BY <5>1
        <5> QED
          BY <5>2, <3>1
      <4> QED
        BY <4>1, <4>2
    <3> QED
      BY <3>2, <3>3, <3>5, <3>6
  <2> QED
    BY <2>1, <2>2
<1> HIDE DEF e
<1>9. Partial(X, s \o t, e)
  BY <1>4, <1>6, <1>7, <1>8 DEF Partial, PartialTo
<1>10. FlattenSeq(s \o t) = e[m + n]
  BY <1>9, <1>4, FlattenIs
<1>11. FlattenSeq(s) = g[m] /\ FlattenSeq(t) = h[n]
  BY <1>1, <1>2, FlattenIs
<1>12. e[m + n] = g[m] \o h[n]
  <2>1. CASE n = 0
    <3>1. h[n] = <<>> /\ e[m + n] = g[m]
      BY <2>1, <1>2, <1>3 DEF Partial, PartialTo, e
    <3> QED
      BY <3>1, <1>5a, ConcatEmptySeq
  <2>2. CASE n # 0
    <3>1. ~(m + n <= m) /\ (m + n) - m = n /\ m + n \in 0..(m + n)
      BY <2>2, <1>3
    <3> QED
      BY <3>1 DEF e
  <2> QED
    BY <2>1, <2>2
<1> QED
  BY <1>10, <1>11, <1>12

-----------------------------------------------------------------------------
(* The bytes of a frame *)

AllPairs == Requests \X Nat

\* The bytes of the first inputs, up to n of them.
BytesTo(inputs, n, h) ==
  /\ h \in [0..n -> Nat]
  /\ h[0] = 0
  /\ \A i \in 1..n : h[i] = h[i - 1] + shape[inputs[i][1]].size

\* What DispatchAssumption says of the requests.
LEMMA ShapeFacts ==
  ASSUME shape \in Mixes
  PROVE  \A r \in Requests : /\ shape[r].units \in Nat \ {0} /\ shape[r].size \in Nat
                             /\ shape[r].cap \in Nat
BY DispatchAssumption DEF DispatchAssumption

LEMMA BytesIs ==
  ASSUME NEW inputs \in Seq(AllPairs), NEW h, BytesTo(inputs, Len(inputs), h)
  PROVE  Bytes(inputs) = h[Len(inputs)]
<1> DEFINE n == Len(inputs)
           Eq(g) == g = [i \in 0..n |-> IF i = 0 THEN 0
                                        ELSE g[i - 1] + shape[inputs[i][1]].size]
           g0 == [i \in 0..n |-> h[i]]
<1>1. n \in Nat
  OBVIOUS
<1>2. Eq(g0)
  <2>1. \A i \in 0..n : h[i] = IF i = 0 THEN 0 ELSE g0[i - 1] + shape[inputs[i][1]].size
    <3> TAKE i \in 0..n
    <3>1. CASE i = 0
      BY <3>1 DEF BytesTo
    <3>2. CASE i # 0
      <4>1. i \in 1..n /\ i - 1 \in 0..n
        BY <1>1, <3>2
      <4>2. h[i] = h[i - 1] + shape[inputs[i][1]].size
        BY <4>1 DEF BytesTo
      <4> QED
        BY <4>1, <4>2, <3>2
    <3> QED
      BY <3>1, <3>2
  <2> QED
    BY <2>1
<1>3. Bytes(inputs) = (CHOOSE g : Eq(g))[n]
  BY DEF Bytes
<1>4. Eq(CHOOSE g : Eq(g))
  <2> HIDE DEF Eq
  <2> QED
    BY <1>2
<1>5. PICK g : Eq(g) /\ Bytes(inputs) = g[n]
  <2> DEFINE c == CHOOSE g : Eq(g)
  <2>1. Eq(c) /\ Bytes(inputs) = c[n]
    BY <1>3, <1>4
  <2> HIDE DEF c, Eq
  <2> QED
    BY <2>1
<1>6. g[0] = h[0]
  BY <1>1, <1>5 DEF BytesTo
<1>7. \A i \in 1..n : g[i - 1] = h[i - 1] => g[i] = h[i]
  <2> SUFFICES ASSUME NEW i \in 1..n, g[i - 1] = h[i - 1] PROVE g[i] = h[i]
    OBVIOUS
  <2>1. i \in 0..n /\ i # 0
    BY <1>1
  <2>2. g[i] = g[i - 1] + shape[inputs[i][1]].size
    BY <2>1, <1>5
  <2>3. h[i] = h[i - 1] + shape[inputs[i][1]].size
    BY DEF BytesTo
  <2> QED
    BY <2>2, <2>3
<1> HIDE DEF n, Eq, g0
<1>8. \A i \in 0..n : g[i] = h[i]
  <2>1. n \in Nat /\ SameSteps(n, g, h)
    BY <1>1, <1>6, <1>7 DEF SameSteps
  <2>2. SameUpTo(n, g, h)
    BY <2>1, PrefixAgree
  <2> QED
    BY <2>2 DEF SameUpTo
<1> QED
  BY <1>1, <1>5, <1>8 DEF n

LEMMA BytesExtends ==
  ASSUME NEW inputs, NEW k \in Nat, NEW g, BytesTo(inputs, k, g),
         shape[inputs[k + 1][1]].size \in Nat
  PROVE  \E h : BytesTo(inputs, k + 1, h)
<1> DEFINE last == g[k] + shape[inputs[k + 1][1]].size
           h == [i \in 0..(k + 1) |-> IF i <= k THEN g[i] ELSE last]
<1>2. /\ \A i \in 0..k : g[i] \in Nat
      /\ g[0] = 0
      /\ \A i \in 1..k : g[i] = g[i - 1] + shape[inputs[i][1]].size
  BY DEF BytesTo
<1>3. last \in Nat
  BY <1>2
<1>4. h \in [0..(k + 1) -> Nat]
  <2> HIDE DEF last
  <2>1. \A i \in 0..(k + 1) : (IF i <= k THEN g[i] ELSE last) \in Nat
    <3> TAKE i \in 0..(k + 1)
    <3>1. i <= k => i \in 0..k
      OBVIOUS
    <3> QED
      BY <3>1, <1>2, <1>3
  <2> QED
    BY <2>1
<1>5. h[0] = 0
  BY <1>2
<1>6. \A i \in 1..(k + 1) : h[i] = h[i - 1] + shape[inputs[i][1]].size
  <2> TAKE i \in 1..(k + 1)
  <2>1. CASE i <= k
    <3>1. h[i] = g[i] /\ h[i - 1] = g[i - 1] /\ i \in 1..k
      BY <2>1
    <3>2. g[i] = g[i - 1] + shape[inputs[i][1]].size
      BY <3>1, <1>2
    <3> HIDE DEF h
    <3> QED
      BY <3>1, <3>2
  <2>2. CASE ~(i <= k)
    <3>1. i = k + 1 /\ i - 1 = k
      BY <2>2
    <3>2. h[k + 1] = last /\ h[k] = g[k]
      OBVIOUS
    <3> HIDE DEF h
    <3>3. h[i - 1] + shape[inputs[i][1]].size = last
      BY <3>1, <3>2
    <3> QED
      BY <3>1, <3>2, <3>3
  <2> QED
    BY <2>1, <2>2
<1> HIDE DEF h
<1>7. BytesTo(inputs, k + 1, h)
  BY <1>4, <1>5, <1>6 DEF BytesTo
<1> QED
  BY <1>7

LEMMA BytesExist ==
  ASSUME shape \in Mixes, NEW inputs \in Seq(AllPairs)
  PROVE  \E h : BytesTo(inputs, Len(inputs), h)
<1> DEFINE P == {k \in Nat : k <= Len(inputs) => \E g : BytesTo(inputs, k, g)}
<1>1. 0 \in P
  <2>1. BytesTo(inputs, 0, [i \in 0..0 |-> 0])
    BY DEF BytesTo
  <2> QED
    BY <2>1
<1>2. \A k \in P : k + 1 \in P
  <2> TAKE k \in P
  <2>1. k \in Nat /\ (k <= Len(inputs) => \E g : BytesTo(inputs, k, g))
    OBVIOUS
  <2>2. ASSUME k + 1 <= Len(inputs) PROVE \E g : BytesTo(inputs, k + 1, g)
    <3> HIDE DEF P
    <3>1. PICK g : BytesTo(inputs, k, g)
      BY <2>1, <2>2
    <3>2. inputs[k + 1] \in AllPairs
      BY <2>1, <2>2, ElementOfSeq
    <3>3. shape[inputs[k + 1][1]].size \in Nat
      BY <3>2, ShapeFacts DEF AllPairs
    <3> QED
      BY <2>1, <3>1, <3>3, BytesExtends
  <2> QED
    BY <2>1, <2>2
<1> HIDE DEF P
<1>3. Nat \subseteq P
  BY <1>1, <1>2, Induction DEF P
<1> QED
  BY <1>3 DEF P

LEMMA BytesType ==
  ASSUME shape \in Mixes, NEW inputs \in Seq(AllPairs)
  PROVE  Bytes(inputs) \in Nat
<1>1. PICK h : BytesTo(inputs, Len(inputs), h)
  BY BytesExist
<1>2. Bytes(inputs) = h[Len(inputs)] /\ Len(inputs) \in 0..Len(inputs)
  BY <1>1, BytesIs
<1> QED
  BY <1>1, <1>2 DEF BytesTo

\* A frame carries the bytes of its parts.
LEMMA BytesConcat ==
  ASSUME shape \in Mixes, NEW s \in Seq(AllPairs), NEW t \in Seq(AllPairs)
  PROVE  Bytes(s \o t) = Bytes(s) + Bytes(t)
<1>1. PICK g : BytesTo(s, Len(s), g)
  BY BytesExist
<1>2. PICK h : BytesTo(t, Len(t), h)
  BY BytesExist
<1> DEFINE m == Len(s)
           n == Len(t)
           e == [i \in 0..(m + n) |-> IF i <= m THEN g[i] ELSE g[m] + h[i - m]]
<1>3. m \in Nat /\ n \in Nat
  OBVIOUS
<1>4. /\ s \o t \in Seq(AllPairs) /\ Len(s \o t) = m + n
      /\ \A i \in 1..(m + n) : (s \o t)[i] = IF i <= m THEN s[i] ELSE t[i - m]
  BY ConcatProperties, <1>3
<1>5. /\ \A i \in 0..m : g[i] \in Nat
      /\ \A i \in 0..n : h[i] \in Nat
      /\ g[0] = 0 /\ h[0] = 0
      /\ \A i \in 1..m : g[i] = g[i - 1] + shape[s[i][1]].size
      /\ \A i \in 1..n : h[i] = h[i - 1] + shape[t[i][1]].size
  BY <1>1, <1>2 DEF BytesTo
<1>6. g[m] \in Nat /\ h[n] \in Nat
  BY <1>3, <1>5
<1>7. \A i \in 1..m : shape[s[i][1]].size \in Nat
  <2> TAKE i \in 1..m
  <2>1. s[i] \in AllPairs
    BY ElementOfSeq
  <2> QED
    BY <2>1, ShapeFacts DEF AllPairs
<1>8. \A i \in 1..n : shape[t[i][1]].size \in Nat
  <2> TAKE i \in 1..n
  <2>1. t[i] \in AllPairs
    BY ElementOfSeq
  <2> QED
    BY <2>1, ShapeFacts DEF AllPairs
<1> HIDE DEF m, n
<1>9. \A i \in 0..(m + n) : e[i] \in Nat
  <2> TAKE i \in 0..(m + n)
  <2>1. CASE i <= m
    <3>1. i \in 0..m
      BY <2>1, <1>3
    <3> QED
      BY <3>1, <2>1, <1>5
  <2>2. CASE ~(i <= m)
    <3>1. i - m \in 0..n
      BY <2>2, <1>3
    <3>2. h[i - m] \in Nat
      BY <3>1, <1>5
    <3> QED
      BY <3>2, <2>2, <1>6
  <2> QED
    BY <2>1, <2>2
<1>10. e[0] = 0
  BY <1>3, <1>5
<1>11. \A i \in 1..(m + n) : e[i] = e[i - 1] + shape[(s \o t)[i][1]].size
  <2> TAKE i \in 1..(m + n)
  <2>1. CASE i <= m
    <3>1. e[i] = g[i] /\ e[i - 1] = g[i - 1] /\ i \in 1..m
      BY <2>1, <1>3
    <3>2. (s \o t)[i] = s[i]
      BY <2>1, <1>4
    <3>3. g[i] = g[i - 1] + shape[s[i][1]].size
      BY <3>1, <1>5
    <3> HIDE DEF e
    <3> QED
      BY <3>1, <3>2, <3>3
  <2>2. CASE ~(i <= m)
    <3>1. /\ i - m \in 1..n /\ (i - m) - 1 \in 0..n /\ (i - 1) - m = (i - m) - 1
          /\ i \in 0..(m + n) /\ i - 1 \in 0..(m + n)
      BY <2>2, <1>3
    <3>2. e[i] = g[m] + h[i - m] /\ (s \o t)[i] = t[i - m]
      BY <2>2, <1>4, <3>1
    <3>3. h[i - m] = h[(i - m) - 1] + shape[t[i - m][1]].size
      BY <3>1, <1>5
    <3>4. h[(i - m) - 1] \in Nat /\ shape[t[i - m][1]].size \in Nat
      BY <3>1, <1>5, <1>8
    <3>5. e[i - 1] = g[m] + h[(i - m) - 1]
      <4>1. CASE i = m + 1
        <5>1. (i - m) - 1 = 0 /\ i - 1 = m /\ e[m] = g[m]
          BY <4>1, <1>3
        <5> HIDE DEF e
        <5> QED
          BY <5>1, <1>5, <1>6
      <4>2. CASE i # m + 1
        <5>1. ~(i - 1 <= m)
          BY <4>2, <2>2, <1>3
        <5>2. e[i - 1] = g[m] + h[(i - 1) - m]
          BY <5>1, <3>1
        <5> HIDE DEF e
        <5> QED
          BY <5>2, <3>1
      <4> QED
        BY <4>1, <4>2
    <3> HIDE DEF e
    <3>6. e[i - 1] + shape[(s \o t)[i][1]].size = (g[m] + h[(i - m) - 1]) + shape[t[i - m][1]].size
      BY <3>2, <3>5
    <3>7. e[i] = g[m] + (h[(i - m) - 1] + shape[t[i - m][1]].size)
      BY <3>2, <3>3
    <3> DEFINE a == g[m]
               b == h[(i - m) - 1]
               c == shape[t[i - m][1]].size
    <3>8. a \in Nat /\ b \in Nat /\ c \in Nat
      BY <3>4, <1>6
    <3>9. /\ e[i - 1] + shape[(s \o t)[i][1]].size = (a + b) + c
          /\ e[i] = a + (b + c)
      BY <3>6, <3>7
    <3> HIDE DEF a, b, c
    <3>10. (a + b) + c = a + (b + c)
      BY <3>8
    <3> DEFINE u == e[i]
               v == e[i - 1] + shape[(s \o t)[i][1]].size
    <3>11. u = a + (b + c) /\ v = (a + b) + c
      BY <3>9
    <3> HIDE DEF u, v
    <3>12. u = v
      BY <3>10, <3>11
    <3> QED
      BY <3>12 DEF u, v
  <2> QED
    BY <2>1, <2>2
<1>12. e \in [0..(m + n) -> Nat]
  <2>1. e = [i \in 0..(m + n) |-> e[i]]
    OBVIOUS
  <2> HIDE DEF e
  <2> QED
    BY <2>1, <1>9
<1>13. e[m + n] = g[m] + h[n]
  <2>1. CASE n = 0
    BY <2>1, <1>3, <1>5, <1>6
  <2>2. CASE n # 0
    <3>1. ~(m + n <= m) /\ (m + n) - m = n /\ m + n \in 0..(m + n)
      BY <2>2, <1>3
    <3> QED
      BY <3>1
  <2> QED
    BY <2>1, <2>2
<1> HIDE DEF e
<1>14. BytesTo(s \o t, Len(s \o t), e)
  BY <1>4, <1>10, <1>11, <1>12 DEF BytesTo
<1>15. Bytes(s \o t) = e[m + n]
  BY <1>4, <1>14, BytesIs
<1>16. Bytes(s) = g[m] /\ Bytes(t) = h[n]
  BY <1>1, <1>2, BytesIs DEF m, n
<1> QED
  BY <1>13, <1>15, <1>16

-----------------------------------------------------------------------------
(* The inputs of a window *)

LEMMA SplitConcat ==
  ASSUME NEW X, NEW s \in Seq(X), NEW t \in Seq(X)
  PROVE  /\ SubSeq(s \o t, 1, Len(s)) = s
         /\ SubSeq(s \o t, Len(s) + 1, Len(s \o t)) = t
<1> DEFINE m == Len(s)
           n == Len(t)
           st == s \o t
<1>1. m \in Nat /\ n \in Nat
  OBVIOUS
<1>2. /\ st \in Seq(X) /\ Len(st) = m + n
      /\ \A i \in 1..(m + n) : st[i] = IF i <= m THEN s[i] ELSE t[i - m]
  BY ConcatProperties, <1>1
<1>3. \A i \in 1..(m + n) : st[i] \in X
  BY <1>2, ElementOfSeq
<1> DEFINE a == SubSeq(st, 1, m)
           b == SubSeq(st, m + 1, m + n)
<1>4. /\ a \in Seq(X) /\ Len(a) = m
      /\ \A i \in 1..m : a[i] = st[i]
  <2> HIDE DEF st, m
  <2>1. \A i \in 1..m : st[i] \in X
    BY <1>1, <1>3
  <2>2. /\ a \in Seq(X)
        /\ Len(a) = IF 1 <= m THEN m - 1 + 1 ELSE 0
        /\ \A i \in 1..(m - 1 + 1) : a[i] = st[1 + i - 1]
    BY <2>1, <1>1, SubSeqProperties
  <2> HIDE DEF a
  <2> QED
    BY <2>2, <1>1
<1>5. /\ b \in Seq(X) /\ Len(b) = n
      /\ \A i \in 1..n : b[i] = st[m + i]
  <2> HIDE DEF st, m, n
  <2>1. \A i \in (m + 1)..(m + n) : st[i] \in X
    BY <1>1, <1>3
  <2>2. m + 1 \in Int /\ m + n \in Int
    BY <1>1
  <2>3. /\ b \in Seq(X)
        /\ Len(b) = IF m + 1 <= m + n THEN (m + n) - (m + 1) + 1 ELSE 0
        /\ \A i \in 1..((m + n) - (m + 1) + 1) : b[i] = st[(m + 1) + i - 1]
    BY <2>1, <2>2, SubSeqProperties
  <2>4. (m + n) - (m + 1) + 1 = n /\ \A i \in 1..n : (m + 1) + i - 1 = m + i
    BY <1>1
  <2> HIDE DEF b
  <2>5. \A i \in 1..n : b[i] = st[m + i]
    BY <2>3, <2>4
  <2>6. Len(b) = n
    BY <2>3, <2>4, <1>1
  <2> QED
    BY <2>3, <2>5, <2>6
<1>6. a = s
  <2>1. \A i \in 1..m : a[i] = s[i]
    <3> TAKE i \in 1..m
    <3>1. i \in 1..(m + n) /\ i <= m
      BY <1>1
    <3> QED
      BY <3>1, <1>2, <1>4
  <2> HIDE DEF a
  <2> QED
    BY <2>1, <1>4, SeqEqual
<1>7. b = t
  <2>1. \A i \in 1..n : b[i] = t[i]
    <3> TAKE i \in 1..n
    <3>1. m + i \in 1..(m + n) /\ ~(m + i <= m) /\ (m + i) - m = i
      BY <1>1
    <3> HIDE DEF b, st
    <3> QED
      BY <3>1, <1>2, <1>5
  <2> HIDE DEF b
  <2> QED
    BY <2>1, <1>5, SeqEqual
<1> QED
  BY <1>2, <1>6, <1>7

LEMMA InputsType ==
  ASSUME shape \in Mixes, NEW r \in Requests
  PROVE  /\ Inputs(r) \in Seq(AllPairs)
         /\ Len(Inputs(r)) = shape[r].units
         /\ Inputs(r) # <<>>
         /\ \A i \in DOMAIN Inputs(r) : Inputs(r)[i] = <<r, i>>
<1> DEFINE n == shape[r].units
<1>1. n \in Nat \ {0}
  BY ShapeFacts
<1> HIDE DEF n
<1>2. \A i \in 1..n : <<r, i>> \in AllPairs
  BY <1>1 DEF AllPairs
<1>3. [i \in 1..n |-> <<r, i>>] \in Seq(AllPairs) /\ Len([i \in 1..n |-> <<r, i>>]) = n
  BY <1>1, <1>2
<1>4. Inputs(r) = [i \in 1..n |-> <<r, i>>]
  BY DEF Inputs, n
<1> QED
  BY <1>1, <1>3, <1>4 DEF n

\* The sequences that AllInputs flattens.
WindowInputs(window) == [i \in DOMAIN window |-> Inputs(window[i])]

LEMMA PartsType ==
  ASSUME shape \in Mixes, NEW window \in Seq(Requests)
  PROVE  /\ WindowInputs(window) \in Seq(Seq(AllPairs))
         /\ Len(WindowInputs(window)) = Len(window)
         /\ \A i \in 1..Len(window) : WindowInputs(window)[i] = Inputs(window[i])
<1> DEFINE n == Len(window)
<1>1. n \in Nat /\ DOMAIN window = 1..n
  OBVIOUS
<1>2. \A i \in 1..n : Inputs(window[i]) \in Seq(AllPairs)
  <2> TAKE i \in 1..n
  <2>1. window[i] \in Requests
    BY ElementOfSeq
  <2> QED
    BY <2>1, InputsType
<1>3. WindowInputs(window) = [i \in 1..n |-> Inputs(window[i])]
  BY <1>1 DEF WindowInputs
<1> HIDE DEF n
<1>4. [i \in 1..n |-> Inputs(window[i])] \in Seq(Seq(AllPairs))
  BY <1>1, <1>2
<1>5. Len([i \in 1..n |-> Inputs(window[i])]) = n
  BY <1>1
<1> QED
  BY <1>3, <1>4, <1>5 DEF n

LEMMA AllInputsType ==
  ASSUME shape \in Mixes, NEW window \in Seq(Requests)
  PROVE  AllInputs(window) \in Seq(AllPairs)
<1>1. WindowInputs(window) \in Seq(Seq(AllPairs))
  BY PartsType
<1>2. FlattenSeq(WindowInputs(window)) \in Seq(AllPairs)
  BY <1>1, FlattenType
<1> QED
  BY <1>2 DEF AllInputs, WindowInputs

LEMMA AllInputsOfOne ==
  ASSUME shape \in Mixes, NEW r \in Requests
  PROVE  AllInputs(<<r>>) = Inputs(r)
<1>1. <<r>> \in Seq(Requests) /\ Len(<<r>>) = 1 /\ <<r>>[1] = r
  OBVIOUS
<1>2. /\ WindowInputs(<<r>>) \in Seq(Seq(AllPairs))
      /\ Len(WindowInputs(<<r>>)) = 1 /\ WindowInputs(<<r>>)[1] = Inputs(r)
  <2> DEFINE w == <<r>>
  <2>1. w \in Seq(Requests) /\ Len(w) = 1 /\ w[1] = r
    BY <1>1
  <2> HIDE DEF w
  <2>2. /\ WindowInputs(w) \in Seq(Seq(AllPairs)) /\ Len(WindowInputs(w)) = Len(w)
        /\ \A i \in 1..Len(w) : WindowInputs(w)[i] = Inputs(w[i])
    BY <2>1, PartsType
  <2>3. WindowInputs(w) \in Seq(Seq(AllPairs)) /\ Len(WindowInputs(w)) = 1 /\ WindowInputs(w)[1] = Inputs(r)
    BY <2>1, <2>2
  <2> QED
    BY <2>3 DEF w
<1>3. Inputs(r) \in Seq(AllPairs)
  BY InputsType
<1>4. WindowInputs(<<r>>) = <<Inputs(r)>>
  <2> DEFINE p == WindowInputs(<<r>>)
             c == Inputs(r)
             S == Seq(AllPairs)
  <2>1. p \in Seq(S) /\ Len(p) = 1 /\ p[1] = c /\ c \in S
    BY <1>2, <1>3
  <2> HIDE DEF p, c, S
  <2>2. <<c>> \in Seq(S) /\ Len(<<c>>) = 1 /\ <<c>>[1] = c
    BY <2>1
  <2>3. \A i \in 1..1 : p[i] = <<c>>[i]
    BY <2>1, <2>2
  <2>4. p = <<c>>
    BY <2>1, <2>2, <2>3, SeqEqual
  <2> QED
    BY <2>4 DEF p, c
<1>5. FlattenSeq(<<Inputs(r)>>) = Inputs(r)
  BY <1>3, FlattenOne
<1> QED
  BY <1>4, <1>5 DEF AllInputs, WindowInputs

LEMMA AllInputsConcat ==
  ASSUME shape \in Mixes, NEW s \in Seq(Requests), NEW t \in Seq(Requests)
  PROVE  AllInputs(s \o t) = AllInputs(s) \o AllInputs(t)
<1> DEFINE ps == WindowInputs(s)
           pt == WindowInputs(t)
           pst == WindowInputs(s \o t)
           S == Seq(AllPairs)
<1>1. /\ s \o t \in Seq(Requests) /\ Len(s \o t) = Len(s) + Len(t)
      /\ \A i \in 1..(Len(s) + Len(t)) :
           (s \o t)[i] = IF i <= Len(s) THEN s[i] ELSE t[i - Len(s)]
  BY ConcatProperties
<1>2. /\ ps \in Seq(S) /\ Len(ps) = Len(s)
      /\ \A i \in 1..Len(s) : ps[i] = Inputs(s[i])
  BY PartsType
<1>3. /\ pt \in Seq(S) /\ Len(pt) = Len(t)
      /\ \A i \in 1..Len(t) : pt[i] = Inputs(t[i])
  BY PartsType
<1>4. /\ pst \in Seq(S) /\ Len(pst) = Len(s) + Len(t)
      /\ \A i \in 1..(Len(s) + Len(t)) : pst[i] = Inputs((s \o t)[i])
  BY <1>1, PartsType
<1> HIDE DEF ps, pt, pst, S
<1>5. /\ ps \o pt \in Seq(S) /\ Len(ps \o pt) = Len(s) + Len(t)
      /\ \A i \in 1..(Len(s) + Len(t)) :
           (ps \o pt)[i] = IF i <= Len(s) THEN ps[i] ELSE pt[i - Len(s)]
  <2>1. /\ ps \o pt \in Seq(S) /\ Len(ps \o pt) = Len(ps) + Len(pt)
        /\ \A i \in 1..(Len(ps) + Len(pt)) :
             (ps \o pt)[i] = IF i <= Len(ps) THEN ps[i] ELSE pt[i - Len(ps)]
    <3>1. ps \in Seq(S) /\ pt \in Seq(S)
      BY <1>2, <1>3
    <3> QED
      BY <3>1, ConcatProperties
  <2>2. Len(ps) = Len(s) /\ Len(pt) = Len(t)
    BY <1>2, <1>3
  <2> QED
    BY <2>1, <2>2
<1>6. \A i \in 1..(Len(s) + Len(t)) : pst[i] = (ps \o pt)[i]
  <2> TAKE i \in 1..(Len(s) + Len(t))
  <2>1. CASE i <= Len(s)
    <3>1. i \in 1..Len(s)
      BY <2>1
    <3> QED
      BY <3>1, <2>1, <1>1, <1>2, <1>4, <1>5
  <2>2. CASE ~(i <= Len(s))
    <3>1. i - Len(s) \in 1..Len(t)
      BY <2>2
    <3> QED
      BY <3>1, <2>2, <1>1, <1>3, <1>4, <1>5
  <2> QED
    BY <2>1, <2>2
<1>7. pst = ps \o pt
  BY <1>4, <1>5, <1>6, SeqEqual
<1>8. FlattenSeq(ps \o pt) = FlattenSeq(ps) \o FlattenSeq(pt)
  <2>1. ps \in Seq(Seq(AllPairs)) /\ pt \in Seq(Seq(AllPairs))
    BY <1>2, <1>3 DEF S
  <2> QED
    BY <2>1, FlattenConcat
<1>9. AllInputs(s) = FlattenSeq(ps) /\ AllInputs(t) = FlattenSeq(pt)
      /\ AllInputs(s \o t) = FlattenSeq(pst)
  BY DEF AllInputs, WindowInputs, ps, pt, pst
<1> QED
  BY <1>7, <1>8, <1>9

\* A window in three parts: before one of its requests, the request, after it.
LEMMA WindowParts ==
  ASSUME NEW X, NEW window \in Seq(X), NEW i \in DOMAIN window
  PROVE  /\ SubSeq(window, 1, i - 1) \in Seq(X)
         /\ SubSeq(window, i + 1, Len(window)) \in Seq(X)
         /\ <<window[i]>> \in Seq(X)
         /\ window = SubSeq(window, 1, i - 1)
                       \o (<<window[i]>> \o SubSeq(window, i + 1, Len(window)))
<1> DEFINE n == Len(window)
           a == SubSeq(window, 1, i - 1)
           b == SubSeq(window, i + 1, n)
           c == SubSeq(window, i, n)
<1>1. n \in Nat /\ i \in 1..n
  BY LenProperties
<1>2. \A j \in 1..n : window[j] \in X
  BY ElementOfSeq
<1>3. a \in Seq(X)
  <2>1. \A j \in 1..(i - 1) : window[j] \in X
    BY <1>1, <1>2
  <2> QED
    BY <2>1, <1>1, SubSeqProperties
<1>4. b \in Seq(X)
  <2>1. \A j \in (i + 1)..n : window[j] \in X
    BY <1>1, <1>2
  <2> QED
    BY <2>1, <1>1, SubSeqProperties
<1>5. <<window[i]>> \in Seq(X)
  BY <1>1, <1>2
<1>6. c = <<window[i]>> \o b
  <2>1. i \in 1..Len(window) /\ n \in i..Len(window)
    BY <1>1
  <2> QED
    BY <2>1, SubSeqRecursiveFirst
<1>7. a \o c = window
  <2> DEFINE k == i - 1
  <2>1. 1 \in 1..(Len(window) + 1) /\ k \in (1 - 1)..Len(window) /\ n \in k..Len(window)
    BY <1>1
  <2>2. k + 1 = i
    BY <1>1
  <2>3. SubSeq(window, 1, k) \o SubSeq(window, k + 1, n) = SubSeq(window, 1, n)
    <3> HIDE DEF k, n
    <3> QED
      BY <2>1, ConcatAdjacentSubSeq
  <2>4. SubSeq(window, 1, n) = window
    BY SubSeqFull
  <2> QED
    BY <2>2, <2>3, <2>4
<1> QED
  BY <1>3, <1>4, <1>5, <1>6, <1>7

\* What a merged frame carries: the inputs before a request, its own, the rest.
LEMMA AllInputsParts ==
  ASSUME shape \in Mixes, NEW window \in Seq(Requests), NEW i \in DOMAIN window
  PROVE  LET before == AllInputs(SubSeq(window, 1, i - 1))
             own == Inputs(window[i])
             after == AllInputs(SubSeq(window, i + 1, Len(window)))
         IN  /\ window[i] \in Requests
             /\ before \in Seq(AllPairs) /\ own \in Seq(AllPairs)
             /\ after \in Seq(AllPairs)
             /\ AllInputs(window) = before \o (own \o after)
<1> DEFINE a == SubSeq(window, 1, i - 1)
           b == SubSeq(window, i + 1, Len(window))
           r == window[i]
           c == <<r>>
<1>1. /\ a \in Seq(Requests) /\ b \in Seq(Requests)
      /\ c \in Seq(Requests) /\ window = a \o (c \o b)
  BY WindowParts
<1>2. r \in Requests
  <2>1. i \in 1..Len(window)
    BY LenProperties
  <2> QED
    BY <2>1, ElementOfSeq
<1>3. AllInputs(c) = Inputs(r)
  BY <1>2, AllInputsOfOne
<1> HIDE DEF a, b, c, r
<1>4. c \o b \in Seq(Requests)
  BY <1>1, ConcatProperties
<1>5. AllInputs(a \o (c \o b)) = AllInputs(a) \o AllInputs(c \o b)
  BY <1>1, <1>4, AllInputsConcat
<1>6. AllInputs(c \o b) = AllInputs(c) \o AllInputs(b)
  BY <1>1, AllInputsConcat
<1>7. /\ AllInputs(a) \in Seq(AllPairs) /\ AllInputs(b) \in Seq(AllPairs)
      /\ Inputs(r) \in Seq(AllPairs)
  BY <1>1, <1>2, AllInputsType, InputsType
<1>8. AllInputs(window) = AllInputs(a) \o (Inputs(r) \o AllInputs(b))
  BY <1>1, <1>3, <1>5, <1>6
<1> QED
  BY <1>2, <1>7, <1>8 DEF a, b, r

\* The cut of a merged answer is the request's own.
LEMMA SliceIs ==
  ASSUME shape \in Mixes, NEW window \in Seq(Requests), NEW i \in DOMAIN window
  PROVE  Slice(window, i, AllInputs(window)) = Inputs(window[i])
<1> DEFINE b == AllInputs(SubSeq(window, 1, i - 1))
           o == Inputs(window[i])
           a == AllInputs(SubSeq(window, i + 1, Len(window)))
           n == Len(b)
           k == shape[window[i]].units
<1>1. /\ window[i] \in Requests
      /\ b \in Seq(AllPairs) /\ o \in Seq(AllPairs) /\ a \in Seq(AllPairs)
      /\ AllInputs(window) = b \o (o \o a)
  BY AllInputsParts
<1>2. k = Len(o) /\ k \in Nat \ {0}
  BY <1>1, InputsType, ShapeFacts
<1>3. Slice(window, i, AllInputs(window)) = SubSeq(AllInputs(window), n + 1, n + k)
  BY DEF Slice
<1> HIDE DEF a, b, o, k
<1>4. n \in Nat
  BY <1>1
<1>5. o \o a \in Seq(AllPairs) /\ Len(o \o a) = k + Len(a)
  BY <1>1, <1>2, ConcatProperties
<1>6. SubSeq(b \o (o \o a), n + 1, n + k) = SubSeq(o \o a, 1, k)
  <2> DEFINE t == o \o a
             p == n + 1
             q == n + k
  <2>1. /\ t \in Seq(AllPairs)
        /\ p \in (Len(b) + 1)..(Len(b) + Len(t)) /\ q \in (Len(b) + 1)..(Len(b) + Len(t))
        /\ p - Len(b) = 1 /\ q - Len(b) = k
    BY <1>1, <1>2, <1>4, <1>5
  <2>2. SubSeq(b \o t, p, q) = SubSeq(t, p - Len(b), q - Len(b))
    <3> HIDE DEF t, p, q
    <3> QED
      BY <1>1, <2>1, SubSeqOfConcat2
  <2> QED
    BY <2>1, <2>2
<1>7. SubSeq(o \o a, 1, k) = o
  BY <1>1, <1>2, SplitConcat
<1>8. Slice(window, i, AllInputs(window)) = o
  BY <1>1, <1>3, <1>6, <1>7
<1> QED
  BY <1>8 DEF o

\* A request alone has no more inputs and no more bytes than its window.
LEMMA OneOfWindow ==
  ASSUME shape \in Mixes, NEW window \in Seq(Requests), NEW i \in DOMAIN window
  PROVE  /\ Len(Inputs(window[i])) <= Len(AllInputs(window))
         /\ Bytes(Inputs(window[i])) <= Bytes(AllInputs(window))
<1> DEFINE b == AllInputs(SubSeq(window, 1, i - 1))
           o == Inputs(window[i])
           a == AllInputs(SubSeq(window, i + 1, Len(window)))
<1>1. /\ b \in Seq(AllPairs) /\ o \in Seq(AllPairs) /\ a \in Seq(AllPairs)
      /\ AllInputs(window) = b \o (o \o a)
  BY AllInputsParts
<1> HIDE DEF a, b, o
<1>2. o \o a \in Seq(AllPairs) /\ Len(o \o a) = Len(o) + Len(a)
  BY <1>1, ConcatProperties
<1>3. Len(b \o (o \o a)) = Len(b) + (Len(o) + Len(a))
  BY <1>1, <1>2, ConcatProperties
<1>4. Bytes(o \o a) = Bytes(o) + Bytes(a)
  BY <1>1, BytesConcat
<1>5. Bytes(b \o (o \o a)) = Bytes(b) + Bytes(o \o a)
  BY <1>1, <1>2, BytesConcat
<1>6. Bytes(a) \in Nat /\ Bytes(b) \in Nat /\ Bytes(o) \in Nat
  BY <1>1, BytesType
<1>7. Len(o) <= Len(b) + (Len(o) + Len(a))
  BY <1>1
<1>8. Len(o) <= Len(AllInputs(window)) /\ Bytes(o) <= Bytes(AllInputs(window))
  BY <1>1, <1>3, <1>4, <1>5, <1>6, <1>7
<1> QED
  BY <1>8 DEF o

\* The fallback takes the inputs of its requests off one after the other.
LEMMA HeadOfWindow ==
  ASSUME shape \in Mixes, NEW window \in Seq(Requests), window # <<>>
  PROVE  /\ Head(window) \in Requests /\ Tail(window) \in Seq(Requests)
         /\ SubSeq(AllInputs(window), 1, shape[Head(window)].units) = Inputs(Head(window))
         /\ SubSeq(AllInputs(window), shape[Head(window)].units + 1, Len(AllInputs(window)))
              = AllInputs(Tail(window))
<1> DEFINE r == Head(window)
           t == Tail(window)
           k == shape[r].units
           o == Inputs(r)
           a == AllInputs(t)
<1>1. r \in Requests /\ t \in Seq(Requests) /\ window = <<r>> \o t
  <2>1. Len(window) \in Nat \ {0} /\ 1 \in DOMAIN window
    BY EmptySeq
  <2>2. window = SubSeq(window, 1, 0) \o (<<window[1]>> \o SubSeq(window, 2, Len(window)))
    <3>1. 1 - 1 = 0 /\ 1 + 1 = 2
      OBVIOUS
    <3> QED
      BY <2>1, <3>1, WindowParts
  <2>3. SubSeq(window, 1, 0) = <<>>
    BY SubSeqEmpty
  <2>4. t = SubSeq(window, 2, Len(window))
    BY TailIsSubSeq
  <2>5. r = window[1]
    BY <2>1
  <2>6. r \in Requests /\ t \in Seq(Requests)
    BY HeadTailProperties
  <2>7. <<r>> \o t \in Seq(Requests)
    BY <2>6
  <2>8. <<>> \o (<<r>> \o t) = <<r>> \o t
    BY <2>7, ConcatEmptySeq
  <2> HIDE DEF r, t
  <2>9. window = <<r>> \o t
    BY <2>2, <2>3, <2>4, <2>5, <2>8
  <2> QED
    BY <2>6, <2>9
<1> HIDE DEF r, t, k, o, a
<1>2. <<r>> \in Seq(Requests)
  BY <1>1
<1>3. AllInputs(<<r>> \o t) = AllInputs(<<r>>) \o AllInputs(t)
  BY <1>1, <1>2, AllInputsConcat
<1>4. AllInputs(<<r>>) = o
  BY <1>1, AllInputsOfOne DEF o
<1>5. AllInputs(window) = o \o a
  BY <1>1, <1>3, <1>4 DEF a
<1>6. k = Len(o) /\ o \in Seq(AllPairs) /\ a \in Seq(AllPairs)
  BY <1>1, InputsType, AllInputsType DEF k, o, a
<1>7. SubSeq(o \o a, 1, k) = o /\ SubSeq(o \o a, k + 1, Len(o \o a)) = a
  BY <1>6, SplitConcat
<1>8. SubSeq(AllInputs(window), 1, k) = o
      /\ SubSeq(AllInputs(window), k + 1, Len(AllInputs(window))) = a
  BY <1>5, <1>7
<1> QED
  BY <1>1, <1>8 DEF r, t, k, o, a

-----------------------------------------------------------------------------
(* How much goes into a window and into a frame *)

LEMMA CapsType ==
  ASSUME shape \in Mixes, NEW q \in Seq(Requests)
  PROVE  Caps(q) \subseteq Nat /\ \A i \in DOMAIN q : shape[q[i]].cap # 0 => shape[q[i]].cap \in Caps(q)
<1>1. \A i \in DOMAIN q : q[i] \in Requests
  <2> TAKE i \in DOMAIN q
  <2>1. i \in 1..Len(q)
    BY LenProperties
  <2> QED
    BY <2>1, ElementOfSeq
<1>2. ToSet(q) = {q[i] : i \in DOMAIN q}
  BY DEF ToSet
<1>3. ToSet(q) \subseteq Requests
  BY <1>1, <1>2
<1>4. \A r \in Requests : shape[r].cap \in Nat
  BY ShapeFacts
<1> QED
  BY <1>1, <1>2, <1>3, <1>4 DEF Caps

\* The caps of a queue are bounded.
LEMMA CapsBounded ==
  ASSUME shape \in Mixes, NEW q \in Seq(Requests)
  PROVE  \E k \in Nat : Caps(q) \subseteq 0..k
<1> DEFINE c(i) == shape[q[i]].cap
           P == {n \in Nat : n <= Len(q) => \E k \in Nat : \A i \in 1..n : c(i) <= k}
<1>1. \A i \in 1..Len(q) : c(i) \in Nat
  <2> TAKE i \in 1..Len(q)
  <2>1. q[i] \in Requests
    BY ElementOfSeq
  <2> QED
    BY <2>1, ShapeFacts
<1>2. 0 \in P
  <2>1. \A i \in 1..0 : c(i) <= 0
    OBVIOUS
  <2> QED
    BY <2>1
<1> HIDE DEF c
<1>3. \A n \in P : n + 1 \in P
  <2> TAKE n \in P
  <2>1. n \in Nat /\ (n <= Len(q) => \E k \in Nat : \A i \in 1..n : c(i) <= k)
    OBVIOUS
  <2>2. ASSUME n + 1 <= Len(q)
        PROVE  \E k \in Nat : \A i \in 1..(n + 1) : c(i) <= k
    <3> HIDE DEF P
    <3>1. PICK k \in Nat : \A i \in 1..n : c(i) <= k
      BY <2>1, <2>2
    <3>2. n + 1 \in 1..Len(q)
      BY <2>1, <2>2
    <3>3. c(n + 1) \in Nat
      BY <3>2, <1>1
    <3> DEFINE m == IF c(n + 1) <= k THEN k ELSE c(n + 1)
    <3>4. m \in Nat /\ k <= m /\ c(n + 1) <= m
      BY <3>1, <3>3
    <3> HIDE DEF m
    <3>5. \A i \in 1..(n + 1) : c(i) <= m
      <4> TAKE i \in 1..(n + 1)
      <4>1. CASE i = n + 1
        BY <4>1, <3>4
      <4>2. CASE i # n + 1
        <5>1. i \in 1..n /\ i \in 1..Len(q)
          BY <4>2, <2>1, <2>2
        <5>2. c(i) <= k /\ c(i) \in Nat
          BY <5>1, <3>1, <1>1
        <5> QED
          BY <5>2, <3>1, <3>4
      <4> QED
        BY <4>1, <4>2
    <3> QED
      BY <3>4, <3>5
  <2> QED
    BY <2>1, <2>2
<1> HIDE DEF P
<1>4. Nat \subseteq P
  BY <1>2, <1>3, Induction DEF P
<1>5. PICK k \in Nat : \A i \in 1..Len(q) : c(i) <= k
  <2>1. Len(q) \in P
    BY <1>4
  <2> QED
    BY <2>1 DEF P
<1>6. \A x \in Caps(q) : x \in 0..k
  <2> TAKE x \in Caps(q)
  <2>1. PICK r \in ToSet(q) : x = shape[r].cap
    BY DEF Caps
  <2>2. PICK i \in DOMAIN q : r = q[i]
    BY <2>1 DEF ToSet
  <2>3. i \in 1..Len(q)
    BY LenProperties
  <2>4. x = c(i)
    BY <2>1, <2>2 DEF c
  <2> QED
    BY <2>3, <2>4, <1>1, <1>5
<1> QED
  BY <1>6

LEMMA EffectiveCapType ==
  ASSUME shape \in Mixes, NEW q \in Seq(Requests)
  PROVE  EffectiveCap(q) \in Nat
<1> DEFINE T == {1} \cup IF \E r \in ToSet(q) : shape[r].capped THEN Caps(q) ELSE {DefaultCap}
<1>1. PICK k \in Nat : Caps(q) \subseteq 0..k
  BY CapsBounded
<1>2. DefaultCap \in Nat
  BY DispatchAssumption DEF DispatchAssumption
<1> DEFINE top == k + DefaultCap + 1
<1>3. top \in Nat /\ k <= top /\ DefaultCap <= top /\ 1 <= top
  BY <1>2
<1>4. T \in SUBSET (0..top) /\ T # {}
  BY <1>1, <1>2, <1>3
<1> HIDE DEF T, top
<1>5. T \subseteq Nat
  BY <1>3, <1>4
<1>6. Max(T) \in T
  BY <1>3, <1>4, <1>5, GreatestElement
<1> QED
  BY <1>5, <1>6 DEF EffectiveCap, T

\* A window is a nonempty prefix of the queue; more than one request only as
\* far as they fit.
LEMMA TakeCountIs ==
  ASSUME shape \in Mixes, NEW q \in Seq(Requests), q # <<>>, NEW cap
  PROVE  LET n == TakeCount(q, cap)
             window == SubSeq(q, 1, n)
         IN  /\ n \in 1..Len(q)
             /\ n > 1 => /\ Len(AllInputs(window)) <= Min(Caps(window) \cup {cap})
                         /\ Bytes(AllInputs(window)) <= ByteBudget
<1> DEFINE Fits(n) == /\ Len(AllInputs(SubSeq(q, 1, n))) <= Min(Caps(SubSeq(q, 1, n)) \cup {cap})
                      /\ Bytes(AllInputs(SubSeq(q, 1, n))) <= ByteBudget
           T == {n \in 1..Len(q) : \A k \in 2..n : Fits(k)}
<1>1. TakeCount(q, cap) = Max(T)
  BY DEF TakeCount, Units
<1>2. Len(q) \in Nat \ {0}
  BY EmptySeq
<1> HIDE DEF Fits
<1>3. T \in SUBSET (0..Len(q)) /\ T # {}
  <2>1. 1 \in T
    BY <1>2
  <2>2. T \subseteq 0..Len(q)
    BY <1>2
  <2> QED
    BY <2>1, <2>2
<1>4. Max(T) \in T
  <2> HIDE DEF T
  <2> QED
    BY <1>2, <1>3, GreatestElement
<1> DEFINE n == Max(T)
<1>5. n \in 1..Len(q) /\ \A k \in 2..n : Fits(k)
  BY <1>4
<1> HIDE DEF n, T
<1>6. n > 1 => Fits(n)
  <2>1. n > 1 => n \in 2..n
    BY <1>2, <1>5
  <2> QED
    BY <2>1, <1>5
<1>7. TakeCount(q, cap) = n
  BY <1>1 DEF n
<1> QED
  BY <1>5, <1>6, <1>7 DEF Fits

\* A frame of a lone request carries at least one of its inputs, and more than
\* one only within the byte budget.
LEMMA SubBatchLenIs ==
  ASSUME NEW inputs \in Seq(AllPairs), inputs # <<>>, NEW cap
  PROVE  LET n == SubBatchLen(inputs, cap)
         IN  n \in 1..Len(inputs) /\ (n > 1 => Bytes(SubSeq(inputs, 1, n)) <= ByteBudget)
<1> DEFINE U == {n \in 1..Len(inputs) :
                   n <= cap /\ Bytes(SubSeq(inputs, 1, n)) <= ByteBudget}
           T == {1} \cup U
           n == Max(T)
<1>1. SubBatchLen(inputs, cap) = n
  BY DEF SubBatchLen
<1>2. Len(inputs) \in Nat \ {0}
  BY EmptySeq
<1>3. T \in SUBSET (0..Len(inputs)) /\ T # {} /\ T \subseteq 1..Len(inputs)
  BY <1>2
<1>4. Max(T) \in T
  <2> HIDE DEF T
  <2> QED
    BY <1>2, <1>3, GreatestElement
<1>5. n = 1 \/ n \in U
  BY <1>4
<1>6. n \in 1..Len(inputs)
  <2> HIDE DEF T
  <2> QED
    BY <1>3, <1>4
<1> HIDE DEF n, T
<1> QED
  BY <1>1, <1>5, <1>6

LEMMA MinOfCaps ==
  ASSUME shape \in Mixes, NEW window \in Seq(Requests), NEW cap \in Nat,
         NEW i \in DOMAIN window, shape[window[i]].cap # 0
  PROVE  /\ Min(Caps(window) \cup {cap}) \in Nat
         /\ Min(Caps(window) \cup {cap}) <= shape[window[i]].cap
<1> DEFINE T == Caps(window) \cup {cap}
<1>1. T \in SUBSET Nat /\ T # {} /\ shape[window[i]].cap \in T
  BY CapsType
<1> HIDE DEF T
<1>2. Min(T) \in T /\ \A m \in T : Min(T) <= m
  BY <1>1, SmallestIsMin
<1> QED
  BY <1>1, <1>2 DEF T

-----------------------------------------------------------------------------
(* The frames that are with the workers *)

\* A frame and what it stands for: the outputs so far, the inputs sent and the
\* inputs left make up the inputs of the window.
FrameOK(f) ==
  /\ f.window \in Seq(Requests) /\ f.window # <<>>
  /\ f.sent \in Seq(AllPairs) /\ f.rest \in Seq(AllPairs) /\ f.outputs \in Seq(AllPairs)
  /\ f.mode \in {"single", "merged", "retry"}
  /\ f.mode = "single" =>
       /\ Len(f.window) = 1
       /\ f.outputs \o (f.sent \o f.rest) = Inputs(Head(f.window))
       /\ Len(f.sent) > 1 => Bytes(f.sent) <= ByteBudget
  /\ f.mode = "merged" =>
       /\ f.sent = AllInputs(f.window)
       /\ Bytes(f.sent) <= ByteBudget
       /\ \A i \in DOMAIN f.window :
            shape[f.window[i]].cap # 0 => Len(f.sent) <= shape[f.window[i]].cap
  /\ f.mode = "retry" =>
       /\ f.sent = Inputs(Head(f.window))
       /\ f.rest = AllInputs(Tail(f.window))
       /\ \A i \in DOMAIN f.window :
            /\ Bytes(Inputs(f.window[i])) <= ByteBudget
            /\ shape[f.window[i]].cap # 0 =>
                 Len(Inputs(f.window[i])) <= shape[f.window[i]].cap

LEMMA InputsKept ==
  ASSUME NEW r, shape' = shape
  PROVE  Inputs(r)' = Inputs(r)
BY DEF Inputs

LEMMA AllInputsKept ==
  ASSUME NEW window, shape' = shape
  PROVE  AllInputs(window)' = AllInputs(window)
BY DEF AllInputs, Inputs

LEMMA BytesKept ==
  ASSUME NEW inputs, shape' = shape
  PROVE  Bytes(inputs)' = Bytes(inputs)
BY DEF Bytes

LEMMA FrameKept ==
  ASSUME NEW f, shape' = shape, FrameOK(f)
  PROVE  FrameOK(f)'
BY InputsKept, AllInputsKept, BytesKept DEF FrameOK

LEMMA CutInTwo ==
  ASSUME NEW X, NEW s \in Seq(X), NEW c \in 0..Len(s)
  PROVE  /\ SubSeq(s, 1, c) \in Seq(X) /\ SubSeq(s, c + 1, Len(s)) \in Seq(X)
         /\ Len(SubSeq(s, 1, c)) = c
         /\ SubSeq(s, 1, c) \o SubSeq(s, c + 1, Len(s)) = s
<1> DEFINE n == Len(s)
<1>1. n \in Nat /\ c \in 0..n
  OBVIOUS
<1>2. \A j \in 1..n : s[j] \in X
  BY ElementOfSeq
<1>3. SubSeq(s, 1, c) \in Seq(X) /\ Len(SubSeq(s, 1, c)) = c
  <2>1. \A j \in 1..c : s[j] \in X
    BY <1>1, <1>2
  <2>2. /\ SubSeq(s, 1, c) \in Seq(X)
        /\ Len(SubSeq(s, 1, c)) = IF 1 <= c THEN c - 1 + 1 ELSE 0
    BY <2>1, <1>1, SubSeqProperties
  <2> QED
    BY <2>2, <1>1
<1>4. SubSeq(s, c + 1, n) \in Seq(X)
  <2>1. \A j \in (c + 1)..n : s[j] \in X
    BY <1>1, <1>2
  <2>2. c + 1 \in Int /\ n \in Int
    BY <1>1
  <2> HIDE DEF n
  <2> QED
    BY <2>1, <2>2, SubSeqProperties
<1>5. SubSeq(s, 1, c) \o SubSeq(s, c + 1, n) = SubSeq(s, 1, n)
  <2>1. 1 \in 1..(Len(s) + 1) /\ c \in (1 - 1)..Len(s) /\ n \in c..Len(s)
    BY <1>1
  <2> HIDE DEF n
  <2> QED
    BY <2>1, ConcatAdjacentSubSeq
<1>6. SubSeq(s, 1, n) = s
  BY SubSeqFull
<1> QED
  BY <1>3, <1>4, <1>5, <1>6

LEMMA ConcatEmptyOf ==
  \A S : \A s \in Seq(S) : <<>> \o s = s
BY ConcatEmptySeq

LEMMA LenOne ==
  ASSUME NEW X, NEW s \in Seq(X), Len(s) = 1
  PROVE  s = <<Head(s)>> /\ Head(s) \in X /\ s # <<>>
<1>1. s # <<>>
  OBVIOUS
<1>2. Head(s) \in X
  BY <1>1, HeadTailProperties
<1>3. Head(s) = s[1]
  BY <1>1
<1> DEFINE t == <<Head(s)>>
<1>4. t \in Seq(X) /\ Len(t) = 1 /\ t[1] = s[1]
  BY <1>2, <1>3
<1>5. s = t
  <2> HIDE DEF t
  <2>1. \A i \in 1..Len(s) : s[i] = t[i]
    BY <1>4
  <2> QED
    BY <1>4, <2>1, SeqEqual
<1> QED
  BY <1>1, <1>2, <1>5

\* A frame of a lone request, whatever part of its inputs is left.
LEMMA SingleFrame ==
  ASSUME shape \in Mixes, NEW window \in Seq(Requests), Len(window) = 1,
         NEW inputs \in Seq(AllPairs), inputs # <<>>,
         NEW outputs \in Seq(AllPairs), outputs \o inputs = Inputs(Head(window)),
         NEW cap
  PROVE  FrameOK(Frame("single", window, inputs, SubBatchLen(inputs, cap), outputs, cap))
<1> DEFINE c == SubBatchLen(inputs, cap)
           f == Frame("single", window, inputs, c, outputs, cap)
           s == SubSeq(inputs, 1, c)
           t == SubSeq(inputs, c + 1, Len(inputs))
<1>1. c \in 1..Len(inputs) /\ (c > 1 => Bytes(s) <= ByteBudget)
  BY SubBatchLenIs
<1>2. /\ f.window = window /\ f.sent = s /\ f.rest = t /\ f.outputs = outputs
      /\ f.mode = "single"
  BY DEF Frame
<1> HIDE DEF c
<1>3. c \in 0..Len(inputs) /\ Len(inputs) \in Nat
  BY <1>1
<1>4. s \in Seq(AllPairs) /\ t \in Seq(AllPairs) /\ Len(s) = c /\ s \o t = inputs
  BY <1>3, CutInTwo
<1>5. window # <<>>
  BY LenOne
<1> HIDE DEF f, s, t
<1>6. f.outputs \o (f.sent \o f.rest) = Inputs(Head(f.window))
  BY <1>2, <1>4
<1>7. Len(f.sent) > 1 => Bytes(f.sent) <= ByteBudget
  BY <1>1, <1>2, <1>4
<1>8. FrameOK(f)
  BY <1>2, <1>4, <1>5, <1>6, <1>7 DEF FrameOK
<1> QED
  BY <1>8 DEF f, c

\* The frame of an isolation retry, from the inputs of the window that is left.
LEMMA RetryFrameOK ==
  ASSUME shape \in Mixes, NEW window \in Seq(Requests), window # <<>>,
         \A i \in DOMAIN window :
            /\ Bytes(Inputs(window[i])) <= ByteBudget
            /\ shape[window[i]].cap # 0 => Len(Inputs(window[i])) <= shape[window[i]].cap,
         NEW cap
  PROVE  FrameOK(RetryFrame(window, AllInputs(window), cap))
<1> DEFINE f == RetryFrame(window, AllInputs(window), cap)
<1>1. /\ f.window = window /\ f.outputs = <<>> /\ f.mode = "retry"
      /\ f.sent = SubSeq(AllInputs(window), 1, shape[Head(window)].units)
      /\ f.rest = SubSeq(AllInputs(window), shape[Head(window)].units + 1, Len(AllInputs(window)))
  BY DEF RetryFrame, Frame
<1>2. /\ Head(window) \in Requests /\ Tail(window) \in Seq(Requests)
      /\ SubSeq(AllInputs(window), 1, shape[Head(window)].units) = Inputs(Head(window))
      /\ SubSeq(AllInputs(window), shape[Head(window)].units + 1, Len(AllInputs(window)))
           = AllInputs(Tail(window))
  BY HeadOfWindow
<1> HIDE DEF f
<1>3. f.sent = Inputs(Head(window)) /\ f.rest = AllInputs(Tail(window))
  BY <1>1, <1>2
<1>4. Inputs(Head(window)) \in Seq(AllPairs)
  BY <1>2, InputsType
<1>5. AllInputs(Tail(window)) \in Seq(AllPairs)
  BY <1>2, AllInputsType
<1>6. <<>> \in Seq(AllPairs)
  OBVIOUS
<1>7. FrameOK(f)
  BY <1>1, <1>3, <1>4, <1>5, <1>6 DEF FrameOK
<1> QED
  BY <1>7 DEF f

LEMMA FirstFrameOK ==
  ASSUME shape \in Mixes, NEW window \in Seq(Requests), window # <<>>, NEW cap \in Nat,
         Len(window) > 1 =>
           /\ Len(AllInputs(window)) <= Min(Caps(window) \cup {cap})
           /\ Bytes(AllInputs(window)) <= ByteBudget
  PROVE  /\ FirstFrame(window, cap).is = "busy"
         /\ FirstFrame(window, cap).window = window
         /\ FrameOK(FirstFrame(window, cap))
<1> DEFINE inputs == AllInputs(window)
<1>1. inputs \in Seq(AllPairs)
  BY AllInputsType
<1>2. CASE Len(window) = 1
  <2> DEFINE f == Frame("single", window, inputs, SubBatchLen(inputs, cap), <<>>, cap)
  <2>1. FirstFrame(window, cap) = f
    BY <1>2 DEF FirstFrame
  <2>2. window = <<Head(window)>> /\ Head(window) \in Requests
    BY <1>2, LenOne
  <2>3. inputs = Inputs(Head(window))
    <3>1. AllInputs(<<Head(window)>>) = Inputs(Head(window))
      BY <2>2, AllInputsOfOne
    <3> QED
      BY <2>2, <3>1
  <2>4. inputs # <<>>
    BY <2>2, <2>3, InputsType
  <2>5. f.is = "busy" /\ f.window = window
    BY DEF Frame
  <2>6. <<>> \o inputs = inputs /\ <<>> \in Seq(AllPairs)
    BY <1>1, ConcatEmptyOf
  <2> HIDE DEF inputs
  <2>7. FrameOK(f)
    BY <1>1, <1>2, <2>3, <2>4, <2>6, SingleFrame
  <2> HIDE DEF f
  <2> QED
    BY <2>1, <2>5, <2>7
<1>3. CASE Len(window) # 1
  <2> DEFINE f == Frame("merged", window, inputs, Len(inputs), <<>>, cap)
  <2>1. FirstFrame(window, cap) = f
    BY <1>3 DEF FirstFrame
  <2>2. Len(window) > 1
    BY <1>3, EmptySeq
  <2>3. /\ f.window = window /\ f.outputs = <<>> /\ f.mode = "merged" /\ f.is = "busy"
        /\ f.sent = SubSeq(inputs, 1, Len(inputs))
        /\ f.rest = SubSeq(inputs, Len(inputs) + 1, Len(inputs))
    BY DEF Frame
  <2>4. SubSeq(inputs, 1, Len(inputs)) = inputs
    BY <1>1, SubSeqFull
  <2>5. SubSeq(inputs, Len(inputs) + 1, Len(inputs)) \in Seq(AllPairs)
    <3> HIDE DEF inputs
    <3>1. Len(inputs) \in 0..Len(inputs)
      BY <1>1
    <3> QED
      BY <3>1, <1>1, CutInTwo
  <2>6. \A i \in DOMAIN window :
          shape[window[i]].cap # 0 => Len(inputs) <= shape[window[i]].cap
    <3> SUFFICES ASSUME NEW i \in DOMAIN window, shape[window[i]].cap # 0
                 PROVE  Len(inputs) <= shape[window[i]].cap
      OBVIOUS
    <3>1. /\ Min(Caps(window) \cup {cap}) \in Nat
          /\ Min(Caps(window) \cup {cap}) <= shape[window[i]].cap
      BY MinOfCaps
    <3>2. window[i] \in Requests
      <4>1. i \in 1..Len(window)
        BY LenProperties
      <4> QED
        BY <4>1, ElementOfSeq
    <3>3. shape[window[i]].cap \in Nat
      BY <3>2, ShapeFacts
    <3>4. Len(inputs) \in Nat
      BY <1>1
    <3>5. Len(inputs) <= Min(Caps(window) \cup {cap})
      BY <2>2
    <3> HIDE DEF inputs
    <3> QED
      BY <3>1, <3>3, <3>4, <3>5
  <2>7. <<>> \in Seq(AllPairs)
    OBVIOUS
  <2>8. Bytes(inputs) <= ByteBudget
    BY <2>2
  <2>9. inputs = AllInputs(window)
    OBVIOUS
  <2> HIDE DEF f, inputs
  <2>10. FrameOK(f)
    BY <1>1, <2>3, <2>4, <2>5, <2>6, <2>7, <2>8, <2>9 DEF FrameOK
  <2> QED
    BY <2>1, <2>3, <2>10
<1> QED
  BY <1>2, <1>3

\* A merged frame that was refused becomes the first of the isolation retries.
LEMMA FallbackFrame ==
  ASSUME shape \in Mixes, NEW f, FrameOK(f), f.mode = "merged"
  PROVE  FrameOK(RetryFrame(f.window, f.sent, f.cap))
<1>1. /\ f.window \in Seq(Requests) /\ f.window # <<>> /\ f.sent = AllInputs(f.window)
      /\ Bytes(f.sent) <= ByteBudget /\ f.sent \in Seq(AllPairs)
      /\ \A i \in DOMAIN f.window :
           shape[f.window[i]].cap # 0 => Len(f.sent) <= shape[f.window[i]].cap
  BY DEF FrameOK
<1> DEFINE window == f.window
<1>2. \A i \in DOMAIN window :
        /\ Bytes(Inputs(window[i])) <= ByteBudget
        /\ shape[window[i]].cap # 0 => Len(Inputs(window[i])) <= shape[window[i]].cap
  <2> TAKE i \in DOMAIN window
  <2>1. window[i] \in Requests
    <3>1. i \in 1..Len(window)
      BY <1>1, LenProperties
    <3> QED
      BY <3>1, <1>1, ElementOfSeq
  <2>2. /\ Len(Inputs(window[i])) <= Len(AllInputs(window))
        /\ Bytes(Inputs(window[i])) <= Bytes(AllInputs(window))
    BY <1>1, OneOfWindow
  <2>3. Bytes(Inputs(window[i])) \in Nat /\ Bytes(f.sent) \in Nat /\ ByteBudget \in Nat
    BY <2>1, <1>1, InputsType, BytesType, DispatchAssumption DEF DispatchAssumption
  <2>4. Len(Inputs(window[i])) \in Nat /\ Len(f.sent) \in Nat /\ shape[window[i]].cap \in Nat
    <3>1. Inputs(window[i]) \in Seq(AllPairs)
      BY <2>1, InputsType
    <3> QED
      BY <3>1, <2>1, <1>1, ShapeFacts
  <2>5. Bytes(Inputs(window[i])) <= ByteBudget
    BY <2>2, <2>3, <1>1
  <2>6. shape[window[i]].cap # 0 => Len(Inputs(window[i])) <= shape[window[i]].cap
    BY <2>2, <2>4, <1>1
  <2> QED
    BY <2>5, <2>6
<1>3. FrameOK(RetryFrame(window, AllInputs(window), f.cap))
  <2> DEFINE cap == f.cap
  <2> HIDE DEF cap
  <2>1. window \in Seq(Requests) /\ window # <<>>
    BY <1>1
  <2> HIDE DEF window
  <2>2. FrameOK(RetryFrame(window, AllInputs(window), cap))
    BY <1>2, <2>1, RetryFrameOK
  <2> QED
    BY <2>2 DEF cap
<1> QED
  BY <1>1, <1>3

\* The retry after this one.
LEMMA NextRetryOK ==
  ASSUME shape \in Mixes, NEW f, FrameOK(f), f.mode = "retry", Len(f.window) # 1
  PROVE  /\ NextRetry(f).is = "busy" /\ NextRetry(f).window = Tail(f.window)
         /\ FrameOK(NextRetry(f))
<1> DEFINE window == f.window
           t == Tail(window)
           cap == f.cap
<1>1. /\ window \in Seq(Requests) /\ window # <<>>
      /\ f.rest = AllInputs(t)
      /\ \A i \in DOMAIN window :
            /\ Bytes(Inputs(window[i])) <= ByteBudget
            /\ shape[window[i]].cap # 0 => Len(Inputs(window[i])) <= shape[window[i]].cap
  BY DEF FrameOK
<1>2. NextRetry(f) = RetryFrame(t, AllInputs(t), cap)
  BY <1>1 DEF NextRetry
<1>3. Len(window) # 1
  OBVIOUS
<1> HIDE DEF window, cap
<1>4. /\ t \in Seq(Requests) /\ Len(t) = Len(window) - 1
      /\ \A i \in 1..Len(t) : t[i] = window[i + 1]
  BY <1>1, HeadTailProperties
<1>5. Len(window) \in Nat \ {0}
  BY <1>1, EmptySeq
<1> HIDE DEF t
<1>6. t # <<>>
  BY <1>3, <1>4, <1>5
<1>7. \A i \in DOMAIN t :
            /\ Bytes(Inputs(t[i])) <= ByteBudget
            /\ shape[t[i]].cap # 0 => Len(Inputs(t[i])) <= shape[t[i]].cap
  <2> TAKE i \in DOMAIN t
  <2>1. i \in 1..Len(t)
    BY <1>4, LenProperties
  <2>2. i + 1 \in 1..Len(window) /\ DOMAIN window = 1..Len(window)
    BY <2>1, <1>1, <1>4, <1>5
  <2>3. t[i] = window[i + 1]
    BY <2>1, <1>4
  <2> QED
    BY <2>2, <2>3, <1>1
<1>8. FrameOK(RetryFrame(t, AllInputs(t), cap))
  BY <1>4, <1>6, <1>7, RetryFrameOK
<1>9. RetryFrame(t, AllInputs(t), cap).is = "busy"
      /\ RetryFrame(t, AllInputs(t), cap).window = t
  BY DEF RetryFrame, Frame
<1> QED
  BY <1>2, <1>8, <1>9 DEF t, window

\* The next part of a request that is split.
LEMMA NextPartOK ==
  ASSUME shape \in Mixes, NEW f, FrameOK(f), f.mode = "single", f.rest # <<>>
  PROVE  FrameOK(Frame("single", f.window, f.rest, SubBatchLen(f.rest, f.cap),
                       f.outputs \o f.sent, f.cap))
<1> DEFINE window == f.window
           a == f.outputs
           b == f.sent
           c == f.rest
           cap == f.cap
<1>1. /\ window \in Seq(Requests) /\ Len(window) = 1
      /\ a \in Seq(AllPairs) /\ b \in Seq(AllPairs) /\ c \in Seq(AllPairs) /\ c # <<>>
      /\ a \o (b \o c) = Inputs(Head(window))
  BY DEF FrameOK
<1> HIDE DEF window, a, b, c, cap
<1>2. a \o b \in Seq(AllPairs)
  BY <1>1, ConcatProperties
<1>3. (a \o b) \o c = a \o (b \o c)
  <2>1. a \in Seq(AllPairs) /\ b \in Seq(AllPairs) /\ c \in Seq(AllPairs)
    BY <1>1
  <2>2. Assoc(a, b, c)
    BY <2>1, ConcatAssoc
  <2> QED
    BY <2>2 DEF Assoc
<1>4. (a \o b) \o c = Inputs(Head(window))
  BY <1>1, <1>3
<1> DEFINE d == a \o b
<1>5. FrameOK(Frame("single", window, c, SubBatchLen(c, cap), d, cap))
  <2> HIDE DEF d
  <2>1. d \in Seq(AllPairs) /\ d \o c = Inputs(Head(window))
    BY <1>2, <1>4 DEF d
  <2> QED
    BY <1>1, <2>1, SingleFrame
<1> QED
  BY <1>5 DEF window, a, b, c, cap

-----------------------------------------------------------------------------
(* The inductive invariant of the dispatcher, in four parts *)

Replies ==
  {[is |-> "unsent"], Waiting, Failed, Lost} \cup {Ok(outputs) : outputs \in Seq(AllPairs)}

\* Only requests that were sent are in a queue or a window.
Known ==
  /\ ToSet(queue) \subseteq Sent
  /\ ToSet(mailbox) \subseteq Sent \cup {Shutdown}
  /\ \A w \in Running : ToSet(worker[w].window) \subseteq Sent

DispatchTyped ==
  /\ shape \in Mixes
  /\ reply \in [Requests -> Replies]
  /\ mailbox \in Seq(Requests \cup {Shutdown})
  /\ queue \in Seq(Requests) /\ taken \in Seq(Requests)
  /\ worker = [w \in Replicas |-> worker[w]]
  /\ sentAt \in [Requests -> Nat] /\ IsFiniteSet(Sent)
  /\ crashes \in Nat /\ open \in BOOLEAN
  /\ \A w \in Running : FrameOK(worker[w])
  /\ Known

\* What became of the requests, and what the end of the loop is due to.
Fates ==
  /\ OutputsAreItsOwn
  /\ OnlyThePoisonedFail
  /\ \A w \in Finished : worker[w].fatal => crashes > 0
  /\ Shutdown \in ToSet(mailbox) => unloaded
  /\ at # "loop" \/ ~open => unloaded \/ crashes > 0

\* Who waits is held; the channel is open while somebody reads it.
Held ==
  /\ open <=> at \in {"loop", "killing"}
  /\ WaitersAreHeld
  /\ NothingIsLeft

\* What was taken, the queue and the mailbox are one line.
Line == (taken \o queue) \o mailbox

\* The requests of the line were sent, and each after those before it.
Order ==
  /\ \A i \in DOMAIN Line :
       Line[i] # Shutdown => Line[i] \in Sent /\ sentAt[Line[i]] < Cardinality(Sent)
  /\ \A i, j \in DOMAIN Line :
       i < j /\ Line[i] # Shutdown /\ Line[j] # Shutdown => sentAt[Line[i]] < sentAt[Line[j]]

LEMMA FrameAt ==
  ASSUME NEW f, NEW v, worker[v]' = f, FrameOK(f)'
  PROVE  FrameOK(worker[v])'
BY DEF FrameOK

\* One worker changes, into something that is no frame or a good one.
LEMMA FramesStep ==
  ASSUME DispatchTyped, shape' = shape, NEW w \in Replicas, NEW x,
         worker' = [worker EXCEPT ![w] = x], x.is = "busy" => FrameOK(x)
  PROVE  /\ worker' = [v \in Replicas |-> worker'[v]]
         /\ \A v \in Replicas : worker'[v] = IF v = w THEN x ELSE worker[v]
         /\ \A v \in Running' : FrameOK(worker[v])'
<1>1. worker = [v \in Replicas |-> worker[v]]
  BY DEF DispatchTyped
<1>2. \A v \in Replicas : worker'[v] = IF v = w THEN x ELSE worker[v]
  BY <1>1
<1>3. worker' = [v \in Replicas |-> worker'[v]]
  BY <1>1
<1>4. \A v \in Running' : FrameOK(worker[v])'
  <2> TAKE v \in Running'
  <2>1. v \in Replicas /\ worker'[v].is = "busy"
    BY DEF Running
  <2>2. PICK f : f = worker'[v]
    OBVIOUS
  <2>3. CASE v = w
    <3>1. f = x /\ FrameOK(x)
      BY <2>1, <2>2, <2>3, <1>2
    <3>2. FrameOK(f)
      BY <3>1
    <3>3. FrameOK(f)'
      BY <3>2, FrameKept
    <3> QED
      BY <3>3, <2>2, FrameAt
  <2>4. CASE v # w
    <3>1. f = worker[v] /\ v \in Running
      BY <2>1, <2>2, <2>4, <1>2 DEF Running
    <3>2. FrameOK(worker[v])
      BY <3>1 DEF DispatchTyped
    <3>3. FrameOK(f)
      BY <3>1, <3>2
    <3>4. FrameOK(f)'
      BY <3>3, FrameKept
    <3> QED
      BY <3>4, <2>2, FrameAt
  <2> QED
    BY <2>3, <2>4
<1> QED
  BY <1>2, <1>3, <1>4

\* Who runs, or has finished, after one worker changed.
LEMMA OthersStay ==
  ASSUME DispatchTyped, NEW w \in Replicas, NEW x, worker' = [worker EXCEPT ![w] = x]
  PROVE  /\ \A v \in Replicas : worker'[v] = IF v = w THEN x ELSE worker[v]
         /\ \A v \in Running' : /\ v = w => x.is = "busy" /\ worker'[v] = x
                                /\ v # w => v \in Running /\ worker'[v] = worker[v]
         /\ \A v \in Finished' : /\ v = w => x.is = "finished" /\ worker'[v] = x
                                 /\ v # w => v \in Finished /\ worker'[v] = worker[v]
         /\ x.is = "busy" => w \in Running'
         /\ \A v \in Running : v # w => v \in Running' /\ worker'[v] = worker[v]
<1>0. \A v \in Replicas : worker'[v] = IF v = w THEN x ELSE worker[v]
  BY DEF DispatchTyped
<1>1. \A v \in Running' : v \in Replicas /\ worker'[v].is = "busy"
  BY DEF Running
<1>2. \A v \in Finished' : v \in Replicas /\ worker'[v].is = "finished"
  BY DEF Finished
<1>3. \A v \in Replicas : worker'[v].is = "busy" => v \in Running'
  BY DEF Running
<1>4. \A v \in Running : v \in Replicas /\ worker[v].is = "busy"
  BY DEF Running
<1>5. \A v \in Replicas : worker[v].is = "busy" => v \in Running
  BY DEF Running
<1>6. \A v \in Replicas : worker[v].is = "finished" => v \in Finished
  BY DEF Finished
<1>7. \A v \in Running' : /\ v = w => x.is = "busy" /\ worker'[v] = x
                          /\ v # w => v \in Running /\ worker'[v] = worker[v]
  BY <1>0, <1>1, <1>5
<1>8. \A v \in Finished' : /\ v = w => x.is = "finished" /\ worker'[v] = x
                           /\ v # w => v \in Finished /\ worker'[v] = worker[v]
  BY <1>0, <1>2, <1>6
<1>9. x.is = "busy" => w \in Running'
  BY <1>0, <1>3
<1>10. \A v \in Running : v # w => v \in Running' /\ worker'[v] = worker[v]
  BY <1>0, <1>3, <1>4
<1> QED
  BY <1>0, <1>7, <1>8, <1>9, <1>10

LEMMA FramesStay ==
  ASSUME DispatchTyped, shape' = shape, worker' = worker
  PROVE  /\ worker' = [v \in Replicas |-> worker'[v]]
         /\ \A v \in Running' : FrameOK(worker[v])'
<1>1. worker = [v \in Replicas |-> worker[v]]
  BY DEF DispatchTyped
<1>2. ASSUME NEW v \in Running' PROVE FrameOK(worker[v])'
  <2>1. v \in Running
    BY <1>2 DEF Running
  <2>2. PICK f : f = worker[v]
    OBVIOUS
  <2>3. FrameOK(worker[v])
    BY <2>1 DEF DispatchTyped
  <2>4. FrameOK(f)
    BY <2>2, <2>3
  <2>5. FrameOK(f)'
    BY <2>4, FrameKept
  <2>6. worker[v]' = f
    BY <2>2
  <2> QED
    BY <2>5, <2>6, FrameAt
<1> QED
  BY <1>1, <1>2

LEMMA ToSetHeadTail ==
  ASSUME NEW X, NEW s \in Seq(X), s # <<>>
  PROVE  Head(s) \in ToSet(s) /\ ToSet(s) = {Head(s)} \cup ToSet(Tail(s))
<1>1. /\ Tail(s) \in Seq(X) /\ Len(Tail(s)) = Len(s) - 1
      /\ \A i \in 1..Len(Tail(s)) : Tail(s)[i] = s[i + 1]
  BY HeadTailProperties
<1>2. Len(s) \in Nat \ {0} /\ DOMAIN s = 1..Len(s) /\ Head(s) = s[1]
  BY EmptySeq
<1>3. DOMAIN Tail(s) = 1..(Len(s) - 1)
  BY <1>1, LenProperties
<1>4. Head(s) \in ToSet(s)
  BY <1>2, ToSetIs
<1>5. \A i \in DOMAIN s : s[i] \in {Head(s)} \cup ToSet(Tail(s))
  <2> TAKE i \in DOMAIN s
  <2>1. CASE i = 1
    BY <2>1, <1>2
  <2>2. CASE i # 1
    <3>1. i - 1 \in DOMAIN Tail(s) /\ (i - 1) + 1 = i /\ i - 1 \in 1..Len(Tail(s))
      BY <2>2, <1>1, <1>2, <1>3
    <3>2. Tail(s)[i - 1] = s[i]
      BY <3>1, <1>1
    <3> QED
      BY <3>1, <3>2, ToSetIs
  <2> QED
    BY <2>1, <2>2
<1>6. \A i \in DOMAIN Tail(s) : Tail(s)[i] \in ToSet(s)
  <2> TAKE i \in DOMAIN Tail(s)
  <2>1. i + 1 \in DOMAIN s /\ i \in 1..Len(Tail(s))
    BY <1>1, <1>2, <1>3
  <2>2. Tail(s)[i] = s[i + 1]
    BY <2>1, <1>1
  <2> QED
    BY <2>1, <2>2, ToSetIs
<1> QED
  BY <1>4, <1>5, <1>6, ToSetIs

LEMMA AnsweredIs ==
  ASSUME reply \in [Requests -> Replies], NEW rs, NEW answer \in Replies
  PROVE  /\ Answered(rs, answer) \in [Requests -> Replies]
         /\ \A r \in Requests : Answered(rs, answer)[r] =
              IF r \in rs /\ reply[r] = Waiting THEN answer ELSE reply[r]
BY DEF Answered

\* Answers are told apart.
LEMMA RepliesDiffer ==
  /\ {Waiting, Failed, Lost} \subseteq Replies
  /\ \A o \in Seq(AllPairs) : Ok(o) \in Replies
  /\ Waiting # Failed /\ Waiting # Lost /\ Failed # Lost
  /\ \A o : Ok(o) # Waiting /\ Ok(o).is = "ok" /\ Ok(o).outputs = o
  /\ Waiting.is = "waiting" /\ Failed.is = "failed" /\ Lost.is = "lost"
  /\ \A x \in Replies : (x.is = "waiting") <=> (x = Waiting)
<1>1. {Waiting, Failed, Lost} \subseteq Replies
  BY DEF Replies
<1>2. \A o \in Seq(AllPairs) : Ok(o) \in Replies
  BY DEF Replies
<1>3. Waiting # Failed /\ Waiting # Lost /\ Failed # Lost
      /\ Waiting.is = "waiting" /\ Failed.is = "failed" /\ Lost.is = "lost"
  BY DEF Waiting, Failed, Lost
<1>4. \A o : Ok(o).is = "ok" /\ Ok(o).outputs = o
  BY DEF Ok
<1>5. \A o : Ok(o) # Waiting
  BY <1>3, <1>4
<1>6. \A x \in Replies : (x.is = "waiting") <=> (x = Waiting)
  <2> TAKE x \in Replies
  <2>1. CASE x \in {Waiting, Failed, Lost}
    BY <2>1, <1>3
  <2>2. CASE x = [is |-> "unsent"]
    BY <2>2, <1>3
  <2>3. CASE \E o \in Seq(AllPairs) : x = Ok(o)
    BY <2>3, <1>3, <1>4
  <2> QED
    BY <2>1, <2>2, <2>3 DEF Replies
<1> QED
  BY <1>1, <1>2, <1>3, <1>4, <1>5, <1>6

LEMMA DispatchTypedInit ==
  ASSUME DispatchInit
  PROVE  DispatchTyped
<1>1. reply \in [Requests -> Replies]
  BY DEF DispatchInit, Replies
<1>2. Running = {}
  BY DEF DispatchInit, Running, Free
<1>3. IsFiniteSet(Sent)
  <2>1. Sent = {}
    BY DEF DispatchInit, Sent
  <2> QED
    BY <2>1, FS_EmptySet
<1>4. Known
  BY <1>2, ToSetEmpty DEF DispatchInit, Known
<1> QED
  BY <1>1, <1>2, <1>3, <1>4 DEF DispatchInit, DispatchTyped

\* What Send leaves as it is, and what it adds.
LEMMA SendIs ==
  ASSUME DispatchTyped, NEW r \in Requests, Send(r)
  PROVE  /\ r \notin Sent /\ Sent' = Sent \cup {r} /\ Cardinality(Sent') = Cardinality(Sent) + 1
         /\ IsFiniteSet(Sent') /\ Cardinality(Sent) \in Nat
         /\ reply' = [reply EXCEPT ![r] = IF open THEN Waiting ELSE Lost]
         /\ reply' \in [Requests -> Replies]
         /\ mailbox' = IF open THEN Append(mailbox, r) ELSE mailbox
         /\ sentAt' = [sentAt EXCEPT ![r] = Cardinality(Sent)]
<1>1. r \notin Sent
  BY DEF Send, Sent
<1>2. /\ reply' = [reply EXCEPT ![r] = IF open THEN Waiting ELSE Lost]
      /\ mailbox' = IF open THEN Append(mailbox, r) ELSE mailbox
      /\ sentAt' = [sentAt EXCEPT ![r] = Cardinality(Sent)]
  BY DEF Send
<1>3. reply \in [Requests -> Replies] /\ IsFiniteSet(Sent)
  BY DEF DispatchTyped
<1>4. reply' \in [Requests -> Replies]
  BY <1>2, <1>3, RepliesDiffer
<1>5. reply'[r].is # "unsent" /\ \A q \in Requests : q # r => reply'[q] = reply[q]
  BY <1>2, <1>3, RepliesDiffer
<1>6. Sent' = Sent \cup {r}
  BY <1>5 DEF Sent
<1>7. Cardinality(Sent) \in Nat
  BY <1>3, FS_CardinalityType
<1>8. IsFiniteSet(Sent \cup {r}) /\ Cardinality(Sent \cup {r}) = Cardinality(Sent) + 1
  <2> DEFINE S == Sent
  <2>1. IsFiniteSet(S) /\ r \notin S
    BY <1>1, <1>3
  <2> HIDE DEF S
  <2>2. IsFiniteSet(S \cup {r}) /\ Cardinality(S \cup {r}) = Cardinality(S) + 1
    BY <2>1, FS_AddElement
  <2> QED
    BY <2>2 DEF S
<1> QED
  BY <1>1, <1>2, <1>4, <1>6, <1>7, <1>8

LEMMA TypedSend ==
  ASSUME DispatchTyped, NEW r \in Requests, Send(r)
  PROVE  DispatchTyped'
<1>1. shape' = shape /\ worker' = worker /\ open' = open /\ queue' = queue /\ taken' = taken
      /\ crashes' = crashes
  BY DEF Send
<1>2. mailbox' \in Seq(Requests \cup {Shutdown})
  <2>1. mailbox \in Seq(Requests \cup {Shutdown}) /\ r \in Requests \cup {Shutdown}
    BY DEF DispatchTyped
  <2>2. Append(mailbox, r) \in Seq(Requests \cup {Shutdown})
    BY <2>1, AppendProperties
  <2> QED
    BY <2>1, <2>2, SendIs
<1>3. reply' \in [Requests -> Replies] /\ IsFiniteSet(Sent')
  BY SendIs
<1>4. sentAt' \in [Requests -> Nat]
  BY SendIs DEF DispatchTyped
<1>5. /\ worker' = [v \in Replicas |-> worker'[v]]
      /\ \A v \in Running' : FrameOK(worker[v])'
  BY <1>1, FramesStay
<1>6. IsFiniteSet(Sent)'
  BY <1>3
<1>7. Known'
  <2>1. Known /\ mailbox \in Seq(Requests \cup {Shutdown})
    BY DEF DispatchTyped
  <2>2. Sent \subseteq Sent' /\ r \in Sent' /\ Running' = Running
    BY <1>1, SendIs DEF Running
  <2>3. ToSet(mailbox') \subseteq ToSet(mailbox) \cup {r}
    <3>1. r \in Requests \cup {Shutdown}
      OBVIOUS
    <3>2. ToSet(Append(mailbox, r)) = ToSet(mailbox) \cup {r}
      BY <2>1, <3>1, ToSetAppend
    <3> QED
      BY <3>2, SendIs
  <2> QED
    BY <1>1, <2>1, <2>2, <2>3 DEF Known
<1> QED
  BY <1>1, <1>2, <1>3, <1>4, <1>5, <1>6, <1>7 DEF DispatchTyped

\* Requests that wait are told that the model is gone.
LEMMA LostAnswers ==
  ASSUME DispatchTyped, NEW rs, reply' = Answered(rs, Lost)
  PROVE  /\ reply' \in [Requests -> Replies]
         /\ \A r \in Requests : reply'[r] =
              IF r \in rs /\ reply[r] = Waiting THEN Lost ELSE reply[r]
         /\ Sent' = Sent
<1>1. Lost \in Replies /\ Waiting.is # "unsent" /\ Lost.is # "unsent"
  BY RepliesDiffer
<1>2. /\ reply' \in [Requests -> Replies]
      /\ \A r \in Requests : reply'[r] =
              IF r \in rs /\ reply[r] = Waiting THEN Lost ELSE reply[r]
  BY <1>1, AnsweredIs DEF DispatchTyped
<1>3. Sent' = Sent
  BY <1>1, <1>2 DEF Sent
<1> QED
  BY <1>2, <1>3

LEMMA SentStays ==
  ASSUME reply' = reply
  PROVE  Sent' = Sent
BY DEF Sent

\* The window that a dispatch takes off the queue.
LEMMA DispatchIs ==
  ASSUME DispatchTyped, NEW w \in Replicas, Dispatch(w)
  PROVE  \E window, x :
           /\ window \in Seq(Requests)
           /\ window # <<>> /\ queue = window \o queue'
           /\ queue' \in Seq(Requests) /\ taken' = taken \o window
           /\ worker' = [worker EXCEPT ![w] = x]
           /\ x.is = "busy" /\ x.window = window /\ FrameOK(x)
<1> DEFINE cap == EffectiveCap(queue)
           n == TakeCount(queue, cap)
           window == SubSeq(queue, 1, n)
           x == FirstFrame(window, cap)
<1>1. shape \in Mixes /\ queue \in Seq(Requests) /\ queue # <<>>
  BY DEF DispatchTyped, Dispatch
<1>2. /\ worker' = [worker EXCEPT ![w] = x] /\ taken' = taken \o window
      /\ queue' = SubSeq(queue, n + 1, Len(queue))
  BY DEF Dispatch
<1>3. cap \in Nat
  BY <1>1, EffectiveCapType
<1> HIDE DEF cap
<1>4. /\ n \in 1..Len(queue)
      /\ n > 1 => /\ Len(AllInputs(window)) <= Min(Caps(window) \cup {cap})
                  /\ Bytes(AllInputs(window)) <= ByteBudget
  BY <1>1, TakeCountIs
<1> HIDE DEF n
<1>5. Len(queue) \in Nat /\ n \in 0..Len(queue)
  BY <1>1, <1>4
<1>6. /\ window \in Seq(Requests) /\ SubSeq(queue, n + 1, Len(queue)) \in Seq(Requests)
      /\ Len(window) = n /\ window \o SubSeq(queue, n + 1, Len(queue)) = queue
  BY <1>1, <1>5, CutInTwo
<1> HIDE DEF window
<1>7. window # <<>>
  BY <1>4, <1>6
<1>8. x.is = "busy" /\ x.window = window /\ FrameOK(x)
  BY <1>1, <1>3, <1>4, <1>6, <1>7, FirstFrameOK
<1> HIDE DEF x
<1> QED
  BY <1>2, <1>6, <1>7, <1>8

LEMMA TypedDispatch ==
  ASSUME DispatchTyped, NEW w \in Replicas, Dispatch(w)
  PROVE  DispatchTyped'
<1>1. /\ shape' = shape /\ reply' = reply /\ mailbox' = mailbox /\ open' = open
      /\ sentAt' = sentAt /\ crashes' = crashes
  BY DEF Dispatch
<1>2. PICK window, x :
           /\ window \in Seq(Requests)
           /\ window # <<>> /\ queue = window \o queue'
           /\ queue' \in Seq(Requests) /\ taken' = taken \o window
           /\ worker' = [worker EXCEPT ![w] = x]
           /\ x.is = "busy" /\ x.window = window /\ FrameOK(x)
  BY DispatchIs
<1>3. /\ worker' = [v \in Replicas |-> worker'[v]]
      /\ \A v \in Replicas : worker'[v] = IF v = w THEN x ELSE worker[v]
      /\ \A v \in Running' : FrameOK(worker[v])'
  BY <1>1, <1>2, FramesStep
<1>4. taken' \in Seq(Requests)
  BY <1>2, ConcatProperties DEF DispatchTyped
<1>5. IsFiniteSet(Sent)'
  BY <1>1, SentStays DEF DispatchTyped
<1>6. Known'
  <2>1. Known
    BY DEF DispatchTyped
  <2>2. ToSet(queue) = ToSet(window) \cup ToSet(queue')
    BY <1>2, ToSetConcat
  <2>3. Sent' = Sent
    BY <1>1, SentStays
  <2>4. \A v \in Running' : v = w \/ (v \in Running /\ worker'[v] = worker[v])
    <3>1. worker' = [worker EXCEPT ![w] = x]
      BY <1>2
    <3>2. \A v \in Running' : v # w => v \in Running /\ worker'[v] = worker[v]
      BY <3>1, OthersStay
    <3> QED
      BY <3>2
  <2>5. worker'[w] = x
    BY <1>3
  <2>6. ToSet(x.window) \subseteq Sent
    BY <1>2, <2>1, <2>2 DEF Known
  <2> QED
    BY <1>1, <2>1, <2>2, <2>3, <2>4, <2>5, <2>6 DEF Known
<1> QED
  BY <1>1, <1>2, <1>3, <1>4, <1>5, <1>6 DEF DispatchTyped

LEMMA TypedBeginUnload ==
  ASSUME DispatchTyped, BeginUnload
  PROVE  DispatchTyped'
<1>1. /\ shape' = shape /\ reply' = reply /\ open' = open /\ queue' = queue
      /\ worker' = worker /\ sentAt' = sentAt /\ taken' = taken /\ crashes' = crashes
      /\ mailbox' = IF open THEN Append(mailbox, Shutdown) ELSE mailbox
  BY DEF BeginUnload
<1>2. mailbox' \in Seq(Requests \cup {Shutdown})
  <2>1. mailbox \in Seq(Requests \cup {Shutdown}) /\ Shutdown \in Requests \cup {Shutdown}
    BY DEF DispatchTyped
  <2>2. Append(mailbox, Shutdown) \in Seq(Requests \cup {Shutdown})
    BY <2>1, AppendProperties
  <2> QED
    BY <2>1, <2>2, <1>1
<1>3. /\ worker' = [v \in Replicas |-> worker'[v]]
      /\ \A v \in Running' : FrameOK(worker[v])'
  BY <1>1, FramesStay
<1>4. IsFiniteSet(Sent)'
  BY <1>1, SentStays DEF DispatchTyped
<1>5. Known'
  <2>1. Known /\ mailbox \in Seq(Requests \cup {Shutdown})
    BY DEF DispatchTyped
  <2>2. Sent' = Sent /\ Running' = Running
    BY <1>1, SentStays DEF Running
  <2>3. ToSet(mailbox') \subseteq ToSet(mailbox) \cup {Shutdown}
    <3>1. ToSet(Append(mailbox, Shutdown)) = ToSet(mailbox) \cup {Shutdown}
      BY <2>1, ToSetAppend
    <3> QED
      BY <3>1, <1>1
  <2> QED
    BY <1>1, <2>1, <2>2, <2>3 DEF Known
<1> QED
  BY <1>1, <1>2, <1>3, <1>4, <1>5 DEF DispatchTyped

\* The channel closes, or the mailbox without a Shutdown joins the queue.
LEMMA FailQueuedTypes ==
  ASSUME DispatchTyped, NEW next, FailQueued(next)
  PROVE  /\ reply' \in [Requests -> Replies] /\ Sent' = Sent
         /\ mailbox' = <<>> /\ queue' = <<>> /\ open' = FALSE /\ at' = next
         /\ \A r \in Requests : reply'[r] =
              IF r \in ToSet(queue) \cup ToSet(mailbox) /\ reply[r] = Waiting
              THEN Lost ELSE reply[r]
BY LostAnswers DEF FailQueued

LEMMA JoinedIs ==
  ASSUME DispatchTyped, Shutdown \notin ToSet(mailbox)
  PROVE  /\ mailbox \in Seq(Requests) /\ queue \o mailbox \in Seq(Requests)
<1>1. mailbox \in Seq(Requests \cup {Shutdown}) /\ queue \in Seq(Requests)
  BY DEF DispatchTyped
<1>2. \A i \in 1..Len(mailbox) : mailbox[i] \in Requests
  <2> TAKE i \in 1..Len(mailbox)
  <2>1. mailbox[i] \in Requests \cup {Shutdown}
    BY <1>1, ElementOfSeq
  <2>2. i \in DOMAIN mailbox
    BY <1>1
  <2>3. mailbox[i] \in ToSet(mailbox)
    BY <2>2, ToSetIs
  <2> QED
    BY <2>1, <2>3
<1>3. mailbox \in Seq(Requests)
  <2> DEFINE n == Len(mailbox)
  <2>1. n \in Int /\ 1 \in Int /\ \A i \in 1..n : mailbox[i] \in Requests
    BY <1>1, <1>2
  <2>2. SubSeq(mailbox, 1, n) \in Seq(Requests)
    <3> HIDE DEF n
    <3> QED
      BY <2>1, SubSeqProperties
  <2>3. SubSeq(mailbox, 1, Len(mailbox)) = mailbox
    BY <1>1, SubSeqFull
  <2> QED
    BY <2>2, <2>3
<1> QED
  BY <1>1, <1>3, ConcatProperties

LEMMA DrainIs ==
  ASSUME DispatchTyped, DrainMailbox
  PROVE  /\ reply' \in [Requests -> Replies] /\ Sent' = Sent
         /\ mailbox' = <<>> /\ queue' \in Seq(Requests) /\ open' \in BOOLEAN
         /\ ToSet(queue') \subseteq Sent
<1>1. CASE Shutdown \in ToSet(mailbox)
  <2>1. FailQueued("draining")
    BY <1>1 DEF DrainMailbox
  <2>2. /\ reply' \in [Requests -> Replies] /\ Sent' = Sent
        /\ mailbox' = <<>> /\ queue' = <<>> /\ open' = FALSE
    BY <2>1, FailQueuedTypes
  <2>3. \A x : x = <<>> => x \in Seq(Requests)
    OBVIOUS
  <2>4. queue' \in Seq(Requests) /\ ToSet(queue') = {}
    BY <2>2, <2>3, ToSetEmpty
  <2> QED
    BY <2>2, <2>4
<1>2. CASE Shutdown \notin ToSet(mailbox)
  <2>1. /\ reply' = reply /\ open' = open /\ mailbox' = <<>> /\ queue' = queue \o mailbox
    BY <1>2 DEF DrainMailbox
  <2>2. queue \o mailbox \in Seq(Requests)
    BY <1>2, JoinedIs
  <2>3. ToSet(queue \o mailbox) = ToSet(queue) \cup ToSet(mailbox)
    <3>1. queue \in Seq(Requests) /\ mailbox \in Seq(Requests)
      BY <1>2, JoinedIs DEF DispatchTyped
    <3> QED
      BY <3>1, ToSetConcat
  <2>4. ToSet(queue') \subseteq Sent
    BY <2>1, <2>3, <1>2 DEF DispatchTyped, Known
  <2> QED
    BY <2>1, <2>2, <2>4, SentStays DEF DispatchTyped
<1> QED
  BY <1>1, <1>2

\* A worker goes on from its frame to x: the requests of rs have their answers,
\* and those of the window that are left go with it.
AnswersOf(w, x, rs) ==
  /\ worker' = [worker EXCEPT ![w] = x]
  /\ x.is \in {"busy", "finished"} /\ (x.is = "finished" => ~x.fatal)
  /\ x.is = "busy" => FrameOK(x) /\ ToSet(x.window) \subseteq ToSet(worker[w].window)
  /\ rs \subseteq ToSet(worker[w].window)
  /\ reply' \in [Requests -> Replies]
  /\ \A r \in Requests :
       /\ r \in rs => reply'[r] = Ok(Inputs(r)) \/ (reply'[r] = Failed /\ Refusable(Inputs(r)))
       /\ r \notin rs => reply'[r] = reply[r]
  /\ \A r \in ToSet(worker[w].window) : r \in rs \/ (x.is = "busy" /\ r \in ToSet(x.window))

LEMMA WindowIs ==
  ASSUME NEW window \in Seq(Requests), window # <<>>
  PROVE  /\ Head(window) \in Requests /\ ToSet(window) \subseteq Requests
         /\ Head(window) \in ToSet(window)
         /\ Len(window) = 1 => ToSet(window) = {Head(window)}
<1>1. Head(window) \in Requests /\ Head(window) \in ToSet(window)
  BY HeadTailProperties, ToSetHeadTail
<1>2. ToSet(window) \subseteq Requests
  <2>1. \A i \in DOMAIN window : window[i] \in Requests
    <3> TAKE i \in DOMAIN window
    <3>1. i \in 1..Len(window)
      BY LenProperties
    <3> QED
      BY <3>1, ElementOfSeq
  <2> QED
    BY <2>1, ToSetIs
<1>3. ASSUME Len(window) = 1 PROVE ToSet(window) = {Head(window)}
  <2> DEFINE h == Head(window)
  <2>1. window = <<h>>
    BY <1>3, LenOne
  <2> HIDE DEF h
  <2>2. ToSet(window) = {h}
    BY <2>1, ToSetOne
  <2> QED
    BY <2>2 DEF h
<1> QED
  BY <1>1, <1>2, <1>3

\* A merged frame that is answered: every request gets the slice of its own.
LEMMA MergedAnswers ==
  ASSUME DispatchTyped, NEW w \in Running, PredictOk(w), worker[w].mode = "merged"
  PROVE  AnswersOf(w, Ended(FALSE), ToSet(worker[w].window))
<1> DEFINE f == worker[w]
           win == f.window
           rs == ToSet(win)
           ix(r) == CHOOSE i \in DOMAIN win : win[i] = r
<1>1. FrameOK(f) /\ reply \in [Requests -> Replies] /\ shape \in Mixes
  BY DEF DispatchTyped
<1>2. win \in Seq(Requests) /\ win # <<>> /\ f.sent = AllInputs(win)
  BY <1>1 DEF FrameOK
<1>3. /\ reply' = [r \in Requests |->
                    IF r \in rs THEN Ok(Slice(win, ix(r), f.sent)) ELSE reply[r]]
      /\ worker' = [worker EXCEPT ![w] = Ended(FALSE)]
  BY DEF PredictOk
<1>4. \A r \in rs : Slice(win, ix(r), f.sent) = Inputs(r)
  <2> TAKE r \in rs
  <2>1. \E i \in DOMAIN win : win[i] = r
    BY ToSetIs
  <2> DEFINE j == ix(r)
  <2>2. j \in DOMAIN win /\ win[j] = r
    BY <2>1
  <2> HIDE DEF j
  <2>3. Slice(win, j, AllInputs(win)) = Inputs(win[j])
    <3> HIDE DEF win
    <3> QED
      BY <1>1, <1>2, <2>2, SliceIs
  <2> QED
    BY <1>2, <2>2, <2>3 DEF j
<1>5. rs \subseteq Requests
  BY <1>2, WindowIs
<1>6. \A r \in Requests : reply'[r] = IF r \in rs THEN Ok(Inputs(r)) ELSE reply[r]
  BY <1>3, <1>4
<1>7. \A r \in Requests : Ok(Inputs(r)) \in Replies
  BY <1>1, InputsType, RepliesDiffer
<1>8. reply' \in [Requests -> Replies]
  <2>1. \A r \in Requests : reply'[r] \in Replies
    BY <1>1, <1>6, <1>7
  <2>2. reply' = [r \in Requests |-> reply'[r]]
    BY <1>3
  <2> QED
    BY <2>1, <2>2
<1>9. Ended(FALSE).is = "finished" /\ ~Ended(FALSE).fatal
  BY DEF Ended
<1> DEFINE x == Ended(FALSE)
<1>10. worker' = [worker EXCEPT ![w] = x] /\ x.is = "finished" /\ ~x.fatal
  BY <1>3, <1>9
<1>11. \A r \in Requests :
         /\ r \in rs => reply'[r] = Ok(Inputs(r)) \/ (reply'[r] = Failed /\ Refusable(Inputs(r)))
         /\ r \notin rs => reply'[r] = reply[r]
  BY <1>6
<1> HIDE DEF x
<1>12. AnswersOf(w, x, rs)
  BY <1>8, <1>10, <1>11 DEF AnswersOf
<1> QED
  BY <1>12 DEF x

\* One request of the window gets its answer.
LEMMA HeadAnswers ==
  ASSUME DispatchTyped, NEW w \in Running, NEW answer,
         answer = Ok(Inputs(Head(worker[w].window)))
           \/ (answer = Failed /\ Refusable(Inputs(Head(worker[w].window)))),
         reply' = [reply EXCEPT ![Head(worker[w].window)] = answer]
  PROVE  /\ reply' \in [Requests -> Replies]
         /\ \A r \in Requests :
              /\ r = Head(worker[w].window) =>
                   reply'[r] = Ok(Inputs(r)) \/ (reply'[r] = Failed /\ Refusable(Inputs(r)))
              /\ r # Head(worker[w].window) => reply'[r] = reply[r]
<1> DEFINE h == Head(worker[w].window)
<1>1. FrameOK(worker[w]) /\ reply \in [Requests -> Replies] /\ shape \in Mixes
  BY DEF DispatchTyped
<1>2. h \in Requests
  BY <1>1, WindowIs DEF FrameOK
<1>3. Ok(Inputs(h)) \in Replies /\ Failed \in Replies
  BY <1>1, <1>2, InputsType, RepliesDiffer
<1>4. reply' = [reply EXCEPT ![h] = answer]
  OBVIOUS
<1>5. answer = Ok(Inputs(h)) \/ (answer = Failed /\ Refusable(Inputs(h)))
  OBVIOUS
<1> HIDE DEF h
<1>6. reply' \in [Requests -> Replies]
  BY <1>1, <1>2, <1>3, <1>4, <1>5
<1>7. \A r \in Requests :
        /\ r = h => reply'[r] = Ok(Inputs(r)) \/ (reply'[r] = Failed /\ Refusable(Inputs(r)))
        /\ r # h => reply'[r] = reply[r]
  BY <1>1, <1>2, <1>4, <1>5
<1> QED
  BY <1>6, <1>7 DEF h

\* After the answer to the only request of a window, or to the head of a
\* fallback.
LEMMA WindowEnds ==
  ASSUME DispatchTyped, NEW w \in Running, worker[w].mode \in {"single", "retry"},
         NEW x, x = IF worker[w].mode = "retry" THEN NextRetry(worker[w]) ELSE Ended(FALSE)
  PROVE  /\ x.is \in {"busy", "finished"} /\ (x.is = "finished" => ~x.fatal)
         /\ x.is = "busy" => FrameOK(x) /\ ToSet(x.window) \subseteq ToSet(worker[w].window)
         /\ \A r \in ToSet(worker[w].window) :
              r = Head(worker[w].window) \/ (x.is = "busy" /\ r \in ToSet(x.window))
<1>1. FrameOK(worker[w]) /\ shape \in Mixes
  BY DEF DispatchTyped
<1> DEFINE f == worker[w]
           win == f.window
<1>2. win \in Seq(Requests) /\ win # <<>> /\ (f.mode = "single" => Len(win) = 1)
  BY <1>1 DEF FrameOK
<1>3. Ended(FALSE).is = "finished" /\ ~Ended(FALSE).fatal
  BY DEF Ended
<1>4. CASE Len(win) = 1
  <2>1. x = Ended(FALSE)
    BY <1>4 DEF NextRetry
  <2>2. ToSet(win) = {Head(win)}
    BY <1>2, <1>4, WindowIs
  <2> QED
    BY <2>1, <2>2, <1>3
<1>5. CASE Len(win) # 1
  <2>1. f.mode = "retry" /\ x = NextRetry(f)
    BY <1>2, <1>5
  <2>2. x.is = "busy" /\ x.window = Tail(win) /\ FrameOK(x)
    <3> HIDE DEF f
    <3>1. FrameOK(f)
      BY <1>1 DEF f
    <3>2. Len(f.window) # 1
      BY <1>5
    <3>3. /\ NextRetry(f).is = "busy" /\ NextRetry(f).window = Tail(f.window)
          /\ FrameOK(NextRetry(f))
      BY <1>1, <2>1, <3>1, <3>2, NextRetryOK
    <3> QED
      BY <2>1, <3>3
  <2>3. ToSet(win) = {Head(win)} \cup ToSet(Tail(win))
    BY <1>2, ToSetHeadTail
  <2> QED
    BY <2>2, <2>3
<1> QED
  BY <1>4, <1>5

\* A part of a request can be refused only if the request can.
LEMMA RefusedPart ==
  ASSUME NEW a \in Seq(AllPairs), NEW b \in Seq(AllPairs), NEW c \in Seq(AllPairs),
         Refusable(b)
  PROVE  Refusable(a \o (b \o c))
<1> DEFINE bc == b \o c
           abc == a \o bc
<1>1. PICK i \in DOMAIN b : BadInput(b[i])
  BY DEF Refusable
<1>2. /\ Len(a) \in Nat /\ Len(b) \in Nat /\ Len(c) \in Nat /\ DOMAIN b = 1..Len(b)
  OBVIOUS
<1>3. /\ bc \in Seq(AllPairs) /\ Len(bc) = Len(b) + Len(c)
      /\ \A j \in 1..(Len(b) + Len(c)) : bc[j] = IF j <= Len(b) THEN b[j] ELSE c[j - Len(b)]
  BY ConcatProperties
<1> HIDE DEF bc
<1>4. /\ abc \in Seq(AllPairs) /\ Len(abc) = Len(a) + Len(bc)
      /\ \A j \in 1..(Len(a) + Len(bc)) : abc[j] = IF j <= Len(a) THEN a[j] ELSE bc[j - Len(a)]
  <2>1. bc \in Seq(AllPairs)
    BY <1>3
  <2> QED
    BY <2>1, ConcatProperties
<1> HIDE DEF abc
<1>5. i \in 1..(Len(b) + Len(c)) /\ i <= Len(b) /\ i \in Nat \ {0}
  BY <1>1, <1>2
<1>6. bc[i] = b[i]
  BY <1>3, <1>5
<1>7. /\ Len(a) + i \in 1..(Len(a) + Len(bc)) /\ ~(Len(a) + i <= Len(a))
      /\ (Len(a) + i) - Len(a) = i
  BY <1>2, <1>3, <1>5
<1>8. abc[Len(a) + i] = b[i]
  BY <1>4, <1>6, <1>7
<1>9. Len(a) + i \in DOMAIN abc
  BY <1>4, <1>7, LenProperties
<1>10. Refusable(abc)
  BY <1>1, <1>8, <1>9 DEF Refusable
<1> QED
  BY <1>10 DEF abc, bc

\* What a frame of one request says of that request.
LEMMA OneRequestFrame ==
  ASSUME NEW f, FrameOK(f)
  PROVE  /\ f.mode = "single" /\ f.rest = <<>> => f.outputs \o f.sent = Inputs(Head(f.window))
         /\ f.mode = "retry" => f.sent = Inputs(Head(f.window))
         /\ f.mode # "merged" /\ Refusable(f.sent) => Refusable(Inputs(Head(f.window)))
<1> DEFINE a == f.outputs
           b == f.sent
           c == f.rest
           h == Head(f.window)
<1>1. /\ a \in Seq(AllPairs) /\ b \in Seq(AllPairs) /\ c \in Seq(AllPairs)
      /\ f.mode \in {"single", "merged", "retry"}
      /\ f.mode = "single" => a \o (b \o c) = Inputs(h)
      /\ f.mode = "retry" => b = Inputs(h)
  BY DEF FrameOK
<1> HIDE DEF a, b, c, h
<1>2. ASSUME f.mode = "single", c = <<>> PROVE a \o b = Inputs(h)
  <2>1. b \o c = b
    BY <1>1, <1>2, ConcatEmptySeq
  <2> QED
    BY <2>1, <1>1, <1>2
<1>3. ASSUME f.mode # "merged", Refusable(b) PROVE Refusable(Inputs(h))
  <2>1. CASE f.mode = "single"
    <3>1. Refusable(a \o (b \o c))
      BY <1>1, <1>3, RefusedPart
    <3> QED
      BY <2>1, <3>1, <1>1
  <2>2. CASE f.mode = "retry"
    BY <2>2, <1>1, <1>3
  <2> QED
    BY <1>1, <1>3, <2>1, <2>2
<1> QED
  BY <1>1, <1>2, <1>3 DEF a, b, c, h

\* One request of a window of one, or the head of a fallback, is answered.
LEMMA OneAnswered ==
  ASSUME DispatchTyped, NEW w \in Running, worker[w].mode \in {"single", "retry"}, NEW answer,
         answer = Ok(Inputs(Head(worker[w].window)))
           \/ (answer = Failed /\ Refusable(Inputs(Head(worker[w].window)))),
         reply' = [reply EXCEPT ![Head(worker[w].window)] = answer],
         NEW x, x = IF worker[w].mode = "retry" THEN NextRetry(worker[w]) ELSE Ended(FALSE),
         worker' = [worker EXCEPT ![w] = x]
  PROVE  AnswersOf(w, x, {Head(worker[w].window)})
<1> DEFINE h == Head(worker[w].window)
           rs == {h}
<1>1. /\ reply' \in [Requests -> Replies]
      /\ \A r \in Requests :
              /\ r = h => reply'[r] = Ok(Inputs(r)) \/ (reply'[r] = Failed /\ Refusable(Inputs(r)))
              /\ r # h => reply'[r] = reply[r]
  BY HeadAnswers
<1>2. /\ x.is \in {"busy", "finished"} /\ (x.is = "finished" => ~x.fatal)
      /\ x.is = "busy" => FrameOK(x) /\ ToSet(x.window) \subseteq ToSet(worker[w].window)
      /\ \A r \in ToSet(worker[w].window) :
              r = h \/ (x.is = "busy" /\ r \in ToSet(x.window))
  BY WindowEnds
<1>3. h \in ToSet(worker[w].window)
  BY WindowIs DEF DispatchTyped, FrameOK
<1> HIDE DEF h
<1>4. AnswersOf(w, x, rs)
  BY <1>1, <1>2, <1>3 DEF AnswersOf
<1> QED
  BY <1>4 DEF h

\* Nobody is answered: the frame changes and its requests stay with it.
LEMMA NoneAnswered ==
  ASSUME DispatchTyped, NEW w \in Running, NEW x, worker' = [worker EXCEPT ![w] = x],
         x.is = "busy", FrameOK(x), x.window = worker[w].window, reply' = reply
  PROVE  AnswersOf(w, x, {})
<1>1. reply' \in [Requests -> Replies] /\ \A r \in Requests : reply'[r] = reply[r]
  BY DEF DispatchTyped
<1> QED
  BY <1>1 DEF AnswersOf

LEMMA AnswersOk ==
  ASSUME DispatchTyped, NEW w \in Running, PredictOk(w)
  PROVE  \E x, rs : AnswersOf(w, x, rs)
<1>1. FrameOK(worker[w]) /\ shape \in Mixes
  BY DEF DispatchTyped
<1> DEFINE f == worker[w]
           h == Head(f.window)
<1>2. f.mode \in {"single", "merged", "retry"}
  BY <1>1 DEF FrameOK
<1>3. CASE f.mode = "merged"
  BY <1>3, MergedAnswers
<1>4. CASE f.mode = "retry"
  <2> DEFINE x == NextRetry(f)
  <2>1. reply' = [reply EXCEPT ![h] = Ok(f.sent)] /\ worker' = [worker EXCEPT ![w] = x]
    BY <1>4 DEF PredictOk
  <2>2. Ok(f.sent) = Ok(Inputs(h))
    BY <1>1, <1>4, OneRequestFrame
  <2>3. x = IF f.mode = "retry" THEN NextRetry(f) ELSE Ended(FALSE)
    BY <1>4
  <2> HIDE DEF x
  <2>4. AnswersOf(w, x, {h})
    BY <1>4, <2>1, <2>2, <2>3, OneAnswered
  <2> QED
    BY <2>4
<1>5. CASE f.mode = "single" /\ f.rest # <<>>
  <2> DEFINE x == Frame("single", f.window, f.rest, SubBatchLen(f.rest, f.cap),
                        f.outputs \o f.sent, f.cap)
  <2>1. worker' = [worker EXCEPT ![w] = x] /\ reply' = reply
    BY <1>5 DEF PredictOk
  <2>2. x.is = "busy" /\ x.window = f.window
    BY DEF Frame
  <2>3. FrameOK(x)
    <3> HIDE DEF f
    <3>1. FrameOK(f)
      BY <1>1 DEF f
    <3> QED
      BY <1>1, <1>5, <3>1, NextPartOK
  <2> HIDE DEF x
  <2>4. AnswersOf(w, x, {})
    BY <2>1, <2>2, <2>3, NoneAnswered
  <2> QED
    BY <2>4
<1>6. CASE f.mode = "single" /\ f.rest = <<>>
  <2> DEFINE x == Ended(FALSE)
  <2>1. reply' = [reply EXCEPT ![h] = Ok(f.outputs \o f.sent)] /\ worker' = [worker EXCEPT ![w] = x]
    BY <1>6 DEF PredictOk
  <2>2. Ok(f.outputs \o f.sent) = Ok(Inputs(h))
    BY <1>1, <1>6, OneRequestFrame
  <2>3. x = IF f.mode = "retry" THEN NextRetry(f) ELSE Ended(FALSE)
    BY <1>6
  <2> HIDE DEF x
  <2>4. AnswersOf(w, x, {h})
    BY <1>6, <2>1, <2>2, <2>3, OneAnswered
  <2> QED
    BY <2>4
<1> QED
  BY <1>2, <1>3, <1>4, <1>5, <1>6

LEMMA AnswersFail ==
  ASSUME DispatchTyped, NEW w \in Running, PredictFails(w)
  PROVE  \E x, rs : AnswersOf(w, x, rs)
<1>1. FrameOK(worker[w]) /\ shape \in Mixes
  BY DEF DispatchTyped
<1> DEFINE f == worker[w]
           h == Head(f.window)
<1>2. f.mode \in {"single", "merged", "retry"}
  BY <1>1 DEF FrameOK
<1>3. CASE f.mode = "merged"
  <2> DEFINE x == RetryFrame(f.window, f.sent, f.cap)
  <2>1. worker' = [worker EXCEPT ![w] = x] /\ reply' = reply
    BY <1>3 DEF PredictFails
  <2>2. x.is = "busy" /\ x.window = f.window
    BY DEF RetryFrame, Frame
  <2>3. FrameOK(x)
    <3> HIDE DEF f
    <3>1. FrameOK(f)
      BY <1>1 DEF f
    <3> QED
      BY <1>1, <1>3, <3>1, FallbackFrame
  <2> HIDE DEF x
  <2>4. AnswersOf(w, x, {})
    BY <2>1, <2>2, <2>3, NoneAnswered
  <2> QED
    BY <2>4
<1>4. CASE f.mode # "merged"
  <2> DEFINE x == IF f.mode = "retry" THEN NextRetry(f) ELSE Ended(FALSE)
  <2>1. /\ reply' = [reply EXCEPT ![h] = Failed] /\ worker' = [worker EXCEPT ![w] = x]
        /\ Refusable(f.sent)
    BY <1>4 DEF PredictFails
  <2>2. Refusable(Inputs(h))
    BY <1>1, <1>4, <2>1, OneRequestFrame
  <2> DEFINE answer == Failed
  <2>3. /\ answer = Ok(Inputs(h)) \/ (answer = Failed /\ Refusable(Inputs(h)))
        /\ reply' = [reply EXCEPT ![h] = answer]
    BY <2>1, <2>2
  <2>4. x = IF f.mode = "retry" THEN NextRetry(f) ELSE Ended(FALSE)
    OBVIOUS
  <2> HIDE DEF x, answer
  <2>5. AnswersOf(w, x, {h})
    BY <1>2, <1>4, <2>1, <2>3, <2>4, OneAnswered
  <2> QED
    BY <2>5
<1> QED
  BY <1>3, <1>4

LEMMA WedgesIs ==
  ASSUME DispatchTyped, NEW w \in Running, Wedges(w)
  PROVE  \E x, rs : AnswersOf(w, x, rs)
<1> DEFINE f == worker[w]
           x == [f EXCEPT !.wedged = TRUE]
<1>1. worker' = [worker EXCEPT ![w] = x] /\ reply' = reply
  BY DEF Wedges
<1>2. f.is = "busy" /\ FrameOK(f)
  BY DEF Running, DispatchTyped
<1>3. /\ x.is = f.is /\ x.window = f.window /\ x.sent = f.sent /\ x.rest = f.rest
      /\ x.outputs = f.outputs /\ x.mode = f.mode
  OBVIOUS
<1> HIDE DEF x
<1>4. FrameOK(x)
  BY <1>2, <1>3 DEF FrameOK
<1>5. AnswersOf(w, x, {})
  BY <1>1, <1>2, <1>3, <1>4, NoneAnswered
<1> QED
  BY <1>5

\* No step but Send and BeginUnload adds to what has been sent.
LEMMA TypedStep ==
  ASSUME DispatchTyped, shape' = shape, sentAt' = sentAt, Sent' = Sent,
         taken' = taken, reply' \in [Requests -> Replies],
         mailbox' = mailbox \/ mailbox' = <<>>,
         queue' = queue \/ (queue' \in Seq(Requests) /\ ToSet(queue') \subseteq Sent),
         crashes' \in Nat, open' \in BOOLEAN,
         worker' = [v \in Replicas |-> worker'[v]],
         \A v \in Running' : FrameOK(worker[v])',
         \A v \in Running' : ToSet(worker'[v].window) \subseteq Sent
  PROVE  DispatchTyped'
<1>1. mailbox' \in Seq(Requests \cup {Shutdown})
      /\ ToSet(mailbox') \subseteq Sent \cup {Shutdown}
  <2>1. CASE mailbox' = mailbox
    BY <2>1 DEF DispatchTyped, Known
  <2>2. CASE mailbox' = <<>>
    <3>1. \A x : x = <<>> => x \in Seq(Requests \cup {Shutdown})
      OBVIOUS
    <3> QED
      BY <2>2, <3>1, ToSetEmpty
  <2> QED
    BY <2>1, <2>2
<1>2. queue' \in Seq(Requests) /\ ToSet(queue') \subseteq Sent
  BY DEF DispatchTyped, Known
<1>3. Known'
  <2>1. Sent' = Sent
    OBVIOUS
  <2>2. \A v \in Running' : ToSet(worker'[v].window) \subseteq Sent'
    BY <2>1
  <2>3. ToSet(queue') \subseteq Sent' /\ ToSet(mailbox') \subseteq Sent' \cup {Shutdown}
    BY <1>1, <1>2, <2>1
  <2> QED
    BY <2>2, <2>3 DEF Known
<1>4. IsFiniteSet(Sent)' /\ taken' \in Seq(Requests) /\ sentAt' \in [Requests -> Nat]
      /\ shape' \in Mixes
  BY DEF DispatchTyped
<1> QED
  BY <1>1, <1>2, <1>3, <1>4 DEF DispatchTyped

\* Before and after a step of one worker that ends in x.
LEMMA WorkerStep ==
  ASSUME DispatchTyped, shape' = shape, NEW w \in Replicas, NEW x,
         worker' = [worker EXCEPT ![w] = x],
         x.is = "busy" => FrameOK(x) /\ ToSet(x.window) \subseteq Sent
  PROVE  /\ worker' = [v \in Replicas |-> worker'[v]]
         /\ \A v \in Running' : FrameOK(worker[v])'
         /\ \A v \in Running' : ToSet(worker'[v].window) \subseteq Sent
<1>1. /\ worker' = [v \in Replicas |-> worker'[v]]
      /\ \A v \in Running' : FrameOK(worker[v])'
  BY FramesStep
<1>2. \A v \in Running' : /\ v = w => x.is = "busy" /\ worker'[v] = x
                          /\ v # w => v \in Running /\ worker'[v] = worker[v]
  BY OthersStay
<1>3. \A v \in Running : ToSet(worker[v].window) \subseteq Sent
  BY DEF DispatchTyped, Known
<1> QED
  BY <1>1, <1>2, <1>3

LEMMA WorkersAsTheyAre ==
  ASSUME DispatchTyped, shape' = shape, worker' = worker
  PROVE  /\ worker' = [v \in Replicas |-> worker'[v]]
         /\ \A v \in Running' : FrameOK(worker[v])'
         /\ \A v \in Running' : ToSet(worker'[v].window) \subseteq Sent
<1>1. Running' = Running
  BY DEF Running
<1> QED
  BY <1>1, FramesStay DEF DispatchTyped, Known

\* Answers go to requests that were sent.
LEMMA AnswersSent ==
  ASSUME DispatchTyped, NEW w \in Running, NEW x, NEW rs, AnswersOf(w, x, rs)
  PROVE  Sent' = Sent
<1>1. rs \subseteq Sent
  BY DEF AnswersOf, DispatchTyped, Known
<1>2. \A r \in Requests :
       /\ r \in rs => reply'[r].is \in {"ok", "failed"}
       /\ r \notin rs => reply'[r] = reply[r]
  BY RepliesDiffer DEF AnswersOf
<1>3. \A r \in Requests : reply'[r].is # "unsent" <=> reply[r].is # "unsent"
  BY <1>1, <1>2 DEF Sent
<1> QED
  BY <1>3 DEF Sent

LEMMA TypedAnswers ==
  ASSUME DispatchTyped, NEW w \in Running, NEW x, NEW rs, AnswersOf(w, x, rs),
         UNCHANGED <<shape, mailbox, open, queue, sentAt, taken, crashes>>
  PROVE  DispatchTyped'
<1>1. w \in Replicas /\ ToSet(worker[w].window) \subseteq Sent
  BY DEF Running, DispatchTyped, Known
<1>2. /\ worker' = [worker EXCEPT ![w] = x]
      /\ x.is = "busy" => FrameOK(x) /\ ToSet(x.window) \subseteq Sent
      /\ reply' \in [Requests -> Replies]
  BY <1>1 DEF AnswersOf
<1>3. /\ worker' = [v \in Replicas |-> worker'[v]]
      /\ \A v \in Running' : FrameOK(worker[v])'
      /\ \A v \in Running' : ToSet(worker'[v].window) \subseteq Sent
  <2>1. shape' = shape
    OBVIOUS
  <2> QED
    BY <1>1, <1>2, <2>1, WorkerStep
<1>4. Sent' = Sent
  BY AnswersSent
<1>5. crashes' \in Nat /\ open' \in BOOLEAN
  BY DEF DispatchTyped
<1> QED
  BY <1>2, <1>3, <1>4, <1>5, TypedStep

LEMMA StateNames ==
  /\ Free.is = "free" /\ Gone.is = "gone"
  /\ \A b : Ended(b).is = "finished" /\ Ended(b).fatal = b
BY DEF Free, Gone, Ended

\* A worker stops, whoever is told so.
LEMMA TypedStop ==
  ASSUME DispatchTyped, NEW w \in Replicas, NEW x, x.is # "busy",
         worker' = [worker EXCEPT ![w] = x],
         UNCHANGED <<shape, sentAt, taken>>,
         reply' \in [Requests -> Replies], Sent' = Sent,
         mailbox' = mailbox \/ mailbox' = <<>>,
         queue' = queue \/ (queue' \in Seq(Requests) /\ ToSet(queue') \subseteq Sent),
         crashes' \in Nat, open' \in BOOLEAN
  PROVE  DispatchTyped'
<1>1. /\ worker' = [v \in Replicas |-> worker'[v]]
      /\ \A v \in Running' : FrameOK(worker[v])'
      /\ \A v \in Running' : ToSet(worker'[v].window) \subseteq Sent
  <2>1. shape' = shape
    OBVIOUS
  <2> QED
    BY <2>1, WorkerStep
<1> QED
  BY <1>1, TypedStep

LEMMA TypedDies ==
  ASSUME DispatchTyped, NEW w \in Replicas, ReplicaDies(w)
  PROVE  DispatchTyped'
<1> DEFINE x == Ended(TRUE)
           rs == ToSet(worker[w].window)
<1>1. /\ worker' = [worker EXCEPT ![w] = x] /\ reply' = Answered(rs, Lost)
      /\ crashes' = crashes + 1
      /\ UNCHANGED <<shape, mailbox, open, queue, sentAt, taken>>
  BY DEF ReplicaDies
<1>2. x.is # "busy"
  BY StateNames
<1> HIDE DEF x, rs
<1>3. reply' \in [Requests -> Replies] /\ Sent' = Sent
  BY <1>1, LostAnswers
<1>4. crashes' \in Nat /\ open' \in BOOLEAN
  BY <1>1 DEF DispatchTyped
<1> QED
  BY <1>1, <1>2, <1>3, <1>4, TypedStop

LEMMA TypedAbort ==
  ASSUME DispatchTyped, NEW w \in Replicas, Abort(w)
  PROVE  DispatchTyped'
<1> DEFINE rs == ToSet(worker[w].window)
<1>1. /\ worker' = [worker EXCEPT ![w] = Gone]
      /\ reply' = (IF w \in Running THEN Answered(rs, Lost) ELSE reply)
      /\ UNCHANGED <<shape, mailbox, open, queue, sentAt, taken, crashes>>
  BY DEF Abort
<1>2. Gone.is # "busy"
  BY StateNames
<1> HIDE DEF rs
<1>3. reply' \in [Requests -> Replies] /\ Sent' = Sent
  <2>1. CASE reply' = Answered(rs, Lost)
    BY <2>1, LostAnswers
  <2>2. CASE reply' = reply
    BY <2>2, SentStays DEF DispatchTyped
  <2> QED
    BY <1>1, <2>1, <2>2
<1>4. crashes' \in Nat /\ open' \in BOOLEAN
  BY <1>1 DEF DispatchTyped
<1> QED
  BY <1>1, <1>2, <1>3, <1>4, TypedStop

LEMMA TypedJoinDraining ==
  ASSUME DispatchTyped, NEW w \in Replicas, JoinDraining(w)
  PROVE  DispatchTyped'
<1> DEFINE x == IF worker[w].fatal THEN Gone ELSE Free
<1>1. /\ worker' = [worker EXCEPT ![w] = x] /\ reply' = reply
      /\ UNCHANGED <<shape, mailbox, open, queue, sentAt, taken, crashes>>
  BY DEF JoinDraining
<1>2. x.is # "busy"
  BY StateNames
<1> HIDE DEF x
<1>3. reply' \in [Requests -> Replies] /\ Sent' = Sent
  BY <1>1, SentStays DEF DispatchTyped
<1>4. crashes' \in Nat /\ open' \in BOOLEAN
  BY <1>1 DEF DispatchTyped
<1> QED
  BY <1>1, <1>2, <1>3, <1>4, TypedStop

LEMMA TypedJoin ==
  ASSUME DispatchTyped, NEW w \in Replicas, Join(w)
  PROVE  DispatchTyped'
<1>1. UNCHANGED <<shape, sentAt, taken, crashes>> /\ crashes' \in Nat
  BY DEF Join, DispatchTyped
<1>2. CASE worker[w].fatal
  <2>1. worker' = [worker EXCEPT ![w] = Gone] /\ UNCHANGED <<reply, mailbox, open, queue>>
    BY <1>2 DEF Join
  <2>2. reply' \in [Requests -> Replies] /\ Sent' = Sent /\ open' \in BOOLEAN
    BY <2>1, SentStays DEF DispatchTyped
  <2>3. Gone.is # "busy"
    BY StateNames
  <2> QED
    BY <1>1, <2>1, <2>2, <2>3, TypedStop
<1>3. CASE ~worker[w].fatal
  <2>1. worker' = [worker EXCEPT ![w] = Free] /\ DrainMailbox
    BY <1>3 DEF Join
  <2>2. /\ reply' \in [Requests -> Replies] /\ Sent' = Sent
        /\ mailbox' = <<>> /\ queue' \in Seq(Requests) /\ open' \in BOOLEAN
        /\ ToSet(queue') \subseteq Sent
    BY <2>1, DrainIs
  <2>3. Free.is # "busy"
    BY StateNames
  <2> QED
    BY <1>1, <2>1, <2>2, <2>3, TypedStop
<1> QED
  BY <1>2, <1>3

LEMMA TypedReceive ==
  ASSUME DispatchTyped, Receive
  PROVE  DispatchTyped'
<1>1. /\ UNCHANGED <<shape, worker, sentAt, taken, crashes>> /\ crashes' \in Nat
      /\ DrainMailbox
  BY DEF Receive, DispatchTyped
<1>2. /\ reply' \in [Requests -> Replies] /\ Sent' = Sent
      /\ mailbox' = <<>> /\ queue' \in Seq(Requests) /\ open' \in BOOLEAN
      /\ ToSet(queue') \subseteq Sent
  BY <1>1, DrainIs
<1>3. /\ worker' = [v \in Replicas |-> worker'[v]]
      /\ \A v \in Running' : FrameOK(worker[v])'
      /\ \A v \in Running' : ToSet(worker'[v].window) \subseteq Sent
  BY <1>1, WorkersAsTheyAre
<1> QED
  BY <1>1, <1>2, <1>3, TypedStep

LEMMA TypedFailFatal ==
  ASSUME DispatchTyped, FailFatal
  PROVE  DispatchTyped'
<1>1. /\ UNCHANGED <<shape, worker, sentAt, taken, crashes>> /\ crashes' \in Nat
      /\ FailQueued("aborting")
  BY DEF FailFatal, DispatchTyped
<1>2. /\ reply' \in [Requests -> Replies] /\ Sent' = Sent
      /\ mailbox' = <<>> /\ queue' = <<>> /\ open' = FALSE
  BY <1>1, FailQueuedTypes
<1>3. queue' \in Seq(Requests) /\ ToSet(queue') \subseteq Sent
  <2>1. \A x : x = <<>> => x \in Seq(Requests)
    OBVIOUS
  <2> QED
    BY <1>2, <2>1, ToSetEmpty
<1>4. /\ worker' = [v \in Replicas |-> worker'[v]]
      /\ \A v \in Running' : FrameOK(worker[v])'
      /\ \A v \in Running' : ToSet(worker'[v].window) \subseteq Sent
  BY <1>1, WorkersAsTheyAre
<1> QED
  BY <1>1, <1>2, <1>3, <1>4, TypedStep

LEMMA TypedExit ==
  ASSUME DispatchTyped, Exit
  PROVE  DispatchTyped'
<1>1. /\ UNCHANGED <<shape, reply, mailbox, open, queue, sentAt, taken, crashes>>
      /\ worker' = [v \in Replicas |-> Gone]
  BY DEF Exit
<1>2. Running' = {}
  BY <1>1, StateNames DEF Running
<1>3. worker' = [v \in Replicas |-> worker'[v]]
  BY <1>1
<1>4. reply' \in [Requests -> Replies] /\ Sent' = Sent /\ crashes' \in Nat /\ open' \in BOOLEAN
  BY <1>1, SentStays DEF DispatchTyped
<1> QED
  BY <1>1, <1>2, <1>3, <1>4, TypedStep

LEMMA TypedRest ==
  ASSUME DispatchTyped, GraceExpires \/ UNCHANGED dispatch
  PROVE  DispatchTyped'
<1>1. UNCHANGED <<shape, reply, mailbox, open, queue, worker, sentAt, taken, crashes>>
  BY DEF GraceExpires, dispatch
<1>2. /\ worker' = [v \in Replicas |-> worker'[v]]
      /\ \A v \in Running' : FrameOK(worker[v])'
      /\ \A v \in Running' : ToSet(worker'[v].window) \subseteq Sent
  BY <1>1, WorkersAsTheyAre
<1>3. reply' \in [Requests -> Replies] /\ Sent' = Sent /\ crashes' \in Nat /\ open' \in BOOLEAN
  BY <1>1, SentStays DEF DispatchTyped
<1> QED
  BY <1>1, <1>2, <1>3, TypedStep

\* What a window task does next, the worker alive.
LEMMA AnswersAre ==
  ASSUME DispatchTyped, NEW w \in Replicas, Predict(w) \/ Wedges(w)
  PROVE  /\ w \in Running /\ \E x, rs : AnswersOf(w, x, rs)
         /\ UNCHANGED <<shape, mailbox, open, queue, at, sentAt, taken, unloaded, crashes>>
<1>1. CASE PredictOk(w)
  <2>1. w \in Running
    BY <1>1 DEF PredictOk, Answering
  <2>2. \E x, rs : AnswersOf(w, x, rs)
    BY <1>1, <2>1, AnswersOk
  <2> QED
    BY <1>1, <2>1, <2>2 DEF PredictOk
<1>2. CASE PredictFails(w)
  <2>1. w \in Running
    BY <1>2 DEF PredictFails, Answering
  <2>2. \E x, rs : AnswersOf(w, x, rs)
    BY <1>2, <2>1, AnswersFail
  <2> QED
    BY <1>2, <2>1, <2>2 DEF PredictFails
<1>3. CASE Wedges(w)
  <2>1. w \in Running
    BY <1>3 DEF Wedges, Answering
  <2>2. \E x, rs : AnswersOf(w, x, rs)
    BY <1>3, <2>1, WedgesIs
  <2> QED
    BY <1>3, <2>1, <2>2 DEF Wedges
<1> QED
  BY <1>1, <1>2, <1>3 DEF Predict

LEMMA TypedNext ==
  ASSUME DispatchTyped, [DispatchNext]_dispatch
  PROVE  DispatchTyped'
<1>1. ASSUME NEW r \in Requests, Send(r) PROVE DispatchTyped'
  BY <1>1, TypedSend
<1>2. CASE BeginUnload
  BY <1>2, TypedBeginUnload
<1>3. CASE Receive
  BY <1>3, TypedReceive
<1>4. CASE FailFatal
  BY <1>4, TypedFailFatal
<1>5. CASE Exit
  BY <1>5, TypedExit
<1>6. ASSUME NEW w \in Replicas, Loop(w) PROVE DispatchTyped'
  BY <1>6, TypedDispatch, TypedJoin, TypedJoinDraining, TypedAbort DEF Loop
<1>7. ASSUME NEW w \in Replicas, Predict(w) \/ Wedges(w) PROVE DispatchTyped'
  <2>1. /\ w \in Running /\ \E x, rs : AnswersOf(w, x, rs)
        /\ UNCHANGED <<shape, mailbox, open, queue, at, sentAt, taken, unloaded, crashes>>
    BY <1>7, AnswersAre
  <2>2. PICK x, rs : AnswersOf(w, x, rs)
    BY <2>1
  <2> QED
    BY <2>1, <2>2, TypedAnswers
<1>8. ASSUME NEW w \in Replicas, ReplicaDies(w) PROVE DispatchTyped'
  BY <1>8, TypedDies
<1>9. CASE GraceExpires \/ UNCHANGED dispatch
  BY <1>9, TypedRest
<1>10. CASE Quiet
  BY <1>10, <1>9 DEF Quiet
<1> QED
  BY <1>1, <1>2, <1>3, <1>4, <1>5, <1>6, <1>7, <1>8, <1>9, <1>10 DEF DispatchNext

LEMMA RefusableKept ==
  ASSUME NEW inputs, shape' = shape
  PROVE  Refusable(inputs)' <=> Refusable(inputs)
BY DEF Refusable, BadInput

\* What an answer may become in one step.
Grounded(r) ==
  \/ reply'[r] \in {reply[r], Waiting, Ok(Inputs(r))}
  \/ (reply'[r] = Failed /\ Refusable(Inputs(r)))
  \/ (reply'[r] = Lost /\ (unloaded' \/ crashes' > 0))

LEMMA FatesStep ==
  ASSUME DispatchTyped, Fates, shape' = shape, unloaded => unloaded',
         crashes > 0 => crashes' > 0,
         \A r \in Requests : Grounded(r),
         \A v \in Finished' : worker'[v].fatal => crashes' > 0,
         Shutdown \in ToSet(mailbox') => unloaded',
         at' # "loop" \/ ~open' => unloaded' \/ crashes' > 0
  PROVE  Fates'
<1>1. ASSUME NEW r \in Requests
      PROVE  /\ reply'[r].is = "ok" => reply'[r].outputs = Inputs(r)
             /\ reply'[r].is = "failed" => Refusable(Inputs(r))
             /\ reply'[r].is = "lost" => unloaded' \/ crashes' > 0
  <2>1. /\ reply[r].is = "ok" => reply[r].outputs = Inputs(r)
        /\ reply[r].is = "failed" => Refusable(Inputs(r))
        /\ reply[r].is = "lost" => unloaded \/ crashes > 0
    BY DEF Fates, OutputsAreItsOwn, OnlyThePoisonedFail
  <2>2. Grounded(r)
    OBVIOUS
  <2>3. CASE reply'[r] = reply[r]
    BY <2>1, <2>3
  <2>4. CASE reply'[r] = Waiting
    BY <2>4, RepliesDiffer
  <2>5. CASE reply'[r] = Ok(Inputs(r))
    BY <2>5, RepliesDiffer
  <2>6. CASE reply'[r] = Failed /\ Refusable(Inputs(r))
    BY <2>6, RepliesDiffer
  <2>7. CASE reply'[r] = Lost /\ (unloaded' \/ crashes' > 0)
    BY <2>7, RepliesDiffer
  <2> QED
    BY <2>2, <2>3, <2>4, <2>5, <2>6, <2>7 DEF Grounded
<1>2. \A r \in Requests : Inputs(r)' = Inputs(r)
  BY InputsKept
<1>3. \A r \in Requests : Refusable(Inputs(r))' <=> Refusable(Inputs(r))
  <2> TAKE r \in Requests
  <2>1. PICK i : i = Inputs(r)
    OBVIOUS
  <2>2. Refusable(i)' <=> Refusable(i)
    BY RefusableKept
  <2>3. Inputs(r)' = i
    BY <2>1, <1>2
  <2>4. Refusable(Inputs(r))' <=> Refusable(i)'
    BY <2>3 DEF Refusable, BadInput
  <2> QED
    BY <2>1, <2>2, <2>4
<1>4. OutputsAreItsOwn'
  BY <1>1, <1>2 DEF OutputsAreItsOwn
<1>5. OnlyThePoisonedFail'
  BY <1>1, <1>3 DEF OnlyThePoisonedFail
<1> QED
  BY <1>4, <1>5 DEF Fates

\* A worker that has finished has died only if one was counted.
LEMMA FinishedStep ==
  ASSUME DispatchTyped, Fates, NEW w \in Replicas, NEW x,
         worker' = [worker EXCEPT ![w] = x],
         x.is = "finished" /\ x.fatal => crashes' > 0, crashes > 0 => crashes' > 0
  PROVE  \A v \in Finished' : worker'[v].fatal => crashes' > 0
<1>1. \A v \in Finished' : /\ v = w => x.is = "finished" /\ worker'[v] = x
                           /\ v # w => v \in Finished /\ worker'[v] = worker[v]
  BY OthersStay
<1>2. \A v \in Finished : worker[v].fatal => crashes > 0
  BY DEF Fates
<1> QED
  BY <1>1, <1>2

LEMMA LostGrounded ==
  ASSUME DispatchTyped, NEW rs, reply' = Answered(rs, Lost), unloaded' \/ crashes' > 0
  PROVE  \A r \in Requests : Grounded(r)
<1>1. \A r \in Requests : reply'[r] = IF r \in rs /\ reply[r] = Waiting THEN Lost ELSE reply[r]
  BY LostAnswers
<1> QED
  BY <1>1 DEF Grounded

LEMMA SameGrounded ==
  ASSUME reply' = reply
  PROVE  \A r \in Requests : Grounded(r)
BY DEF Grounded

\* A drain: of the mailbox into the queue, or of both into the answers.
LEMMA DrainFates ==
  ASSUME DispatchTyped, Fates, at = "loop", DrainMailbox, unloaded' = unloaded,
         crashes' = crashes
  PROVE  /\ \A r \in Requests : Grounded(r)
         /\ Shutdown \notin ToSet(mailbox')
         /\ at' # "loop" \/ ~open' => unloaded' \/ crashes' > 0
<1>0. mailbox' = <<>> /\ ToSet(mailbox') = {}
  BY DrainIs, ToSetEmpty
<1>1. CASE Shutdown \in ToSet(mailbox)
  <2>1. unloaded
    BY <1>1 DEF Fates
  <2>2. reply' = Answered(ToSet(queue) \cup ToSet(mailbox), Lost)
    BY <1>1 DEF DrainMailbox, FailQueued
  <2>3. \A r \in Requests : Grounded(r)
    BY <2>1, <2>2, LostGrounded
  <2> QED
    BY <1>0, <2>1, <2>3
<1>2. CASE Shutdown \notin ToSet(mailbox)
  <2>1. reply' = reply /\ open' = open /\ at' = at
    BY <1>2 DEF DrainMailbox
  <2>2. at' # "loop" \/ ~open' => unloaded' \/ crashes' > 0
    BY <2>1 DEF Fates
  <2> QED
    BY <1>0, <2>1, <2>2, SameGrounded
<1> QED
  BY <1>1, <1>2

LEMMA FatesSend ==
  ASSUME DispatchTyped, Fates, NEW q \in Requests, Send(q)
  PROVE  Fates'
<1>1. /\ shape' = shape /\ unloaded' = unloaded /\ crashes' = crashes
      /\ worker' = worker /\ at' = at /\ open' = open
  BY DEF Send
<1>2. /\ reply' = [reply EXCEPT ![q] = IF open THEN Waiting ELSE Lost]
      /\ mailbox' = IF open THEN Append(mailbox, q) ELSE mailbox
  BY SendIs
<1>3. ~open => unloaded' \/ crashes' > 0
  BY <1>1 DEF Fates
<1>4. \A r \in Requests : Grounded(r)
  BY <1>2, <1>3 DEF Grounded, DispatchTyped
<1>5. Shutdown \in ToSet(mailbox') => unloaded'
  <2>1. mailbox \in Seq(Requests \cup {Shutdown}) /\ q \in Requests \cup {Shutdown}
    BY DEF DispatchTyped
  <2>2. ToSet(Append(mailbox, q)) = ToSet(mailbox) \cup {q}
    BY <2>1, ToSetAppend
  <2>3. q # Shutdown
    BY DispatchAssumption DEF DispatchAssumption
  <2> QED
    BY <1>1, <1>2, <2>2, <2>3 DEF Fates
<1>6. \A v \in Finished' : worker'[v].fatal => crashes' > 0
  <2>1. Finished' = Finished
    BY <1>1 DEF Finished
  <2> QED
    BY <1>1, <2>1 DEF Fates
<1>7. at' # "loop" \/ ~open' => unloaded' \/ crashes' > 0
  BY <1>1 DEF Fates
<1> QED
  BY <1>1, <1>4, <1>5, <1>6, <1>7, FatesStep

\* The steps that neither answer nor touch the mailbox.
LEMMA FatesQuietly ==
  ASSUME DispatchTyped, Fates, shape' = shape, reply' = reply, mailbox' = mailbox,
         unloaded' = unloaded, crashes' = crashes, open' = open,
         at' # "loop" => at # "loop",
         \A v \in Finished' : worker'[v].fatal => crashes' > 0
  PROVE  Fates'
<1>1. \A r \in Requests : Grounded(r)
  BY SameGrounded
<1>2. /\ Shutdown \in ToSet(mailbox') => unloaded'
      /\ at' # "loop" \/ ~open' => unloaded' \/ crashes' > 0
  BY DEF Fates
<1> QED
  BY <1>1, <1>2, FatesStep

LEMMA FatesBeginUnload ==
  ASSUME DispatchTyped, Fates, BeginUnload
  PROVE  Fates'
<1>1. /\ shape' = shape /\ unloaded' = TRUE /\ crashes' = crashes
      /\ worker' = worker /\ at' = at /\ open' = open /\ reply' = reply
  BY DEF BeginUnload
<1>2. \A v \in Finished' : worker'[v].fatal => crashes' > 0
  <2>1. Finished' = Finished
    BY <1>1 DEF Finished
  <2> QED
    BY <1>1, <2>1 DEF Fates
<1>3. \A r \in Requests : Grounded(r)
  BY <1>1, SameGrounded
<1> QED
  BY <1>1, <1>2, <1>3, FatesStep

LEMMA FatesLoop ==
  ASSUME DispatchTyped, Fates, NEW w \in Replicas, Loop(w)
  PROVE  Fates'
<1>1. CASE Dispatch(w)
  <2>1. PICK window, x :
           /\ window \in Seq(Requests)
           /\ worker' = [worker EXCEPT ![w] = x] /\ x.is = "busy"
    BY <1>1, DispatchIs
  <2>2. UNCHANGED <<shape, reply, mailbox, open, at, unloaded, crashes>>
    BY <1>1 DEF Dispatch
  <2>3. \A v \in Finished' : worker'[v].fatal => crashes' > 0
    BY <2>1, <2>2, FinishedStep
  <2> QED
    BY <2>2, <2>3, FatesQuietly
<1>2. CASE JoinDraining(w)
  <2> DEFINE x == IF worker[w].fatal THEN Gone ELSE Free
  <2>1. /\ worker' = [worker EXCEPT ![w] = x]
        /\ UNCHANGED <<shape, reply, mailbox, open, at, unloaded, crashes>>
    BY <1>2 DEF JoinDraining
  <2>2. x.is # "finished"
    BY StateNames
  <2> HIDE DEF x
  <2>3. \A v \in Finished' : worker'[v].fatal => crashes' > 0
    BY <2>1, <2>2, FinishedStep
  <2> QED
    BY <2>1, <2>3, FatesQuietly
<1>3. CASE Abort(w)
  <2>1. /\ worker' = [worker EXCEPT ![w] = Gone] /\ at = "aborting"
        /\ reply' = (IF w \in Running THEN Answered(ToSet(worker[w].window), Lost) ELSE reply)
        /\ UNCHANGED <<shape, mailbox, open, at, unloaded, crashes>>
    BY <1>3 DEF Abort
  <2>2. unloaded \/ crashes > 0
    BY <2>1 DEF Fates
  <2>3. Gone.is # "finished"
    BY StateNames
  <2>4. \A v \in Finished' : worker'[v].fatal => crashes' > 0
    BY <2>1, <2>3, FinishedStep
  <2>5. \A r \in Requests : Grounded(r)
    <3>1. CASE w \in Running
      <4>1. reply' = Answered(ToSet(worker[w].window), Lost)
        BY <2>1, <3>1
      <4> QED
        BY <2>1, <2>2, <4>1, LostGrounded
    <3>2. CASE w \notin Running
      BY <2>1, <3>2, SameGrounded
    <3> QED
      BY <3>1, <3>2
  <2>6. Shutdown \in ToSet(mailbox') => unloaded'
    BY <2>1 DEF Fates
  <2> QED
    BY <2>1, <2>2, <2>4, <2>5, <2>6, FatesStep
<1>4. CASE Join(w) /\ worker[w].fatal
  <2>1. /\ worker' = [worker EXCEPT ![w] = Gone] /\ w \in Finished
        /\ UNCHANGED <<shape, reply, mailbox, open, unloaded, crashes>>
    BY <1>4 DEF Join
  <2>2. crashes > 0
    BY <1>4, <2>1 DEF Fates
  <2>3. Gone.is # "finished"
    BY StateNames
  <2>4. \A v \in Finished' : worker'[v].fatal => crashes' > 0
    BY <2>1, <2>3, FinishedStep
  <2>5. \A r \in Requests : Grounded(r)
    BY <2>1, SameGrounded
  <2>6. Shutdown \in ToSet(mailbox') => unloaded'
    BY <2>1 DEF Fates
  <2> QED
    BY <2>1, <2>2, <2>4, <2>5, <2>6, FatesStep
<1>5. CASE Join(w) /\ ~worker[w].fatal
  <2>1. /\ worker' = [worker EXCEPT ![w] = Free] /\ DrainMailbox /\ at = "loop"
        /\ UNCHANGED <<shape, unloaded, crashes>>
    BY <1>5 DEF Join
  <2>2. Free.is # "finished"
    BY StateNames
  <2>3. \A v \in Finished' : worker'[v].fatal => crashes' > 0
    BY <2>1, <2>2, FinishedStep
  <2>4. /\ \A r \in Requests : Grounded(r)
        /\ Shutdown \notin ToSet(mailbox')
        /\ at' # "loop" \/ ~open' => unloaded' \/ crashes' > 0
    BY <2>1, DrainFates
  <2> QED
    BY <2>1, <2>3, <2>4, FatesStep
<1> QED
  BY <1>1, <1>2, <1>3, <1>4, <1>5 DEF Loop

LEMMA FatesRest ==
  ASSUME DispatchTyped, Fates,
         Receive \/ FailFatal \/ GraceExpires \/ Exit \/ UNCHANGED dispatch
  PROVE  Fates'
<1>1. CASE Receive
  <2>1. DrainMailbox /\ at = "loop" /\ UNCHANGED <<shape, worker, unloaded, crashes>>
    BY <1>1 DEF Receive
  <2>2. /\ \A r \in Requests : Grounded(r)
        /\ Shutdown \notin ToSet(mailbox')
        /\ at' # "loop" \/ ~open' => unloaded' \/ crashes' > 0
    BY <2>1, DrainFates
  <2>3. Finished' = Finished
    BY <2>1 DEF Finished
  <2>4. \A v \in Finished' : worker'[v].fatal => crashes' > 0
    BY <2>1, <2>3 DEF Fates
  <2> QED
    BY <2>1, <2>2, <2>4, FatesStep
<1>2. CASE FailFatal
  <2>1. /\ FailQueued("aborting") /\ at = "killing"
        /\ UNCHANGED <<shape, worker, unloaded, crashes>>
    BY <1>2 DEF FailFatal
  <2>2. unloaded \/ crashes > 0
    BY <2>1 DEF Fates
  <2>3. /\ reply' = Answered(ToSet(queue) \cup ToSet(mailbox), Lost) /\ mailbox' = <<>>
    BY <2>1 DEF FailQueued
  <2>4. \A r \in Requests : Grounded(r)
    BY <2>1, <2>2, <2>3, LostGrounded
  <2>5. Finished' = Finished /\ Shutdown \notin ToSet(mailbox')
    BY <2>1, <2>3, ToSetEmpty DEF Finished
  <2>6. \A v \in Finished' : worker'[v].fatal => crashes' > 0
    BY <2>1, <2>5 DEF Fates
  <2> QED
    BY <2>1, <2>2, <2>4, <2>5, <2>6, FatesStep
<1>3. CASE GraceExpires \/ UNCHANGED dispatch
  <2>1. /\ UNCHANGED <<shape, reply, mailbox, open, worker, unloaded, crashes>>
        /\ at' # "loop" => at # "loop"
    BY <1>3 DEF GraceExpires, dispatch
  <2>2. Finished' = Finished
    BY <2>1 DEF Finished
  <2>3. \A v \in Finished' : worker'[v].fatal => crashes' > 0
    BY <2>1, <2>2 DEF Fates
  <2> QED
    BY <2>1, <2>3, FatesQuietly
<1>4. CASE Exit
  <2>1. /\ UNCHANGED <<shape, reply, mailbox, open, unloaded, crashes>>
        /\ at # "loop" /\ worker' = [v \in Replicas |-> Gone]
    BY <1>4 DEF Exit
  <2>2. Finished' = {}
    BY <2>1, StateNames DEF Finished
  <2>3. \A v \in Finished' : worker'[v].fatal => crashes' > 0
    BY <2>2
  <2> QED
    BY <2>1, <2>3, FatesQuietly
<1> QED
  BY <1>1, <1>2, <1>3, <1>4

LEMMA FatesPredict ==
  ASSUME DispatchTyped, Fates, NEW w \in Replicas, Predict(w) \/ Wedges(w)
  PROVE  Fates'
<1>1. /\ w \in Running /\ \E x, rs : AnswersOf(w, x, rs)
      /\ UNCHANGED <<shape, mailbox, open, queue, at, sentAt, taken, unloaded, crashes>>
  BY AnswersAre
<1>2. PICK x, rs : AnswersOf(w, x, rs)
  BY <1>1
<1>3. /\ worker' = [worker EXCEPT ![w] = x] /\ (x.is = "finished" => ~x.fatal)
      /\ \A r \in Requests :
           /\ r \in rs => reply'[r] = Ok(Inputs(r)) \/ (reply'[r] = Failed /\ Refusable(Inputs(r)))
           /\ r \notin rs => reply'[r] = reply[r]
  BY <1>2 DEF AnswersOf
<1>4. \A v \in Finished' : worker'[v].fatal => crashes' > 0
  BY <1>1, <1>3, FinishedStep
<1>5. \A r \in Requests : Grounded(r)
  BY <1>3 DEF Grounded
<1>6. /\ Shutdown \in ToSet(mailbox') => unloaded'
      /\ at' # "loop" \/ ~open' => unloaded' \/ crashes' > 0
  BY <1>1 DEF Fates
<1> QED
  BY <1>1, <1>4, <1>5, <1>6, FatesStep

LEMMA FatesDies ==
  ASSUME DispatchTyped, Fates, NEW w \in Replicas, ReplicaDies(w)
  PROVE  Fates'
<1>1. /\ worker' = [worker EXCEPT ![w] = Ended(TRUE)]
      /\ reply' = Answered(ToSet(worker[w].window), Lost)
      /\ crashes' = crashes + 1 /\ UNCHANGED <<shape, mailbox, open, at, unloaded>>
  BY DEF ReplicaDies
<1>2. crashes' > 0
  BY <1>1 DEF DispatchTyped
<1>3. \A r \in Requests : Grounded(r)
  BY <1>1, <1>2, LostGrounded
<1>4. Shutdown \in ToSet(mailbox') => unloaded'
  BY <1>1 DEF Fates
<1> QED
  BY <1>1, <1>2, <1>3, <1>4, FatesStep

LEMMA FatesNext ==
  ASSUME DispatchTyped, Fates, [DispatchNext]_dispatch
  PROVE  Fates'
<1>1. ASSUME NEW r \in Requests, Send(r) PROVE Fates'
  BY <1>1, FatesSend
<1>2. CASE BeginUnload
  BY <1>2, FatesBeginUnload
<1>3. CASE Receive \/ FailFatal \/ GraceExpires \/ Exit \/ UNCHANGED dispatch
  BY <1>3, FatesRest
<1>4. ASSUME NEW w \in Replicas, Loop(w) PROVE Fates'
  BY <1>4, FatesLoop
<1>5. ASSUME NEW w \in Replicas, Predict(w) \/ Wedges(w) PROVE Fates'
  BY <1>5, FatesPredict
<1>6. ASSUME NEW w \in Replicas, ReplicaDies(w) PROVE Fates'
  BY <1>6, FatesDies
<1>7. CASE Quiet
  BY <1>7, <1>3 DEF Quiet
<1> QED
  BY <1>1, <1>2, <1>3, <1>4, <1>5, <1>6, <1>7 DEF DispatchNext

LEMMA FatesInit ==
  ASSUME DispatchInit
  PROVE  Fates
<1>1. \A r \in Requests : reply[r].is = "unsent"
  BY DEF DispatchInit
<1>2. Finished = {}
  BY StateNames DEF DispatchInit, Finished
<1>3. Shutdown \notin ToSet(mailbox)
  BY ToSetEmpty DEF DispatchInit
<1> QED
  BY <1>1, <1>2, <1>3 DEF DispatchInit, Fates, OutputsAreItsOwn, OnlyThePoisonedFail

\* Where a request that waits is.
InFlight(r) == \E w \in Running : r \in ToSet(worker[w].window)
InChannel(r) == at \in {"loop", "killing"} /\ r \in ToSet(queue) \cup ToSet(mailbox)

LEMMA HeldIs ==
  ASSUME Held, NEW r \in Requests, reply[r] = Waiting
  PROVE  InFlight(r) \/ InChannel(r)
BY DEF Held, WaitersAreHeld, InFlight, InChannel

LEMMA HeldStep ==
  ASSUME open' <=> at' \in {"loop", "killing"},
         \A r \in Requests : reply'[r] = Waiting => InFlight(r)' \/ InChannel(r)',
         at' = "ended" => \A w \in Replicas : worker'[w] = Gone
  PROVE  Held'
BY DEF Held, WaitersAreHeld, NothingIsLeft, InFlight, InChannel

\* A step of one worker takes nothing from the others.
LEMMA InFlightStep ==
  ASSUME DispatchTyped, NEW w \in Replicas, NEW x, worker' = [worker EXCEPT ![w] = x],
         NEW r, InFlight(r),
         w \in Running /\ r \in ToSet(worker[w].window) => x.is = "busy" /\ r \in ToSet(x.window)
  PROVE  InFlight(r)'
<1>1. PICK v \in Running : r \in ToSet(worker[v].window)
  BY DEF InFlight
<1>2. /\ x.is = "busy" => w \in Running'
      /\ \A u \in Running : u # w => u \in Running' /\ worker'[u] = worker[u]
      /\ \A u \in Replicas : worker'[u] = IF u = w THEN x ELSE worker[u]
  BY OthersStay
<1>3. CASE v = w
  <2>1. w \in Running' /\ worker'[w] = x /\ r \in ToSet(x.window)
    BY <1>1, <1>2, <1>3
  <2>2. r \in ToSet(worker'[w].window)
    BY <2>1
  <2> QED
    BY <2>1, <2>2 DEF InFlight
<1>4. CASE v # w
  <2>1. v \in Running' /\ worker'[v] = worker[v]
    BY <1>2, <1>4
  <2>2. r \in ToSet(worker'[v].window)
    BY <1>1, <2>1
  <2> QED
    BY <2>1, <2>2 DEF InFlight
<1> QED
  BY <1>3, <1>4

LEMMA InFlightSame ==
  ASSUME worker' = worker, NEW r, InFlight(r)
  PROVE  InFlight(r)'
<1>1. Running' = Running
  BY DEF Running
<1> QED
  BY <1>1 DEF InFlight

LEMMA InChannelSame ==
  ASSUME at' = at, queue' = queue, mailbox' = mailbox, NEW r, InChannel(r)
  PROVE  InChannel(r)'
BY DEF InChannel

LEMMA HeldSend ==
  ASSUME DispatchTyped, Held, NEW q \in Requests, Send(q)
  PROVE  Held'
<1>1. worker' = worker /\ at' = at /\ open' = open /\ queue' = queue
  BY DEF Send
<1>2. /\ reply' = [reply EXCEPT ![q] = IF open THEN Waiting ELSE Lost]
      /\ mailbox' = IF open THEN Append(mailbox, q) ELSE mailbox
  BY SendIs
<1>3. mailbox \in Seq(Requests \cup {Shutdown}) /\ q \in Requests \cup {Shutdown}
      /\ reply \in [Requests -> Replies]
  BY DEF DispatchTyped
<1>4. ToSet(Append(mailbox, q)) = ToSet(mailbox) \cup {q}
  BY <1>3, ToSetAppend
<1>5. open <=> at \in {"loop", "killing"}
  BY DEF Held
<1>6. ASSUME NEW r \in Requests, reply'[r] = Waiting
      PROVE  InFlight(r)' \/ InChannel(r)'
  <2>1. CASE r = q
    <3>1. open
      BY <1>2, <1>3, <1>6, <2>1, RepliesDiffer
    <3> QED
      BY <1>1, <1>2, <1>4, <1>5, <2>1, <3>1 DEF InChannel
  <2>2. CASE r # q
    <3>1. reply[r] = Waiting
      BY <1>2, <1>3, <1>6, <2>2
    <3>2. CASE InFlight(r)
      BY <1>1, <3>2, InFlightSame
    <3>3. CASE InChannel(r)
      BY <1>1, <1>2, <1>4, <3>3 DEF InChannel
    <3> QED
      BY <3>1, <3>2, <3>3, HeldIs
  <2> QED
    BY <2>1, <2>2
<1>7. at' = "ended" => \A w \in Replicas : worker'[w] = Gone
  BY <1>1 DEF Held, NothingIsLeft
<1> QED
  BY <1>1, <1>5, <1>6, <1>7, HeldStep

LEMMA HeldBeginUnload ==
  ASSUME DispatchTyped, Held, BeginUnload
  PROVE  Held'
<1>1. /\ worker' = worker /\ at' = at /\ open' = open /\ queue' = queue /\ reply' = reply
      /\ mailbox' = IF open THEN Append(mailbox, Shutdown) ELSE mailbox
  BY DEF BeginUnload
<1>2. mailbox \in Seq(Requests \cup {Shutdown}) /\ Shutdown \in Requests \cup {Shutdown}
  BY DEF DispatchTyped
<1>3. ToSet(Append(mailbox, Shutdown)) = ToSet(mailbox) \cup {Shutdown}
  BY <1>2, ToSetAppend
<1>4. ASSUME NEW r \in Requests, reply'[r] = Waiting
      PROVE  InFlight(r)' \/ InChannel(r)'
  <2>1. CASE InFlight(r)
    BY <1>1, <2>1, InFlightSame
  <2>2. CASE InChannel(r)
    BY <1>1, <1>3, <2>2 DEF InChannel
  <2> QED
    BY <1>1, <1>4, <2>1, <2>2, HeldIs
<1>5. (open' <=> at' \in {"loop", "killing"})
      /\ (at' = "ended" => \A w \in Replicas : worker'[w] = Gone)
  BY <1>1 DEF Held, NothingIsLeft
<1> QED
  BY <1>4, <1>5, HeldStep

\* The mailbox reaches the queue, or everybody in the channel is answered.
LEMMA DrainHeld ==
  ASSUME DispatchTyped, Held, at = "loop", DrainMailbox
  PROVE  /\ open' <=> at' \in {"loop", "killing"}
         /\ at' # "ended"
         /\ \A r \in Requests : reply'[r] = Waiting =>
              reply[r] = Waiting /\ (InChannel(r) => InChannel(r)')
<1>1. CASE Shutdown \in ToSet(mailbox)
  <2>1. FailQueued("draining")
    BY <1>1 DEF DrainMailbox
  <2>2. /\ open' = FALSE /\ at' = "draining"
        /\ \A r \in Requests : reply'[r] =
              IF r \in ToSet(queue) \cup ToSet(mailbox) /\ reply[r] = Waiting
              THEN Lost ELSE reply[r]
    BY <2>1, FailQueuedTypes
  <2>3. \A r \in Requests : reply'[r] = Waiting =>
          reply[r] = Waiting /\ r \notin ToSet(queue) \cup ToSet(mailbox)
    BY <2>2, RepliesDiffer
  <2> QED
    BY <2>2, <2>3 DEF InChannel
<1>2. CASE Shutdown \notin ToSet(mailbox)
  <2>1. /\ reply' = reply /\ open' = open /\ at' = at /\ mailbox' = <<>>
        /\ queue' = queue \o mailbox
    BY <1>2 DEF DrainMailbox
  <2>2. mailbox \in Seq(Requests) /\ queue \in Seq(Requests)
    BY <1>2, JoinedIs DEF DispatchTyped
  <2>3. ToSet(queue \o mailbox) = ToSet(queue) \cup ToSet(mailbox)
    BY <2>2, ToSetConcat
  <2>4. open' <=> at' \in {"loop", "killing"}
    BY <2>1 DEF Held
  <2> QED
    BY <2>1, <2>3, <2>4 DEF InChannel
<1> QED
  BY <1>1, <1>2

LEMMA HeldDispatch ==
  ASSUME DispatchTyped, Held, NEW w \in Replicas, Dispatch(w)
  PROVE  Held'
<1>1. PICK window, x :
           /\ window \in Seq(Requests)
           /\ queue = window \o queue' /\ queue' \in Seq(Requests)
           /\ worker' = [worker EXCEPT ![w] = x]
           /\ x.is = "busy" /\ x.window = window
  BY DispatchIs
<1>2. UNCHANGED <<reply, mailbox, open, at>> /\ at = "loop" /\ w \in FreeReplicas
  BY DEF Dispatch
<1>3. ToSet(queue) = ToSet(window) \cup ToSet(queue')
  BY <1>1, ToSetConcat
<1>4. w \notin Running
  BY <1>2, StateNames DEF Running, FreeReplicas
<1>5. w \in Running' /\ worker'[w] = x
  <2>1. worker' = [worker EXCEPT ![w] = x] /\ x.is = "busy"
    BY <1>1
  <2>2. /\ x.is = "busy" => w \in Running'
        /\ \A v \in Replicas : worker'[v] = IF v = w THEN x ELSE worker[v]
    BY <2>1, OthersStay
  <2> QED
    BY <2>1, <2>2
<1>6. ASSUME NEW r \in Requests, reply'[r] = Waiting
      PROVE  InFlight(r)' \/ InChannel(r)'
  <2>1. CASE InFlight(r)
    BY <1>1, <1>4, <2>1, InFlightStep
  <2>2. CASE r \in ToSet(window)
    <3>1. r \in ToSet(worker'[w].window)
      BY <1>1, <1>5, <2>2
    <3> QED
      BY <1>5, <3>1 DEF InFlight
  <2>3. CASE InChannel(r) /\ r \notin ToSet(window)
    BY <1>2, <1>3, <2>3 DEF InChannel
  <2> QED
    BY <1>2, <1>6, <2>1, <2>2, <2>3, HeldIs
<1>7. open' <=> at' \in {"loop", "killing"}
  BY <1>2 DEF Held
<1> QED
  BY <1>2, <1>6, <1>7, HeldStep

\* A worker that has finished holds nobody.
LEMMA FinishedHoldsNone ==
  ASSUME NEW w \in Finished
  PROVE  w \notin Running
BY DEF Finished, Running

LEMMA HeldJoin ==
  ASSUME DispatchTyped, Held, NEW w \in Replicas, Join(w)
  PROVE  Held'
<1>1. at = "loop" /\ w \in Finished
  BY DEF Join
<1>2. w \notin Running
  BY <1>1, FinishedHoldsNone
<1>3. CASE worker[w].fatal
  <2>1. /\ worker' = [worker EXCEPT ![w] = Gone] /\ at' = "killing"
        /\ UNCHANGED <<reply, mailbox, open, queue>>
    BY <1>3 DEF Join
  <2>2. ASSUME NEW r \in Requests, reply'[r] = Waiting
        PROVE  InFlight(r)' \/ InChannel(r)'
    <3>1. CASE InFlight(r)
      BY <1>2, <2>1, <3>1, InFlightStep
    <3>2. CASE InChannel(r)
      BY <2>1, <3>2 DEF InChannel
    <3> QED
      BY <2>1, <2>2, <3>1, <3>2, HeldIs
  <2>3. open' <=> at' \in {"loop", "killing"}
    BY <1>1, <2>1 DEF Held
  <2> QED
    BY <2>1, <2>2, <2>3, HeldStep
<1>4. CASE ~worker[w].fatal
  <2>1. worker' = [worker EXCEPT ![w] = Free] /\ DrainMailbox
    BY <1>4 DEF Join
  <2>2. /\ open' <=> at' \in {"loop", "killing"}
        /\ at' # "ended"
        /\ \A r \in Requests : reply'[r] = Waiting =>
              reply[r] = Waiting /\ (InChannel(r) => InChannel(r)')
    BY <1>1, <2>1, DrainHeld
  <2>3. ASSUME NEW r \in Requests, reply'[r] = Waiting
        PROVE  InFlight(r)' \/ InChannel(r)'
    <3>1. CASE InFlight(r)
      BY <1>2, <2>1, <3>1, InFlightStep
    <3>2. CASE InChannel(r)
      BY <2>2, <2>3, <3>2
    <3> QED
      BY <2>2, <2>3, <3>1, <3>2, HeldIs
  <2> QED
    BY <2>2, <2>3, HeldStep
<1> QED
  BY <1>3, <1>4

LEMMA HeldJoinDraining ==
  ASSUME DispatchTyped, Held, NEW w \in Replicas, JoinDraining(w)
  PROVE  Held'
<1> DEFINE x == IF worker[w].fatal THEN Gone ELSE Free
<1>1. /\ worker' = [worker EXCEPT ![w] = x] /\ w \in Finished /\ at = "draining"
      /\ UNCHANGED <<reply, mailbox, open, queue, at>>
  BY DEF JoinDraining
<1> HIDE DEF x
<1>2. w \notin Running
  BY <1>1, FinishedHoldsNone
<1>3. ASSUME NEW r \in Requests, reply'[r] = Waiting
      PROVE  InFlight(r)' \/ InChannel(r)'
  <2>1. CASE InFlight(r)
    BY <1>1, <1>2, <2>1, InFlightStep
  <2>2. CASE InChannel(r)
    BY <1>1, <2>2, InChannelSame
  <2> QED
    BY <1>1, <1>3, <2>1, <2>2, HeldIs
<1>4. open' <=> at' \in {"loop", "killing"}
  BY <1>1 DEF Held
<1> QED
  BY <1>1, <1>3, <1>4, HeldStep

\* The window of a worker that is gone has been told so.
LEMMA WindowLost ==
  ASSUME DispatchTyped, Held, NEW w \in Running, NEW x, worker' = [worker EXCEPT ![w] = x],
         reply' = Answered(ToSet(worker[w].window), Lost),
         UNCHANGED <<mailbox, queue, at>>
  PROVE  \A r \in Requests : reply'[r] = Waiting => InFlight(r)' \/ InChannel(r)'
<1>1. \A r \in Requests : reply'[r] =
        IF r \in ToSet(worker[w].window) /\ reply[r] = Waiting THEN Lost ELSE reply[r]
  BY LostAnswers
<1>2. ASSUME NEW r \in Requests, reply'[r] = Waiting
      PROVE  InFlight(r)' \/ InChannel(r)'
  <2>1. reply[r] = Waiting /\ r \notin ToSet(worker[w].window)
    BY <1>1, <1>2, RepliesDiffer
  <2>2. CASE InFlight(r)
    <3>1. w \in Replicas
      BY DEF Running
    <3> QED
      BY <2>1, <2>2, <3>1, InFlightStep
  <2>3. CASE InChannel(r)
    BY <2>3, InChannelSame
  <2> QED
    BY <2>1, <2>2, <2>3, HeldIs
<1> QED
  BY <1>2

LEMMA HeldAbort ==
  ASSUME DispatchTyped, Held, NEW w \in Replicas, Abort(w)
  PROVE  Held'
<1>1. /\ worker' = [worker EXCEPT ![w] = Gone] /\ at = "aborting"
      /\ reply' = (IF w \in Running THEN Answered(ToSet(worker[w].window), Lost) ELSE reply)
      /\ UNCHANGED <<mailbox, open, queue, at>>
  BY DEF Abort
<1>2. \A r \in Requests : reply'[r] = Waiting => InFlight(r)' \/ InChannel(r)'
  <2>1. CASE w \in Running
    <3>1. reply' = Answered(ToSet(worker[w].window), Lost)
      BY <1>1, <2>1
    <3> QED
      BY <1>1, <2>1, <3>1, WindowLost
  <2>2. CASE w \notin Running
    <3>1. reply' = reply
      BY <1>1, <2>2
    <3> SUFFICES ASSUME NEW r \in Requests, reply'[r] = Waiting
                 PROVE  InFlight(r)' \/ InChannel(r)'
      OBVIOUS
    <3>2. CASE InFlight(r)
      BY <1>1, <2>2, <3>2, InFlightStep
    <3>3. CASE InChannel(r)
      BY <1>1, <3>3, InChannelSame
    <3> QED
      BY <3>1, <3>2, <3>3, HeldIs
  <2> QED
    BY <2>1, <2>2
<1>3. open' <=> at' \in {"loop", "killing"}
  BY <1>1 DEF Held
<1> QED
  BY <1>1, <1>2, <1>3, HeldStep

LEMMA HeldRunning ==
  ASSUME Held, NEW w \in Running
  PROVE  at # "ended"
BY StateNames DEF Held, NothingIsLeft, Running

LEMMA HeldDies ==
  ASSUME DispatchTyped, Held, NEW w \in Replicas, ReplicaDies(w)
  PROVE  Held'
<1>1. /\ worker' = [worker EXCEPT ![w] = Ended(TRUE)] /\ w \in Running
      /\ reply' = Answered(ToSet(worker[w].window), Lost)
      /\ UNCHANGED <<mailbox, open, queue, at>>
  BY DEF ReplicaDies
<1>2. at' # "ended"
  BY <1>1, HeldRunning
<1>3. \A r \in Requests : reply'[r] = Waiting => InFlight(r)' \/ InChannel(r)'
  BY <1>1, WindowLost
<1>4. open' <=> at' \in {"loop", "killing"}
  BY <1>1 DEF Held
<1> QED
  BY <1>2, <1>3, <1>4, HeldStep

LEMMA HeldPredict ==
  ASSUME DispatchTyped, Held, NEW w \in Replicas, Predict(w) \/ Wedges(w)
  PROVE  Held'
<1>1. /\ w \in Running /\ \E x, rs : AnswersOf(w, x, rs)
      /\ UNCHANGED <<shape, mailbox, open, queue, at, sentAt, taken, unloaded, crashes>>
  BY AnswersAre
<1>2. PICK x, rs : AnswersOf(w, x, rs)
  BY <1>1
<1>3. /\ worker' = [worker EXCEPT ![w] = x]
      /\ \A r \in Requests :
           /\ r \in rs => reply'[r] = Ok(Inputs(r)) \/ (reply'[r] = Failed /\ Refusable(Inputs(r)))
           /\ r \notin rs => reply'[r] = reply[r]
      /\ \A r \in ToSet(worker[w].window) :
           r \in rs \/ (x.is = "busy" /\ r \in ToSet(x.window))
  BY <1>2 DEF AnswersOf
<1>4. ASSUME NEW r \in Requests, reply'[r] = Waiting
      PROVE  InFlight(r)' \/ InChannel(r)'
  <2>1. r \notin rs /\ reply[r] = Waiting
    BY <1>3, <1>4, RepliesDiffer
  <2>2. CASE InFlight(r)
    BY <1>3, <2>1, <2>2, InFlightStep
  <2>3. CASE InChannel(r)
    BY <1>1, <2>3, InChannelSame
  <2> QED
    BY <2>1, <2>2, <2>3, HeldIs
<1>5. open' <=> at' \in {"loop", "killing"}
  BY <1>1 DEF Held
<1>6. at' # "ended"
  BY <1>1, HeldRunning
<1> QED
  BY <1>4, <1>5, <1>6, HeldStep

LEMMA HeldRest ==
  ASSUME DispatchTyped, Held,
         Receive \/ FailFatal \/ GraceExpires \/ Exit \/ UNCHANGED dispatch
  PROVE  Held'
<1>1. CASE Receive
  <2>1. DrainMailbox /\ at = "loop" /\ worker' = worker
    BY <1>1 DEF Receive
  <2>2. /\ open' <=> at' \in {"loop", "killing"}
        /\ at' # "ended"
        /\ \A r \in Requests : reply'[r] = Waiting =>
              reply[r] = Waiting /\ (InChannel(r) => InChannel(r)')
    BY <2>1, DrainHeld
  <2>3. ASSUME NEW r \in Requests, reply'[r] = Waiting
        PROVE  InFlight(r)' \/ InChannel(r)'
    <3>1. CASE InFlight(r)
      BY <2>1, <3>1, InFlightSame
    <3> QED
      BY <2>2, <2>3, <3>1, HeldIs
  <2> QED
    BY <2>2, <2>3, HeldStep
<1>2. CASE FailFatal
  <2>1. FailQueued("aborting") /\ worker' = worker
    BY <1>2 DEF FailFatal
  <2>2. /\ open' = FALSE /\ at' = "aborting"
        /\ \A r \in Requests : reply'[r] =
              IF r \in ToSet(queue) \cup ToSet(mailbox) /\ reply[r] = Waiting
              THEN Lost ELSE reply[r]
    BY <2>1, FailQueuedTypes
  <2>3. ASSUME NEW r \in Requests, reply'[r] = Waiting
        PROVE  InFlight(r)' \/ InChannel(r)'
    <3>1. reply[r] = Waiting /\ r \notin ToSet(queue) \cup ToSet(mailbox)
      BY <2>2, <2>3, RepliesDiffer
    <3>2. ~InChannel(r)
      BY <3>1 DEF InChannel
    <3>3. InFlight(r)
      BY <3>1, <3>2, HeldIs
    <3> QED
      BY <2>1, <3>3, InFlightSame
  <2> QED
    BY <2>2, <2>3, HeldStep
<1>3. CASE GraceExpires
  <2>1. /\ UNCHANGED <<reply, mailbox, open, queue, worker>>
        /\ at = "draining" /\ at' = "aborting"
    BY <1>3 DEF GraceExpires
  <2>2. ASSUME NEW r \in Requests, reply'[r] = Waiting
        PROVE  InFlight(r)' \/ InChannel(r)'
    <3>1. ~InChannel(r)
      BY <2>1 DEF InChannel
    <3>2. InFlight(r)
      BY <2>1, <2>2, <3>1, HeldIs
    <3> QED
      BY <2>1, <3>2, InFlightSame
  <2>3. open' <=> at' \in {"loop", "killing"}
    BY <2>1 DEF Held
  <2> QED
    BY <2>1, <2>2, <2>3, HeldStep
<1>4. CASE Exit
  <2>1. /\ UNCHANGED <<reply, mailbox, open, queue>>
        /\ at \in {"draining", "aborting"} /\ at' = "ended" /\ Running \cup Finished = {}
        /\ worker' = [w \in Replicas |-> Gone]
    BY <1>4 DEF Exit
  <2>2. ASSUME NEW r \in Requests, reply'[r] = Waiting
        PROVE  InFlight(r)' \/ InChannel(r)'
    <3>1. ~InChannel(r) /\ ~InFlight(r)
      BY <2>1 DEF InChannel, InFlight
    <3> QED
      BY <2>1, <2>2, <3>1, HeldIs
  <2>3. open' <=> at' \in {"loop", "killing"}
    BY <2>1 DEF Held
  <2>4. \A w \in Replicas : worker'[w] = Gone
    BY <2>1
  <2> QED
    BY <2>1, <2>2, <2>3, <2>4, HeldStep
<1>5. CASE UNCHANGED dispatch
  <2>1. UNCHANGED <<reply, mailbox, open, queue, worker, at>>
    BY <1>5 DEF dispatch
  <2>2. ASSUME NEW r \in Requests, reply'[r] = Waiting
        PROVE  InFlight(r)' \/ InChannel(r)'
    BY <2>1, <2>2, HeldIs, InFlightSame, InChannelSame
  <2>3. (open' <=> at' \in {"loop", "killing"})
        /\ (at' = "ended" => \A w \in Replicas : worker'[w] = Gone)
    BY <2>1 DEF Held, NothingIsLeft
  <2> QED
    BY <2>2, <2>3, HeldStep
<1> QED
  BY <1>1, <1>2, <1>3, <1>4, <1>5

LEMMA HeldNext ==
  ASSUME DispatchTyped, Held, [DispatchNext]_dispatch
  PROVE  Held'
<1>1. ASSUME NEW r \in Requests, Send(r) PROVE Held'
  BY <1>1, HeldSend
<1>2. CASE BeginUnload
  BY <1>2, HeldBeginUnload
<1>3. CASE Receive \/ FailFatal \/ GraceExpires \/ Exit \/ UNCHANGED dispatch
  BY <1>3, HeldRest
<1>4. ASSUME NEW w \in Replicas, Loop(w) PROVE Held'
  BY <1>4, HeldDispatch, HeldJoin, HeldJoinDraining, HeldAbort DEF Loop
<1>5. ASSUME NEW w \in Replicas, Predict(w) \/ Wedges(w) PROVE Held'
  BY <1>5, HeldPredict
<1>6. ASSUME NEW w \in Replicas, ReplicaDies(w) PROVE Held'
  BY <1>6, HeldDies
<1>7. CASE Quiet
  BY <1>7, <1>3 DEF Quiet
<1> QED
  BY <1>1, <1>2, <1>3, <1>4, <1>5, <1>6, <1>7 DEF DispatchNext

LEMMA HeldInit ==
  ASSUME DispatchInit
  PROVE  Held
<1>1. \A r \in Requests : reply[r].is = "unsent"
  BY DEF DispatchInit
<1>2. \A r \in Requests : reply[r] # Waiting
  BY <1>1, RepliesDiffer
<1> QED
  BY <1>2 DEF DispatchInit, Held, WaitersAreHeld, NothingIsLeft

LineEntries == Requests \cup {Shutdown}

LEMMA RequestsAreEntries ==
  \A s \in Seq(Requests) : s \in Seq(LineEntries)
BY DEF LineEntries

LEMMA LineType ==
  ASSUME DispatchTyped
  PROVE  /\ taken \in Seq(LineEntries) /\ queue \in Seq(LineEntries) /\ mailbox \in Seq(LineEntries)
         /\ taken \o queue \in Seq(LineEntries) /\ Line \in Seq(LineEntries)
<1>1. taken \in Seq(LineEntries) /\ queue \in Seq(LineEntries) /\ mailbox \in Seq(LineEntries)
  BY RequestsAreEntries DEF DispatchTyped, LineEntries
<1> DEFINE tq == taken \o queue
<1>2. tq \in Seq(LineEntries)
  BY <1>1, ConcatProperties
<1> HIDE DEF tq
<1>3. tq \o mailbox \in Seq(LineEntries)
  BY <1>1, <1>2, ConcatProperties
<1> QED
  BY <1>1, <1>2, <1>3 DEF tq, Line

LEMMA OrderSame ==
  ASSUME Order, Line' = Line, sentAt' = sentAt, Sent' = Sent
  PROVE  Order'
BY DEF Order

\* The line loses what was at its end.
LEMMA OrderPrefix ==
  ASSUME Order, NEW s \in Seq(LineEntries), NEW t \in Seq(LineEntries), Line = s \o t,
         Line' = s, sentAt' = sentAt, Sent' = Sent
  PROVE  Order'
<1> DEFINE st == s \o t
<1>1. /\ st \in Seq(LineEntries) /\ Len(st) = Len(s) + Len(t)
      /\ \A i \in 1..(Len(s) + Len(t)) : st[i] = IF i <= Len(s) THEN s[i] ELSE t[i - Len(s)]
  BY ConcatProperties
<1>2. Len(s) \in Nat /\ Len(t) \in Nat /\ DOMAIN s = 1..Len(s)
  OBVIOUS
<1>3. Line = st
  OBVIOUS
<1> HIDE DEF st
<1>4. \A i \in DOMAIN s : i \in DOMAIN Line /\ Line[i] = s[i]
  <2> TAKE i \in DOMAIN s
  <2>1. i \in 1..(Len(s) + Len(t)) /\ i <= Len(s)
    BY <1>2
  <2>2. st[i] = s[i]
    BY <1>1, <2>1
  <2>3. i \in DOMAIN st
    BY <1>1, <2>1, LenProperties
  <2> QED
    BY <1>3, <2>2, <2>3
<1>5. /\ \A i \in DOMAIN s :
           s[i] # Shutdown => s[i] \in Sent /\ sentAt[s[i]] < Cardinality(Sent)
      /\ \A i, j \in DOMAIN s :
           i < j /\ s[i] # Shutdown /\ s[j] # Shutdown => sentAt[s[i]] < sentAt[s[j]]
  <2> DEFINE c == Cardinality(Sent)
  <2>1. /\ \A i \in DOMAIN Line : Line[i] # Shutdown => Line[i] \in Sent /\ sentAt[Line[i]] < c
        /\ \A i, j \in DOMAIN Line :
             i < j /\ Line[i] # Shutdown /\ Line[j] # Shutdown => sentAt[Line[i]] < sentAt[Line[j]]
    BY DEF Order
  <2> HIDE DEF c
  <2>2. \A i \in DOMAIN s : s[i] # Shutdown => s[i] \in Sent /\ sentAt[s[i]] < c
    BY <1>4, <2>1
  <2>3. \A i, j \in DOMAIN s :
          i < j /\ s[i] # Shutdown /\ s[j] # Shutdown => sentAt[s[i]] < sentAt[s[j]]
    BY <1>4, <2>1
  <2> QED
    BY <2>2, <2>3 DEF c
<1>6. Cardinality(Sent)' = Cardinality(Sent)
  OBVIOUS
<1> QED
  BY <1>5, <1>6 DEF Order

\* The line grows by one that was not in it.
LEMMA OrderAppend ==
  ASSUME DispatchTyped, Order, NEW e \in LineEntries, Line' = Append(Line, e),
         \A r \in Sent : sentAt'[r] = sentAt[r],
         Sent \subseteq Sent', Cardinality(Sent) <= Cardinality(Sent'),
         Cardinality(Sent) \in Nat, Cardinality(Sent') \in Nat,
         e # Shutdown => /\ e \in Sent' /\ sentAt'[e] = Cardinality(Sent)
                         /\ Cardinality(Sent) < Cardinality(Sent')
  PROVE  Order'
<1> DEFINE L == Line
           M == Line'
           n == Len(L)
           c == Cardinality(Sent)
           d == Cardinality(Sent')
<1>1. L \in Seq(LineEntries) /\ M = Append(L, e)
  BY LineType
<1>2. n \in Nat /\ DOMAIN L = 1..n
  BY <1>1
<1> HIDE DEF L, M
<1>3. M \in Seq(LineEntries) /\ Len(M) = n + 1 /\ M[n + 1] = e
      /\ \A i \in 1..n : M[i] = L[i]
  BY <1>1, AppendProperties
<1>4. DOMAIN M = 1..(n + 1)
  BY <1>3, LenProperties
<1>5. c \in Nat /\ d \in Nat /\ c <= d
  OBVIOUS
<1> HIDE DEF n, c, d
<1>6. /\ \A i \in DOMAIN L : L[i] # Shutdown => L[i] \in Sent /\ sentAt[L[i]] < c
      /\ \A i, j \in DOMAIN L :
            i < j /\ L[i] # Shutdown /\ L[j] # Shutdown => sentAt[L[i]] < sentAt[L[j]]
  BY DEF Order, L, c
<1>7. \A r \in Sent : r \in Requests /\ sentAt[r] \in Nat
  BY DEF Sent, DispatchTyped
<1>8. \A i \in 1..n : L[i] # Shutdown =>
         /\ M[i] = L[i] /\ L[i] \in Sent /\ L[i] \in Sent' /\ sentAt'[L[i]] = sentAt[L[i]]
         /\ sentAt[L[i]] \in Nat /\ sentAt[L[i]] < c
  BY <1>2, <1>3, <1>6, <1>7
<1>9. e # Shutdown => e \in Sent' /\ sentAt'[e] = c /\ c < d
  BY DEF c, d
<1>10. ASSUME NEW i \in DOMAIN M, M[i] # Shutdown
       PROVE  M[i] \in Sent' /\ sentAt'[M[i]] < d /\ sentAt'[M[i]] \in Nat
              /\ (i \in 1..n => sentAt'[M[i]] < c)
  <2>1. CASE i = n + 1
    BY <1>2, <1>3, <1>5, <1>9, <1>10, <2>1
  <2>2. CASE i \in 1..n
    <3>1. M[i] = L[i]
      BY <1>3, <2>2
    <3>2. /\ L[i] \in Sent' /\ sentAt'[L[i]] = sentAt[L[i]]
          /\ sentAt[L[i]] \in Nat /\ sentAt[L[i]] < c
      BY <1>8, <1>10, <2>2, <3>1
    <3> QED
      BY <1>5, <3>1, <3>2
  <2> QED
    BY <1>2, <1>4, <2>1, <2>2
<1>11. ASSUME NEW i \in DOMAIN M, NEW j \in DOMAIN M, i < j, M[i] # Shutdown, M[j] # Shutdown
       PROVE  sentAt'[M[i]] < sentAt'[M[j]]
  <2>1. i \in 1..n
    BY <1>2, <1>4, <1>11
  <2>2. CASE j = n + 1
    BY <1>3, <1>9, <1>10, <1>11, <2>1, <2>2
  <2>3. CASE j \in 1..n
    <3>1. M[i] = L[i] /\ M[j] = L[j]
      BY <1>3, <2>1, <2>3
    <3>2. sentAt'[L[i]] = sentAt[L[i]] /\ sentAt'[L[j]] = sentAt[L[j]]
      BY <1>8, <1>11, <2>1, <2>3, <3>1
    <3>3. sentAt[L[i]] < sentAt[L[j]]
      BY <1>2, <1>6, <1>11, <2>1, <2>3, <3>1
    <3> QED
      BY <3>1, <3>2, <3>3
  <2> QED
    BY <1>2, <1>4, <2>2, <2>3
<1> QED
  BY <1>10, <1>11 DEF Order, M, d

LEMMA OrderSend ==
  ASSUME DispatchTyped, Order, NEW r \in Requests, Send(r)
  PROVE  Order'
<1>1. taken' = taken /\ queue' = queue
  BY DEF Send
<1>2. /\ r \notin Sent /\ Sent' = Sent \cup {r} /\ Cardinality(Sent') = Cardinality(Sent) + 1
      /\ Cardinality(Sent) \in Nat
      /\ mailbox' = IF open THEN Append(mailbox, r) ELSE mailbox
      /\ sentAt' = [sentAt EXCEPT ![r] = Cardinality(Sent)]
  BY SendIs
<1>3. sentAt \in [Requests -> Nat]
  BY DEF DispatchTyped
<1>4. (\A q \in Sent : sentAt'[q] = sentAt[q]) /\ sentAt'[r] = Cardinality(Sent)
  BY <1>2, <1>3 DEF Sent
<1>5. CASE open
  <2>1. Line' = Append(Line, r)
    <3> DEFINE tq == taken \o queue
    <3>1. tq \in Seq(LineEntries) /\ mailbox \in Seq(LineEntries) /\ r \in LineEntries
      BY LineType DEF LineEntries
    <3>2. Line' = tq \o Append(mailbox, r)
      BY <1>1, <1>2, <1>5 DEF Line
    <3>3. Line = tq \o mailbox
      BY DEF Line
    <3> HIDE DEF tq
    <3>4. tq \o Append(mailbox, r) = Append(tq \o mailbox, r)
      <4> DEFINE t == <<r>>
      <4>1. t \in Seq(LineEntries)
        BY <3>1
      <4>2. Append(mailbox, r) = mailbox \o t
        BY <3>1, AppendIsConcat
      <4>3. tq \o mailbox \in Seq(LineEntries)
        BY <3>1, ConcatProperties
      <4>4. Append(tq \o mailbox, r) = (tq \o mailbox) \o t
        BY <3>1, <4>3, AppendIsConcat
      <4> HIDE DEF t
      <4>5. (tq \o mailbox) \o t = tq \o (mailbox \o t)
        <5>1. Assoc(tq, mailbox, t)
          BY <3>1, <4>1, ConcatAssoc
        <5> QED
          BY <5>1 DEF Assoc
      <4> QED
        BY <4>2, <4>4, <4>5
    <3> QED
      BY <3>2, <3>3, <3>4
  <2>2. r \in LineEntries
    BY DEF LineEntries
  <2>3. /\ Sent \subseteq Sent' /\ Cardinality(Sent) <= Cardinality(Sent')
        /\ Cardinality(Sent') \in Nat /\ Cardinality(Sent) < Cardinality(Sent') /\ r \in Sent'
    BY <1>2
  <2> QED
    BY <1>2, <1>4, <2>1, <2>2, <2>3, OrderAppend
<1>6. CASE ~open
  <2>1. Line' = Line
    BY <1>1, <1>2, <1>6 DEF Line
  <2>2. \A i \in DOMAIN Line : Line[i] # Shutdown =>
          Line[i] \in Sent /\ sentAt[Line[i]] < Cardinality(Sent) /\ sentAt[Line[i]] \in Nat
    BY <1>3 DEF Order, Sent
  <2>3. \A i \in DOMAIN Line : Line[i] # Shutdown =>
          /\ sentAt'[Line[i]] = sentAt[Line[i]]
          /\ Line[i] \in Sent' /\ sentAt'[Line[i]] < Cardinality(Sent')
    BY <1>2, <1>4, <2>2
  <2> QED
    BY <2>1, <2>3 DEF Order
<1> QED
  BY <1>5, <1>6

LEMMA OrderBeginUnload ==
  ASSUME DispatchTyped, Order, BeginUnload
  PROVE  Order'
<1>1. /\ taken' = taken /\ queue' = queue /\ sentAt' = sentAt /\ reply' = reply
      /\ mailbox' = IF open THEN Append(mailbox, Shutdown) ELSE mailbox
  BY DEF BeginUnload
<1>2. Sent' = Sent
  BY <1>1, SentStays
<1>3. CASE open
  <2>1. Line' = Append(Line, Shutdown)
    <3> DEFINE tq == taken \o queue
               e == Shutdown
    <3>1. tq \in Seq(LineEntries) /\ mailbox \in Seq(LineEntries) /\ e \in LineEntries
      BY LineType DEF LineEntries
    <3>2. Line' = tq \o Append(mailbox, e)
      BY <1>1, <1>3 DEF Line
    <3>3. Line = tq \o mailbox
      BY DEF Line
    <3> HIDE DEF tq, e
    <3>4. tq \o Append(mailbox, e) = Append(tq \o mailbox, e)
      <4> DEFINE t == <<e>>
      <4>1. t \in Seq(LineEntries)
        BY <3>1
      <4>2. Append(mailbox, e) = mailbox \o t
        BY <3>1, AppendIsConcat
      <4>3. tq \o mailbox \in Seq(LineEntries)
        BY <3>1, ConcatProperties
      <4>4. Append(tq \o mailbox, e) = (tq \o mailbox) \o t
        BY <3>1, <4>3, AppendIsConcat
      <4> HIDE DEF t
      <4>5. (tq \o mailbox) \o t = tq \o (mailbox \o t)
        <5>1. Assoc(tq, mailbox, t)
          BY <3>1, <4>1, ConcatAssoc
        <5> QED
          BY <5>1 DEF Assoc
      <4> QED
        BY <4>2, <4>4, <4>5
    <3> QED
      BY <3>2, <3>3, <3>4 DEF e
  <2>2. Shutdown \in LineEntries
    BY DEF LineEntries
  <2>3. Cardinality(Sent) \in Nat
    BY FS_CardinalityType DEF DispatchTyped
  <2> QED
    BY <1>1, <1>2, <2>1, <2>2, <2>3, OrderAppend
<1>4. CASE ~open
  <2>1. Line' = Line
    BY <1>1, <1>4 DEF Line
  <2> QED
    BY <1>1, <1>2, <2>1, OrderSame
<1> QED
  BY <1>3, <1>4

LEMMA EmptyIsLast ==
  \A S : \A s \in Seq(S) : s \o <<>> = s
BY ConcatEmptySeq

\* The queue and the mailbox are emptied into the answers.
LEMMA OrderFailQueued ==
  ASSUME DispatchTyped, Order, taken' = taken, queue' = <<>>, mailbox' = <<>>,
         sentAt' = sentAt, Sent' = Sent
  PROVE  Order'
<1>1. /\ taken \in Seq(LineEntries) /\ queue \in Seq(LineEntries) /\ mailbox \in Seq(LineEntries)
  BY LineType
<1>2. Line = taken \o (queue \o mailbox)
  <2>1. Assoc(taken, queue, mailbox)
    BY <1>1, ConcatAssoc
  <2> QED
    BY <2>1 DEF Assoc, Line
<1>3. queue \o mailbox \in Seq(LineEntries)
  BY <1>1, ConcatProperties
<1>4. Line' = taken
  <2>1. Line' = (taken \o <<>>) \o <<>>
    BY DEF Line
  <2> QED
    BY <1>1, <2>1, EmptyIsLast
<1> QED
  BY <1>1, <1>2, <1>3, <1>4, OrderPrefix

LEMMA OrderDrain ==
  ASSUME DispatchTyped, Order, DrainMailbox, taken' = taken, sentAt' = sentAt
  PROVE  Order'
<1>1. Sent' = Sent
  BY DrainIs
<1>2. CASE Shutdown \in ToSet(mailbox)
  <2>1. queue' = <<>> /\ mailbox' = <<>>
    BY <1>2 DEF DrainMailbox, FailQueued
  <2> QED
    BY <1>1, <2>1, OrderFailQueued
<1>3. CASE Shutdown \notin ToSet(mailbox)
  <2>1. queue' = queue \o mailbox /\ mailbox' = <<>>
    BY <1>3 DEF DrainMailbox
  <2>2. /\ taken \in Seq(LineEntries) /\ queue \in Seq(LineEntries) /\ mailbox \in Seq(LineEntries)
        /\ Line \in Seq(LineEntries)
    BY LineType
  <2>3. Line = taken \o (queue \o mailbox)
    <3>1. Assoc(taken, queue, mailbox)
      BY <2>2, ConcatAssoc
    <3> QED
      BY <3>1 DEF Assoc, Line
  <2>4. Line' = Line \o <<>>
    BY <2>1, <2>3 DEF Line
  <2>5. Line' = Line
    BY <2>2, <2>4, EmptyIsLast
  <2> QED
    BY <1>1, <2>5, OrderSame
<1> QED
  BY <1>2, <1>3

LEMMA OrderDispatch ==
  ASSUME DispatchTyped, Order, NEW w \in Replicas, Dispatch(w)
  PROVE  Order'
<1>1. PICK window, x :
           /\ window \in Seq(Requests)
           /\ queue = window \o queue' /\ queue' \in Seq(Requests)
           /\ taken' = taken \o window
  BY DispatchIs
<1>2. mailbox' = mailbox /\ sentAt' = sentAt /\ reply' = reply
  BY DEF Dispatch
<1>3. window \in Seq(LineEntries) /\ queue' \in Seq(LineEntries) /\ taken \in Seq(LineEntries)
  BY <1>1, RequestsAreEntries, LineType
<1>4. (taken \o window) \o queue' = taken \o (window \o queue')
  <2>1. Assoc(taken, window, queue')
    BY <1>3, ConcatAssoc
  <2> QED
    BY <2>1 DEF Assoc
<1>5. Line' = Line
  BY <1>1, <1>2, <1>4 DEF Line
<1> QED
  BY <1>2, <1>5, SentStays, OrderSame

LEMMA OrderNext ==
  ASSUME DispatchTyped, Order, [DispatchNext]_dispatch
  PROVE  Order'
<1>0. ASSUME UNCHANGED <<mailbox, queue, taken, sentAt>>, Sent' = Sent
      PROVE  Order'
  <2>1. Line' = Line
    BY <1>0 DEF Line
  <2> QED
    BY <1>0, <2>1, OrderSame
<1>1. ASSUME NEW r \in Requests, Send(r) PROVE Order'
  BY <1>1, OrderSend
<1>2. CASE BeginUnload
  BY <1>2, OrderBeginUnload
<1>3. CASE Receive
  BY <1>3, OrderDrain DEF Receive
<1>4. CASE FailFatal
  <2>1. FailQueued("aborting") /\ UNCHANGED <<taken, sentAt>>
    BY <1>4 DEF FailFatal
  <2>2. mailbox' = <<>> /\ queue' = <<>> /\ Sent' = Sent
    BY <2>1, FailQueuedTypes
  <2> QED
    BY <2>1, <2>2, OrderFailQueued
<1>5. CASE GraceExpires \/ Exit \/ UNCHANGED dispatch
  <2>1. UNCHANGED <<mailbox, queue, taken, sentAt, reply>>
    BY <1>5 DEF GraceExpires, Exit, dispatch
  <2> QED
    BY <1>0, <2>1, SentStays
<1>6. ASSUME NEW w \in Replicas, Loop(w) PROVE Order'
  <2>1. CASE Dispatch(w)
    BY <2>1, OrderDispatch
  <2>2. CASE Join(w) /\ worker[w].fatal
    <3>1. UNCHANGED <<mailbox, queue, taken, sentAt, reply>>
      BY <2>2 DEF Join
    <3> QED
      BY <1>0, <3>1, SentStays
  <2>3. CASE Join(w) /\ ~worker[w].fatal
    <3>1. DrainMailbox /\ UNCHANGED <<taken, sentAt>>
      BY <2>3 DEF Join
    <3> QED
      BY <3>1, OrderDrain
  <2>4. CASE JoinDraining(w)
    <3>1. UNCHANGED <<mailbox, queue, taken, sentAt, reply>>
      BY <2>4 DEF JoinDraining
    <3> QED
      BY <1>0, <3>1, SentStays
  <2>5. CASE Abort(w)
    <3>1. /\ UNCHANGED <<mailbox, queue, taken, sentAt>>
          /\ reply' = (IF w \in Running THEN Answered(ToSet(worker[w].window), Lost) ELSE reply)
      BY <2>5 DEF Abort
    <3>2. Sent' = Sent
      <4>1. CASE reply' = Answered(ToSet(worker[w].window), Lost)
        BY <4>1, LostAnswers
      <4>2. CASE reply' = reply
        BY <4>2, SentStays
      <4> QED
        BY <3>1, <4>1, <4>2
    <3> QED
      BY <1>0, <3>1, <3>2
  <2> QED
    BY <1>6, <2>1, <2>2, <2>3, <2>4, <2>5 DEF Loop
<1>7. ASSUME NEW w \in Replicas, Predict(w) \/ Wedges(w) PROVE Order'
  <2>1. /\ w \in Running /\ \E x, rs : AnswersOf(w, x, rs)
        /\ UNCHANGED <<mailbox, queue, sentAt, taken>>
    BY <1>7, AnswersAre
  <2>2. Sent' = Sent
    BY <2>1, AnswersSent
  <2> QED
    BY <1>0, <2>1, <2>2
<1>8. ASSUME NEW w \in Replicas, ReplicaDies(w) PROVE Order'
  <2>1. /\ UNCHANGED <<mailbox, queue, taken, sentAt>>
        /\ reply' = Answered(ToSet(worker[w].window), Lost)
    BY <1>8 DEF ReplicaDies
  <2> QED
    BY <1>0, <2>1, LostAnswers
<1>9. CASE Quiet
  BY <1>9, <1>5 DEF Quiet
<1> QED
  BY <1>1, <1>2, <1>3, <1>4, <1>5, <1>6, <1>7, <1>8, <1>9 DEF DispatchNext

LEMMA OrderInit ==
  ASSUME DispatchInit
  PROVE  Order
<1>1. Line = <<>>
  <2>1. \A x : x = <<>> => (x \o x) \o x = <<>>
    OBVIOUS
  <2> QED
    BY <2>1 DEF DispatchInit, Line
<1>2. DOMAIN Line = {}
  BY <1>1
<1> QED
  BY <1>2 DEF Order

-----------------------------------------------------------------------------
(* The theorems *)

\* The inputs of a window belong to its requests.
LEMMA InputsOfWindow ==
  ASSUME shape \in Mixes, NEW window \in Seq(Requests)
  PROVE  \A i \in DOMAIN AllInputs(window) : AllInputs(window)[i][1] \in ToSet(window)
<1> DEFINE R == ToSet(window)
           X == R \X Nat
           ps == WindowInputs(window)
<1>1. /\ ps \in Seq(Seq(AllPairs)) /\ Len(ps) = Len(window)
      /\ \A i \in 1..Len(window) : ps[i] = Inputs(window[i])
  BY PartsType
<1>2. \A i \in 1..Len(ps) : ps[i] \in Seq(X)
  <2> TAKE i \in 1..Len(ps)
  <2>1. i \in 1..Len(window) /\ ps[i] = Inputs(window[i])
    BY <1>1
  <2>2. window[i] \in Requests
    BY <2>1, ElementOfSeq
  <2> DEFINE r == window[i]
  <2>3. r \in R
    <3>1. i \in DOMAIN window
      BY <2>1
    <3> QED
      BY <3>1, ToSetIs
  <2>4. /\ Inputs(r) \in Seq(AllPairs)
        /\ \A j \in DOMAIN Inputs(r) : Inputs(r)[j] = <<r, j>>
    BY <2>2, InputsType
  <2> HIDE DEF r, R
  <2> DEFINE s == Inputs(r)
  <2>5. s \in Seq(AllPairs) /\ \A j \in DOMAIN s : s[j] = <<r, j>>
    BY <2>4
  <2> HIDE DEF s
  <2>6. s = [j \in 1..Len(s) |-> <<r, j>>] /\ Len(s) \in Nat
    BY <2>5
  <2>7. s \in Seq(X)
    BY <2>3, <2>6
  <2> QED
    BY <2>1, <2>7 DEF s, r
<1>3. ps \in Seq(Seq(X))
  <2> DEFINE n == Len(ps)
  <2>1. SubSeq(ps, 1, n) = ps
    BY <1>1, SubSeqFull
  <2>2. n \in Int /\ 1 \in Int /\ \A i \in 1..n : ps[i] \in Seq(X)
    BY <1>1, <1>2
  <2> HIDE DEF n, ps, X
  <2>3. SubSeq(ps, 1, n) \in Seq(Seq(X))
    BY <2>2, SubSeqProperties
  <2> QED
    BY <2>1, <2>3
<1>4. AllInputs(window) = FlattenSeq(ps)
  BY DEF AllInputs, WindowInputs
<1> HIDE DEF ps, X
<1>5. FlattenSeq(ps) \in Seq(X)
  BY <1>3, FlattenType
<1>6. \A i \in DOMAIN FlattenSeq(ps) : FlattenSeq(ps)[i] \in X
  <2> DEFINE s == FlattenSeq(ps)
  <2> HIDE DEF s
  <2>1. s \in Seq(X)
    BY <1>5 DEF s
  <2>2. \A i \in DOMAIN s : s[i] \in X
    BY <2>1
  <2> QED
    BY <2>2 DEF s
<1>7. \A p \in X : p[1] \in R
  BY DEF X
<1> QED
  BY <1>4, <1>6, <1>7

\* A good frame fits.
LEMMA FramesFit ==
  ASSUME DispatchTyped
  PROVE  MergedFramesFit
<1> SUFFICES ASSUME NEW w \in Running
             PROVE  LET f == worker[w]
                    IN /\ Len(f.sent) > 1 => Bytes(f.sent) <= ByteBudget
                       /\ f.mode # "single" =>
                            \A r \in {f.sent[i][1] : i \in DOMAIN f.sent} :
                              shape[r].cap # 0 => Len(f.sent) <= shape[r].cap
  BY DEF MergedFramesFit
<1> DEFINE f == worker[w]
           win == f.window
<1>1. FrameOK(f) /\ shape \in Mixes
  BY DEF DispatchTyped
<1>2. win \in Seq(Requests) /\ win # <<>> /\ f.mode \in {"single", "merged", "retry"}
  BY <1>1 DEF FrameOK
<1>3. CASE f.mode = "single"
  BY <1>1, <1>3 DEF FrameOK
<1>4. CASE f.mode = "merged"
  <2>1. /\ f.sent = AllInputs(win) /\ Bytes(f.sent) <= ByteBudget
        /\ \A i \in DOMAIN win : shape[win[i]].cap # 0 => Len(f.sent) <= shape[win[i]].cap
    BY <1>1, <1>4 DEF FrameOK
  <2>2. \A i \in DOMAIN f.sent : f.sent[i][1] \in ToSet(win)
    <3> HIDE DEF win
    <3>1. \A i \in DOMAIN AllInputs(win) : AllInputs(win)[i][1] \in ToSet(win)
      BY <1>1, <1>2, InputsOfWindow
    <3> QED
      BY <2>1, <3>1
  <2>3. \A r \in ToSet(win) : shape[r].cap # 0 => Len(f.sent) <= shape[r].cap
    BY <2>1, ToSetIs
  <2> QED
    BY <2>1, <2>2, <2>3
<1>5. CASE f.mode = "retry"
  <2> DEFINE h == Head(win)
  <2>1. /\ f.sent = Inputs(h)
        /\ \A i \in DOMAIN win :
            /\ Bytes(Inputs(win[i])) <= ByteBudget
            /\ shape[win[i]].cap # 0 => Len(Inputs(win[i])) <= shape[win[i]].cap
    BY <1>1, <1>5 DEF FrameOK
  <2>2. h = win[1] /\ 1 \in DOMAIN win /\ h \in Requests
    BY <1>2, EmptySeq, WindowIs
  <2>3. Bytes(f.sent) <= ByteBudget /\ (shape[h].cap # 0 => Len(f.sent) <= shape[h].cap)
    BY <2>1, <2>2
  <2>4. \A i \in DOMAIN f.sent : f.sent[i][1] = h
    <3> HIDE DEF h
    <3>1. \A i \in DOMAIN Inputs(h) : Inputs(h)[i] = <<h, i>>
      BY <1>1, <2>2, InputsType
    <3> QED
      BY <2>1, <3>1
  <2> QED
    BY <2>3, <2>4
<1> QED
  BY <1>2, <1>3, <1>4, <1>5

\* What was taken is the first part of the line.
LEMMA TakenInOrder ==
  ASSUME DispatchTyped, Order
  PROVE  PickedUpInOrder
<1>1. /\ taken \in Seq(LineEntries) /\ queue \in Seq(LineEntries) /\ mailbox \in Seq(LineEntries)
  BY LineType
<1> DEFINE t == queue \o mailbox
           L == Line
<1>2. t \in Seq(LineEntries) /\ Len(taken) \in Nat /\ DOMAIN taken = 1..Len(taken) /\ Len(t) \in Nat
  <2>1. t \in Seq(LineEntries)
    BY <1>1, ConcatProperties
  <2> QED
    BY <1>1, <2>1
<1>3. Line = taken \o t
  <2>1. Assoc(taken, queue, mailbox)
    BY <1>1, ConcatAssoc
  <2> QED
    BY <2>1 DEF Assoc, Line
<1> HIDE DEF t, L
<1>4. /\ L = taken \o t /\ L \in Seq(LineEntries) /\ Len(L) = Len(taken) + Len(t)
      /\ \A i \in 1..(Len(taken) + Len(t)) :
           L[i] = IF i <= Len(taken) THEN taken[i] ELSE t[i - Len(taken)]
  <2>1. L = taken \o t
    BY <1>3 DEF L
  <2> QED
    BY <2>1, <1>1, <1>2, ConcatProperties
<1>5. \A i \in DOMAIN taken : i \in DOMAIN L /\ L[i] = taken[i] /\ taken[i] # Shutdown
  <2> TAKE i \in DOMAIN taken
  <2>1. i \in 1..(Len(taken) + Len(t)) /\ i <= Len(taken)
    BY <1>2
  <2>2. L[i] = taken[i] /\ i \in DOMAIN L
    BY <1>4, <2>1, LenProperties
  <2>3. taken[i] \in Requests
    <3>1. taken \in Seq(Requests) /\ i \in 1..Len(taken)
      BY <1>2 DEF DispatchTyped
    <3> QED
      BY <3>1, ElementOfSeq
  <2>4. taken[i] # Shutdown
    BY <2>3, DispatchAssumption DEF DispatchAssumption
  <2> QED
    BY <2>2, <2>4
<1>6. \A i, j \in DOMAIN L :
        i < j /\ L[i] # Shutdown /\ L[j] # Shutdown => sentAt[L[i]] < sentAt[L[j]]
  BY DEF Order, L
<1> QED
  BY <1>5, <1>6 DEF PickedUpInOrder

DispatchInv == DispatchTyped /\ Fates /\ Held /\ Order

\* The invariant of the dispatcher: the frames are made of the inputs of their
\* windows, the answers are grounded, who waits is held, and what was taken, the
\* queue and the mailbox are one line.
THEOREM DispatchInvariant == DispatchSpec => []DispatchInv
<1>1. DispatchInit => DispatchInv
  BY DispatchTypedInit, FatesInit, HeldInit, OrderInit DEF DispatchInv
<1>2. DispatchInv /\ [DispatchNext]_dispatch => DispatchInv'
  BY TypedNext, FatesNext, HeldNext, OrderNext DEF DispatchInv
<1> QED
  BY <1>1, <1>2, PTL DEF DispatchSpec

\* A caller cannot tell whether its request was merged with others, retried
\* alone or split: its answer is made of the outputs of its own inputs, only a
\* request with a bad input fails, requests are taken in the order they were
\* sent, and no frame that is shared exceeds a cap of its members.
THEOREM Invisible == DispatchSpec => []BatchingIsInvisible
<1>1. DispatchInv => BatchingIsInvisible
  BY FramesFit, TakenInOrder DEF DispatchInv, Fates, BatchingIsInvisible
<1> QED
  BY <1>1, DispatchInvariant, PTL

\* A request that waits is in a window in flight, or in the queue or the mailbox
\* of a loop that still runs; a model that is gone leaves no worker.
THEOREM Remembered == DispatchSpec => []NobodyIsForgotten
<1>1. DispatchInv => NobodyIsForgotten
  BY DEF DispatchInv, Held, NobodyIsForgotten
<1> QED
  BY <1>1, DispatchInvariant, PTL

=============================================================================
