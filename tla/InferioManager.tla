--------------------------- MODULE InferioManager --------------------------
(***************************************************************************)
(* The model manager of the inference server (inferio/manager.rs): which   *)
(* models are loaded, which cache keys refer to them, and when their       *)
(* workers go.  All bookkeeping happens under one mutex that is never held *)
(* across an await, so every action below is one critical section; loads   *)
(* are serialised by a second, asynchronous lock that is held while the    *)
(* workers spawn.  In between, entries are unloaded, expired and evicted,  *)
(* clients hang up, workers die, and the manager shuts down.               *)
(*                                                                         *)
(* A generation is one loaded set of workers with its dispatcher           *)
(* (InferioDispatch models what that does with its requests).  Time is a   *)
(* choice: an entry with a TTL may have expired at any sweep.              *)
(***************************************************************************)
EXTENDS Naturals, FiniteSets, Sequences, SequencesExt, LruOrder

CONSTANTS
  Models, CacheKeys, Clients,
  LruSizes,      \* the lru_size values that requests carry
  Asks,          \* the requests that clients make: kind, model, key and TTL
  MaxLoads,      \* bound on the generations
  MaxAsks,       \* bound on the requests
  MaxUpsets,     \* bound on the deaths, the hang-ups and the deletes together
  CanShutDown

Nobody == "nobody"

ASSUME ManagerAssumption ==
  /\ LruSizes \subseteq Nat
  /\ {MaxLoads, MaxAsks, MaxUpsets} \subseteq Nat
  /\ CanShutDown \in BOOLEAN
  /\ IsFiniteSet(Clients) /\ Nobody \notin Clients

VARIABLES
  lru,        \* per cache key its models, the longest unused first
  ttl,        \* per cache key and model the expiration of the entry
  refs,       \* cache_refs: the cache keys that refer to a model
  pins,       \* the pin counts
  models,     \* the registered generation of a model, 0 for none
  sets,       \* per generation what its workers and dispatcher do
  draining,   \* the generations whose tasks a shutdown will await
  generations,
  lock,       \* the client that holds load_lock
  shutdown,   \* "no", "locking", "awaiting" or "done"
  awaited,    \* the tasks that the shutdown awaits
  client,     \* what each client is waiting for
  asks, deaths, hangups, unloads

cache == <<lru, ttl, refs>>
bounds == <<asks, deaths, hangups, unloads>>
CanUpset == deaths + hangups + unloads < MaxUpsets
vars == <<cache, pins, models, sets, draining, generations, lock, shutdown,
          awaited, client, bounds>>

Gens == 1..MaxLoads
None == 0
Idle == [at |-> "idle"]
Ttls == {"never", "expires"}
ShuttingDown == shutdown # "no"

Init ==
  /\ lru = [k \in CacheKeys |-> <<>>]
  /\ ttl = [k \in CacheKeys |-> [m \in Models |-> "never"]]
  /\ refs = [m \in Models |-> {}]
  /\ pins = [m \in Models |-> 0]
  /\ models = [m \in Models |-> None]
  /\ sets = [g \in Gens |-> "none"]
  /\ draining = {}
  /\ generations = 0
  /\ lock = Nobody
  /\ shutdown = "no"
  /\ awaited = {}
  /\ client = [c \in Clients |-> Idle]
  /\ asks = 0 /\ deaths = 0 /\ hangups = 0 /\ unloads = 0

-----------------------------------------------------------------------------
(* CacheState *)

\* The entries in gone leave their LRUs and take their references along:
\* resize, remove, clear and expire.
WithoutEntries(l, gone) ==
  [k \in CacheKeys |-> Forget(l[k], {m \in Models : <<k, m>> \in gone})]
WithoutRefs(r, gone) ==
  [m \in Models |-> {k \in r[m] : <<k, m>> \notin gone}]
\* The models whose last reference was among them.
Unreferenced(r, gone) ==
  {m \in Models : r[m] # {} /\ WithoutRefs(r, gone)[m] = {}}

Entries == {e \in CacheKeys \X Models : e[2] \in ToSet(lru[e[1]])}

Pin(p, m) == [p EXCEPT ![m] = @ + 1]
Unpin(p, m) == [p EXCEPT ![m] = IF @ = 0 THEN 0 ELSE @ - 1]

\* begin_unload: the dispatchers are told, and their tasks kept.
Unload(ms) ==
  LET gs == {models[m] : m \in ms} \ {None}
  IN /\ models' = [m \in Models |-> IF m \in ms THEN None ELSE models[m]]
     /\ sets' = [g \in Gens |-> IF g \in gs /\ sets[g] = "serving"
                                THEN "closing" ELSE sets[g]]
     /\ draining' = draining \cup gs

Removed(gone) ==
  /\ lru' = WithoutEntries(lru, gone)
  /\ refs' = WithoutRefs(refs, gone)
  /\ UNCHANGED ttl
  /\ Unload(Unreferenced(refs, gone))

-----------------------------------------------------------------------------
(* ensure_loaded *)

Ask(c, kind, m, k, t) ==
  /\ client[c] = Idle
  /\ asks < MaxAsks
  /\ <<kind, m, k, t>> \in Asks
  /\ asks' = asks + 1
  /\ client' = [client EXCEPT ![c] = [at |-> "lock", kind |-> kind, model |-> m,
                                      key |-> k, ttl |-> t, gen |-> None]]
  /\ UNCHANGED <<cache, pins, models, sets, draining, generations, lock, shutdown,
                 awaited, deaths, hangups, unloads>>

Refused(c) ==
  /\ client[c].at = "lock" /\ lock = Nobody
  /\ ShuttingDown
  /\ client' = [client EXCEPT ![c] = Idle]
  /\ UNCHANGED <<cache, pins, models, sets, draining, generations, lock, shutdown,
                 awaited, bounds>>

\* touch_load: the entry becomes the newest of its key, and the oldest ones
\* over the size leave, itself included when the size is 0.
Touch(m, k, t, size) ==
  LET entries == Append(Forget(lru[k], {m}), m)
      over == IF Len(entries) > size THEN Len(entries) - size ELSE 0
      gone == {<<k, entries[i]>> : i \in 1..over}
      touched == [refs EXCEPT ![m] = @ \cup {k}]
  IN /\ lru' = WithoutEntries([lru EXCEPT ![k] = entries], gone)
     /\ ttl' = [ttl EXCEPT ![k][m] = t]
     /\ refs' = WithoutRefs(touched, gone)
     /\ Unload(Unreferenced(touched, gone))

\* The first critical section: refused because the entry evicted itself,
\* served by the model that is loaded, or on to spawning one.
Begin(c) ==
  /\ client[c].at = "lock" /\ lock = Nobody
  /\ ~ShuttingDown
  /\ LET m == client[c].model
         Goes(next) == client' = [client EXCEPT ![c] = next]
     IN \E size \in LruSizes :
          /\ Touch(m, client[c].key, client[c].ttl, size)
          /\ \/ /\ refs'[m] = {}
                /\ Goes(Idle)
                /\ UNCHANGED <<pins, lock>>
             \/ /\ refs'[m] # {} /\ models'[m] # None
                /\ IF client[c].kind = "predict"
                   THEN /\ pins' = Pin(pins, m)
                        /\ Goes([client[c] EXCEPT !.at = "answer", !.gen = models'[m]])
                   ELSE Goes(Idle) /\ UNCHANGED pins
                /\ UNCHANGED lock
             \/ /\ refs'[m] # {} /\ models'[m] = None
                /\ generations < MaxLoads
                /\ pins' = Pin(pins, m)
                /\ Goes([client[c] EXCEPT !.at = "spawn"])
                /\ lock' = c
  /\ UNCHANGED <<generations, shutdown, awaited, bounds>>

\* Mutant: the set is registered without a second look at the references.
MutSpawnOkRegisters(c) ==
  /\ client[c].at = "spawn"
  /\ lock' = Nobody
  /\ generations' = generations + 1
  /\ sets' = [sets EXCEPT ![generations + 1] = "serving"]
  /\ models' = [models EXCEPT ![client[c].model] = generations + 1]
  /\ pins' = Unpin(pins, client[c].model)
  /\ client' = [client EXCEPT ![c] = Idle]
  /\ UNCHANGED <<cache, draining, shutdown, awaited, bounds>>

\* The workers are up: the spawn pin goes, and the set is registered unless
\* the model was unloaded meanwhile; then it is stopped in the background.
SpawnOk(c) ==
  /\ client[c].at = "spawn"
  /\ lock' = Nobody
  /\ generations' = generations + 1
  /\ LET m == client[c].model
         g == generations + 1
         unpinned == Unpin(pins, m)
     IN IF ShuttingDown \/ refs[m] = {}
        THEN /\ sets' = [sets EXCEPT ![g] = "closing"]
             /\ draining' = draining \cup {g}
             /\ pins' = unpinned
             /\ client' = [client EXCEPT ![c] = Idle]
             /\ UNCHANGED models
        ELSE /\ sets' = [sets EXCEPT ![g] = "serving"]
             /\ models' = [models EXCEPT ![m] = g]
             /\ IF client[c].kind = "predict"
                THEN /\ pins' = Pin(unpinned, m)
                     /\ client' = [client EXCEPT ![c].at = "answer", ![c].gen = g]
                ELSE /\ pins' = unpinned
                     /\ client' = [client EXCEPT ![c] = Idle]
             /\ UNCHANGED draining
  /\ UNCHANGED <<cache, shutdown, awaited, bounds>>

\* Mutant: a failed spawn keeps its entry.
MutSpawnFailsListed(c) ==
  /\ client[c].at = "spawn"
  /\ lock' = Nobody
  /\ pins' = Unpin(pins, client[c].model)
  /\ client' = [client EXCEPT ![c] = Idle]
  /\ UNCHANGED <<cache, models, sets, draining, generations, shutdown, awaited, bounds>>

\* The spawn failed, and what came up was killed: the entry of this request
\* leaves.
SpawnFails(c) ==
  /\ client[c].at = "spawn"
  /\ lock' = Nobody
  /\ pins' = Unpin(pins, client[c].model)
  /\ Removed({<<client[c].key, client[c].model>>})
  /\ client' = [client EXCEPT ![c] = Idle]
  /\ UNCHANGED <<generations, shutdown, awaited, bounds>>

-----------------------------------------------------------------------------
(* predict, and a client that hangs up *)

\* unpin_restore: the pin goes, and the requested TTL counts from now, if the
\* entry is there.
Restored(c) ==
  /\ pins' = Unpin(pins, client[c].model)
  /\ ttl' = IF client[c].model \in ToSet(lru[client[c].key])
            THEN [ttl EXCEPT ![client[c].key][client[c].model] = client[c].ttl]
            ELSE ttl

\* The dispatcher answered, with outputs or with an error.
Answer(c) ==
  /\ client[c].at = "answer"
  /\ Restored(c)
  /\ client' = [client EXCEPT ![c] = Idle]
  /\ UNCHANGED <<lru, refs, models, sets, draining, generations, lock, shutdown,
                 awaited, bounds>>

\* Mutant: the spawn pin is not released by the guard.
MutHangUpPinned(c) ==
  /\ CanUpset
  /\ client[c] # Idle
  /\ hangups' = hangups + 1
  /\ CASE client[c].at = "answer" -> Restored(c) /\ UNCHANGED lock
       [] client[c].at = "spawn" -> lock' = Nobody /\ UNCHANGED <<pins, ttl>>
       [] OTHER -> UNCHANGED <<pins, lock, ttl>>
  /\ client' = [client EXCEPT ![c] = Idle]
  /\ UNCHANGED <<lru, refs, models, sets, draining, generations, shutdown, awaited,
                 asks, deaths, unloads>>

\* The request is dropped where it waits; its guards release what it held,
\* and workers that were being spawned are killed with it.
HangUp(c) ==
  /\ CanUpset
  /\ client[c] # Idle
  /\ hangups' = hangups + 1
  /\ CASE client[c].at = "answer" -> Restored(c) /\ UNCHANGED lock
       [] client[c].at = "spawn" -> /\ pins' = Unpin(pins, client[c].model)
                                    /\ lock' = Nobody
                                    /\ UNCHANGED ttl
       [] OTHER -> UNCHANGED <<pins, lock, ttl>>
  /\ client' = [client EXCEPT ![c] = Idle]
  /\ UNCHANGED <<lru, refs, models, sets, draining, generations, shutdown, awaited,
                 asks, deaths, unloads>>

-----------------------------------------------------------------------------
(* unload_model, clear_cache, the sweeper *)

UnloadModel(k, m) ==
  /\ CanUpset
  /\ <<k, m>> \in Entries
  /\ unloads' = unloads + 1
  /\ Removed({<<k, m>>})
  /\ UNCHANGED <<pins, generations, lock, shutdown, awaited, client, asks, deaths,
                 hangups>>

ClearCache(k) ==
  /\ CanUpset
  /\ lru[k] # <<>>
  /\ unloads' = unloads + 1
  /\ Removed({e \in Entries : e[1] = k})
  /\ UNCHANGED <<pins, generations, lock, shutdown, awaited, client, asks, deaths,
                 hangups>>

\* Mutant: the pins are not looked at.
MutExpirablePinned == {e \in Entries : ttl[e[1]][e[2]] = "expires"}

\* What may have expired: entries with a TTL whose model nobody has pinned.
Expirable == {e \in Entries : ttl[e[1]][e[2]] = "expires" /\ pins[e[2]] = 0}

\* The sweeper is aborted by a shutdown and looks at the flag besides.
Sweep ==
  /\ ~ShuttingDown
  /\ \E gone \in SUBSET Expirable \ {{}} :
       LET us == Unreferenced(refs, gone)
           gs == {models[m] : m \in us} \ {None}
       IN /\ lru' = WithoutEntries(lru, gone)
          /\ refs' = WithoutRefs(refs, gone)
          /\ models' = [m \in Models |-> IF m \in us THEN None ELSE models[m]]
          /\ sets' = [g \in Gens |-> IF g \in gs /\ sets[g] = "serving"
                                     THEN "closing" ELSE sets[g]]
          /\ draining' = {g \in draining : sets[g] # "gone"} \cup gs
  /\ UNCHANGED <<ttl, pins, generations, lock, shutdown, awaited, client, bounds>>

-----------------------------------------------------------------------------
(* Deaths and the ends of dispatchers *)

\* A replica failed fatally: the dispatcher fails its requests, kills the
\* others, and is about to report.
WorkerDies(g) ==
  /\ CanUpset
  /\ sets[g] = "serving"
  /\ deaths' = deaths + 1
  /\ sets' = [sets EXCEPT ![g] = "dead"]
  /\ UNCHANGED <<cache, pins, models, draining, generations, lock, shutdown, awaited,
                 client, asks, hangups, unloads>>

\* handle_worker_death: only the generation that is registered drops the
\* model, from every cache key at once.
ReportDeath(g) ==
  /\ sets[g] = "dead"
  /\ sets' = [sets EXCEPT ![g] = "gone"]
  /\ LET ms == {m \in Models : models[m] = g}
     IN /\ models' = [m \in Models |-> IF m \in ms THEN None ELSE models[m]]
        /\ draining' = IF ms = {} THEN draining ELSE draining \cup {g}
        /\ lru' = WithoutEntries(lru, CacheKeys \X ms)
        /\ refs' = WithoutRefs(refs, CacheKeys \X ms)
  /\ UNCHANGED <<ttl, pins, generations, lock, shutdown, awaited, client, bounds>>

\* A dispatcher that was told to stop, or a discarded set, is through.
DrainEnds(g) ==
  /\ sets[g] = "closing"
  /\ sets' = [sets EXCEPT ![g] = "gone"]
  /\ UNCHANGED <<cache, pins, models, draining, generations, lock, shutdown, awaited,
                 client, bounds>>

-----------------------------------------------------------------------------
(* shutdown *)

\* Every model is told, everything is forgotten.
BeginShutdown ==
  /\ CanShutDown
  /\ shutdown = "no"
  /\ shutdown' = "locking"
  /\ LET gs == {models[m] : m \in Models} \ {None}
     IN /\ awaited' = gs \cup draining
        /\ sets' = [g \in Gens |-> IF g \in gs /\ sets[g] = "serving"
                                   THEN "closing" ELSE sets[g]]
  /\ draining' = {}
  /\ models' = [m \in Models |-> None]
  /\ lru' = [k \in CacheKeys |-> <<>>]
  /\ refs' = [m \in Models |-> {}]
  /\ pins' = [m \in Models |-> 0]
  /\ UNCHANGED <<ttl, generations, lock, client, bounds>>

\* The load that was in flight has decided what becomes of its workers.
LockedShutdown ==
  /\ shutdown = "locking"
  /\ lock = Nobody
  /\ shutdown' = "awaiting"
  /\ awaited' = awaited \cup draining
  /\ draining' = {}
  /\ UNCHANGED <<cache, pins, models, sets, generations, lock, client, bounds>>

EndShutdown ==
  /\ shutdown = "awaiting"
  /\ \A g \in awaited : sets[g] = "gone"
  /\ shutdown' = "done"
  /\ UNCHANGED <<cache, pins, models, sets, draining, generations, lock, awaited,
                 client, bounds>>

-----------------------------------------------------------------------------
Next ==
  \/ \E c \in Clients :
       \/ \E kind \in {"load", "predict"}, m \in Models, k \in CacheKeys, t \in Ttls :
            Ask(c, kind, m, k, t)
       \/ Refused(c) \/ Begin(c) \/ SpawnOk(c) \/ SpawnFails(c)
       \/ Answer(c) \/ HangUp(c)
  \/ \E k \in CacheKeys : ClearCache(k) \/ \E m \in Models : UnloadModel(k, m)
  \/ Sweep
  \/ \E g \in Gens : WorkerDies(g) \/ ReportDeath(g) \/ DrainEnds(g)
  \/ BeginShutdown \/ LockedShutdown \/ EndShutdown

Spec == Init /\ [][Next]_vars

\* A spawn has a deadline, a drain is bounded by unload_grace, a dispatcher
\* answers what it was sent, and the sweeper ticks.
Fairness ==
  /\ \A c \in Clients :
       /\ WF_vars(Refused(c)) /\ SF_vars(Begin(c))
       /\ WF_vars(SpawnOk(c) \/ SpawnFails(c))
       /\ WF_vars(Answer(c))
  /\ \A g \in Gens : WF_vars(ReportDeath(g)) /\ WF_vars(DrainEnds(g))
  /\ WF_vars(Sweep)
  /\ WF_vars(LockedShutdown) /\ WF_vars(EndShutdown)

FairSpec == Spec /\ Fairness

-----------------------------------------------------------------------------
(* Properties *)

Waits == {"lock", "spawn", "answer"}

\* Types of the state (ManagerState and CacheState of manager.rs).
TypeOK ==
  /\ lru \in [CacheKeys -> Seq(Models)]
  /\ ttl \in [CacheKeys -> [Models -> Ttls]]
  /\ refs \in [Models -> SUBSET CacheKeys]
  /\ pins \in [Models -> 0..Cardinality(Clients)]
  /\ models \in [Models -> {None} \cup Gens]
  /\ sets \in [Gens -> {"none", "serving", "closing", "dead", "gone"}]
  /\ draining \subseteq Gens /\ awaited \subseteq Gens
  /\ generations \in 0..MaxLoads
  /\ lock \in Clients \cup {Nobody}
  /\ shutdown \in {"no", "locking", "awaiting", "done"}
  /\ \A c \in Clients : client[c] = Idle \/
       /\ client[c].at \in Waits
       /\ client[c].gen \in {None} \cup Gens

\* CacheState: a model lists exactly the keys whose LRU lists the model, once.
RefsMatchEntries ==
  /\ \A m \in Models : refs[m] = {k \in CacheKeys : <<k, m>> \in Entries}
  /\ \A k \in CacheKeys : Cardinality(ToSet(lru[k])) = Len(lru[k])

\* "Failed loads never leave a phantom id in `/cache`" (module doc): what the
\* caches list is loaded, or being loaded.
NoPhantomEntry ==
  \A m \in Models : refs[m] # {} =>
    \/ models[m] # None
    \/ lock # Nobody /\ client[lock].model = m

\* The caches tell the truth: references and entries agree, and as long as no
\* client has hung up (the code leaves the entry of a load that its client
\* abandoned) every entry stands for a model.
CacheIsTrue ==
  /\ RefsMatchEntries
  /\ hangups = 0 => NoPhantomEntry

\* "Leaking the process with no reference to ever unload it" (module doc): a
\* registered model has a reference, and its set is still there.
RegisteredIsReferenced ==
  \A m \in Models : models[m] # None =>
    /\ refs[m] # {}
    /\ sets[models[m]] \in {"serving", "dead"}

\* No set of workers is left to itself: it is registered, or it was told to
\* stop and its task is one that a shutdown awaits.
WorkersAreOwned ==
  \A g \in Gens :
    /\ sets[g] = "serving" => \E m \in Models : models[m] = g
    /\ sets[g] \in {"closing", "dead"} =>
         g \in draining \cup awaited \/ \E m \in Models : models[m] = g

\* PinGuard: a model is pinned exactly as often as requests hold a pin on it.
PinsAreHeld ==
  ~ShuttingDown =>
    \A m \in Models :
      pins[m] = Cardinality({c \in Clients : /\ client[c] # Idle
                                             /\ client[c].at \in {"spawn", "answer"}
                                             /\ client[c].model = m})

\* shutdown: when it returns, every worker is gone and none comes up later.
ShutdownLeavesNoWorker ==
  shutdown = "done" => /\ \A g \in Gens : sets[g] \in {"none", "gone"}
                       /\ \A c \in Clients : client[c] = Idle \/ client[c].at # "spawn"

\* The workers are accounted for, from the load through pins, deaths and
\* discarded loads to the shutdown.
WorkersAreAccounted ==
  RegisteredIsReferenced /\ WorkersAreOwned /\ PinsAreHeld /\ ShutdownLeavesNoWorker

\* A model cannot expire under a request: no sweep takes the generation that
\* a predict waits for, whichever cache key it came through.
SweepSparesRequests ==
  [][Sweep => \A c \in Clients :
        client[c] # Idle /\ client[c].at = "answer" =>
          \A m \in Models : models[m] = client[c].gen => models'[m] = models[m]]_vars

\* handle_worker_death: a late report leaves a newer generation alone.
LateDeathSparesReload ==
  [][\A g \in Gens : ReportDeath(g) =>
        \A m \in Models : models[m] # g => models'[m] = models[m] /\ refs'[m] = refs[m]]_vars

\* What is done in the name of one cache key: a load with the evictions it
\* brings about or the entry it takes back, an unload and a clear.
UnderKey(k) ==
  \/ \E c \in Clients : (Begin(c) \/ SpawnFails(c)) /\ client[c].key = k
  \/ ClearCache(k)
  \/ \E m \in Models : UnloadModel(k, m)

\* cache_refs: a key lets go of its own references only, and a model that
\* another key still refers to stays loaded, as the set of workers it was.  (It
\* may well unload a model of its own under a request: the pins hold back the
\* sweeper alone, and the dispatcher answers what it has accepted.)
OtherKeysStay ==
  [][\A k \in CacheKeys : UnderKey(k) =>
        \A m \in Models : /\ refs'[m] \ {k} = refs[m] \ {k}
                          /\ refs[m] \ {k} # {} => models'[m] = models[m]]_vars

\* expire: a key that loaded a model without a TTL holds it against the sweeper,
\* whatever expires under the other keys.
SweepSparesHolders ==
  [][Sweep => \A m \in Models, k \in CacheKeys :
        k \in refs[m] /\ ttl[k][m] = "never" => k \in refs'[m] /\ models'[m] = models[m]]_vars

\* No key, no sweep and no late death takes a model that another key or another
\* load holds, and no sweep one that a request waits for.
OthersModelsStay ==
  OtherKeysStay /\ SweepSparesHolders /\ SweepSparesRequests /\ LateDeathSparesReload

\* unpin_restore: "No effect when the entry was removed meanwhile": a request
\* sets the TTL of an entry only while the load it waited for is registered.
RestoresItsOwnEntry ==
  [][\A c \in Clients :
        client[c] # Idle /\ client[c].at = "answer" /\ client'[c] = Idle /\ ttl' # ttl => models[client[c].model] = client[c].gen]_vars

\* Between the requests everything comes to its end: an entry with a TTL goes
\* (no pin is left behind that would keep it), and a shutdown that was begun
\* returns (no drain, no discarded load holds it up).
EverythingEnds ==
  []<>(/\ shutdown \in {"no", "done"}
       /\ \A e \in Entries : ttl[e[1]][e[2]] = "never")
=============================================================================
