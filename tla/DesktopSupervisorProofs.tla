----------------------- MODULE DesktopSupervisorProofs -----------------------
(***************************************************************************)
(* For any number of windows, commands, processes and faults: no Server    *)
(* runs without the supervisor, the slot is emptied for its own process    *)
(* only, and the restarts stay within the budget.                          *)
(*                                                                         *)
(* start and stop overlap freely here.  What keeps the slot right is that  *)
(* a generation is stored once, by the caller that spawned it, and that    *)
(* the handle it replaces closes its process.                              *)
(***************************************************************************)
EXTENDS DesktopSupervisor, SequenceTheorems, TLAPS

Steps == {"idle", "enabled", "check", "arm", "spawn", "store", "stop", "send",
          "wait", "deadline", "stopped", "installing"}
Names == {"none", "start", "restart", "apply", "disable", "enable", "update",
          "update only"}
(* Only these commands come to stop.                                       *)
Stops(x) == x.at \in {"stop", "send", "wait", "deadline", "stopped"} =>
              x.kind \in {"restart", "apply", "update", "update only", "disable"}
Calls == {x \in [at : Steps, kind : Names, gen : Nat] : Stops(x)}
Procs == {"none", "starting", "serving", "asked", "hung", "exited"}
Unasked == {"starting", "serving"}

Types ==
  /\ child \in Nat /\ generation \in 0..MaxGenerations
  /\ proc \in [Gens -> Procs]
  /\ exitOf \in [Gens -> {"none", "record", "stable", "sleep", "done"}]
  /\ call \in [Callers -> Calls]

(* A handle is stored once: what a caller is about to store is a process   *)
(* that it spawned, not in the slot and not another caller's.              *)
Pending ==
  /\ child <= generation
  /\ child # None => proc[child] # "none"
  /\ \A c \in Callers : call[c].at = "store" =>
       /\ call[c].gen \in 1..generation /\ call[c].gen # child
       /\ proc[call[c].gen] # "none"
       /\ \A d \in Callers : call[d].at = "store" /\ call[d].gen = call[c].gen => c = d

(* The timer of a generation runs once, after its exit was handled.        *)
Timers == \A g \in Gens : exitOf[g] # "done" => call[g].at = "idle"

(* The deque of the budget holds the latest timers; those that have left   *)
(* it are out of the window, or a stable run has ended since.              *)
Forgotten(j) ==
  \/ now - restarts[j].at > Window
  \/ \E l \in (j + 1)..Len(restarts) : restarts[l].fresh

Timed ==
  /\ now \in Nat /\ exits \in Seq(Nat)
  /\ restarts \in Seq([at : Nat, fresh : BOOLEAN])

Remembered ==
  /\ Len(exits) <= MaxExits /\ Len(exits) <= Len(restarts)
  /\ MaxExits = 0 => Len(restarts) = 0
  /\ \A i \in 1..Len(exits) : exits[i] = restarts[Len(restarts) - Len(exits) + i].at
  /\ \A j \in 1..(Len(restarts) - Len(exits)) : Forgotten(j)

Budgeted == Timed /\ Remembered /\ RestartsAreBounded

IInv == Types /\ Pending /\ Timers /\ NoServerIsForgotten /\ Budgeted

-----------------------------------------------------------------------------
(* Steps that store nothing                                                *)

(* What they may do to the slot and to the processes: processes are asked  *)
(* to go, or go, and the slot is emptied when its process no longer runs.  *)
Gentle ==
  /\ generation' \in {generation, generation + 1} /\ generation' \in 0..MaxGenerations
  /\ proc' \in [Gens -> Procs]
  /\ \A g \in Gens : /\ proc'[g] = "none" <=> proc[g] = "none"
                     /\ proc'[g] \in Unasked => proc[g] \in Unasked
  /\ \/ child' = child
     \/ child' = None /\ (child # None => proc'[child] \notin Unasked)

(* The calls that store are the same, and store the same.                  *)
StoresStay ==
  \A c \in Callers : /\ call'[c].at = "store" <=> call[c].at = "store"
                     /\ call[c].at = "store" => call'[c].gen = call[c].gen

LEMMA GentleKeepsSlot ==
  ASSUME Types, Pending, NoServerIsForgotten, Gentle, StoresStay
  PROVE  Pending' /\ NoServerIsForgotten'
<1> USE SupervisorAssumption DEF SupervisorAssumption
<1>1. /\ generation \in Nat /\ generation' \in Nat /\ generation <= generation'
      /\ child \in Nat /\ child' \in {child, None}
  BY DEF Types, Gentle
<1>2. ASSUME child # None PROVE child \in Gens
  BY <1>1, <1>2 DEF Types, Pending, Gens, None
<1>3. ASSUME NEW c \in Callers, call[c].at = "store" PROVE call[c].gen \in Gens
  BY <1>3, <1>1 DEF Types, Pending, Gens
<1>4. child' <= generation' /\ (child' # None => proc'[child'] # "none")
  BY <1>1, <1>2 DEF Types, Pending, Gentle, None
<1>5. ASSUME NEW c \in Callers, call'[c].at = "store"
      PROVE  /\ call'[c].gen \in 1..generation' /\ call'[c].gen # child'
             /\ proc'[call'[c].gen] # "none"
             /\ \A d \in Callers : call'[d].at = "store" /\ call'[d].gen = call'[c].gen => c = d
  <2>1. call[c].at = "store" /\ call'[c].gen = call[c].gen
    BY <1>5 DEF StoresStay
  <2>2. call[c].gen \in 1..generation /\ call[c].gen # child /\ call[c].gen # None
    BY <1>1, <2>1 DEF Pending, None
  <2>3. proc'[call[c].gen] # "none"
    BY <1>3, <2>1 DEF Pending, Gentle
  <2>4. \A d \in Callers : call'[d].at = "store" /\ call'[d].gen = call'[c].gen => c = d
    BY <2>1 DEF Pending, StoresStay
  <2>5. call[c].gen \in 1..generation' /\ call[c].gen # child'
    BY <1>1, <2>2
  <2> QED
    BY <2>1, <2>3, <2>4, <2>5
<1>6. ASSUME NEW g \in Gens, proc'[g] \in Unasked
      PROVE  child' = g \/ \E c \in Callers : call'[c].at = "store" /\ call'[c].gen = g
  <2>1. proc[g] \in Unasked
    BY <1>6 DEF Gentle
  <2>2. CASE child = g
    BY <1>6, <2>2 DEF Gentle, Gens, None
  <2>3. ASSUME NEW c \in Callers, call[c].at = "store", call[c].gen = g
        PROVE  call'[c].at = "store" /\ call'[c].gen = g
    BY <2>3 DEF StoresStay
  <2> QED
    BY <2>1, <2>2, <2>3 DEF NoServerIsForgotten, Unasked
<1> QED
  BY <1>4, <1>5, <1>6 DEF Pending, NoServerIsForgotten, Unasked

(* A call goes on.                                                         *)
LEMMA CallGoesOn ==
  ASSUME IInv, NEW c \in Callers, NEW x \in Calls,
         call' = [call EXCEPT ![c] = x], x.at # "store", call[c].at # "store",
         c \in Users \/ call[c].at # "idle",
         Gentle, UNCHANGED <<exitOf, exits, restarts, now>>
  PROVE  IInv'
<1>1. \A d \in Callers : call'[d] = IF d = c THEN x ELSE call[d]
  BY DEF IInv, Types
<1>2. StoresStay
  BY <1>1 DEF StoresStay
<1>3. Types'
  <2>1. child' \in Nat
    BY DEF IInv, Types, Gentle, None
  <2>2. call' \in [Callers -> Calls]
    BY DEF IInv, Types
  <2> QED
    BY <2>1, <2>2 DEF IInv, Types, Gentle
<1>4. Timers'
  <2> SUFFICES ASSUME NEW g \in Gens, exitOf[g] # "done" PROVE call'[g].at = "idle"
    BY DEF Timers
  <2>1. call[g].at = "idle"
    BY DEF IInv, Timers
  <2>2. g \in Callers /\ g \notin Users
    BY SupervisorAssumption DEF SupervisorAssumption, Callers, Gens
  <2>3. g # c
    BY <2>1, <2>2
  <2> QED
    BY <1>1, <2>1, <2>2, <2>3
<1>5. Budgeted'
  BY DEF IInv, Budgeted, Timed, Remembered, Forgotten, RestartsAreBounded
<1> QED
  BY <1>2, <1>3, <1>4, <1>5, GentleKeepsSlot DEF IInv

(* The supervisor's tasks and the processes go on; no call does.           *)
LEMMA TaskGoesOn ==
  ASSUME IInv, call' = call, Gentle, Budgeted',
         exitOf' \in [Gens -> {"none", "record", "stable", "sleep", "done"}],
         \A g \in Gens : exitOf[g] = "done" => exitOf'[g] = "done"
  PROVE  IInv'
<1>1. StoresStay
  BY DEF StoresStay
<1>2. Types'
  <2>1. child' \in Nat
    BY DEF IInv, Types, Gentle, None
  <2> QED
    BY <2>1 DEF IInv, Types, Gentle
<1>3. Timers'
  BY DEF IInv, Timers
<1> QED
  BY <1>1, <1>2, <1>3, GentleKeepsSlot DEF IInv

LEMMA NothingIsGentle ==
  ASSUME Types, UNCHANGED <<generation, proc, child>>
  PROVE  Gentle
BY DEF Types, Gentle

-----------------------------------------------------------------------------
(* start                                                                   *)

LEMMA GotoIsACall ==
  ASSUME NEW x \in Calls, NEW at \in Steps, at # "stop",
         at \in {"send", "wait", "deadline", "stopped"} =>
           x.at \in {"stop", "send", "wait", "deadline"}
  PROVE  [x EXCEPT !.at = at] \in Calls /\ [x EXCEPT !.at = at].at = at
BY DEF Calls, Stops

LEMMA IdleIsACall == Idle \in Calls /\ Idle.at = "idle"
BY DEF Idle, Calls, Stops, Steps, Names, None

(* The steps of start and stop that only go on to the next one.            *)
LEMMA Going ==
  ASSUME IInv, NEW c \in Callers, NEW at \in Steps, Goto(c, at),
         at # "store", call[c].at # "store", call[c].at # "idle", at # "stop",
         at \in {"send", "wait", "deadline", "stopped"} =>
           call[c].at \in {"stop", "send", "wait", "deadline"},
         Gentle, UNCHANGED <<exitOf, exits, restarts, now>>
  PROVE  IInv'
<1> DEFINE x == [call[c] EXCEPT !.at = at]
<1>1. call[c] \in Calls /\ call' = [call EXCEPT ![c] = x]
  BY DEF IInv, Types, Goto
<1>2. x \in Calls /\ x.at = at
  BY <1>1, GotoIsACall
<1> HIDE DEF x
<1> QED
  BY <1>1, <1>2, CallGoesOn

LEMMA Returning ==
  ASSUME IInv, NEW c \in Callers, Return(c),
         call[c].at # "store", call[c].at # "idle",
         Gentle, UNCHANGED <<exitOf, exits, restarts, now>>
  PROVE  IInv'
BY IdleIsACall, CallGoesOn DEF Return

LEMMA StartInv ==
  ASSUME IInv, NEW c \in Callers,
         StartEnabled(c) \/ StartCheck(c) \/ StartArm(c) \/ StartFails(c)
  PROVE  IInv'
<1> USE DEF Steps
<1>0. Types
  BY DEF IInv
<1>1. CASE StartEnabled(c)
  <2>1. UNCHANGED <<generation, proc, child, exitOf, exits, restarts, now>>
    BY <1>1 DEF StartEnabled, clock, bounds
  <2> QED
    BY <1>0, <1>1, <2>1, NothingIsGentle, Going, Returning DEF StartEnabled
<1>2. CASE StartCheck(c)
  <2>1. UNCHANGED <<generation, proc, child, exitOf, exits, restarts, now>>
    BY <1>2 DEF StartCheck, clock, bounds
  <2> QED
    BY <1>0, <1>2, <2>1, NothingIsGentle, Going, Returning DEF StartCheck
<1>3. CASE StartArm(c)
  <2>1. UNCHANGED <<generation, proc, child, exitOf, exits, restarts, now>>
    BY <1>3 DEF StartArm, clock, bounds
  <2> QED
    BY <1>0, <1>3, <2>1, NothingIsGentle, Going DEF StartArm
<1>4. CASE StartFails(c)
  <2>1. UNCHANGED <<proc, child, exitOf, exits, restarts, now>>
    BY <1>4 DEF StartFails, clock
  <2>2. generation' \in {generation, generation + 1} /\ generation' \in 0..MaxGenerations
    BY <1>0, <1>4, SupervisorAssumption DEF StartFails, Types, SupervisorAssumption
  <2>3. Gentle
    BY <1>0, <2>1, <2>2 DEF Gentle, Types
  <2> QED
    BY <1>4, <2>1, <2>3, Returning DEF StartFails
<1> QED
  BY <1>1, <1>2, <1>3, <1>4

(* The process is new: no slot and no other caller has its generation.     *)
LEMMA StartSpawnInv == ASSUME IInv, NEW c \in Callers, StartSpawn(c) PROVE IInv'
<1> DEFINE n == generation + 1
           x == [call[c] EXCEPT !.at = "store", !.gen = n]
<1> USE SupervisorAssumption DEF SupervisorAssumption
<1>1. /\ call[c].at = "spawn" /\ generation < MaxGenerations /\ generation' = n
      /\ proc' = [proc EXCEPT ![n] = "starting"]
      /\ call' = [call EXCEPT ![c] = x]
      /\ UNCHANGED <<child, exits, restarts, exitOf, now>>
  BY DEF StartSpawn, clock, bounds
<1>2. /\ generation \in Nat /\ n \in Gens /\ n \in Nat /\ child \in Nat /\ child <= generation
      /\ call[c] \in Calls /\ call \in [Callers -> Calls]
      /\ proc \in [Gens -> Procs]
  BY <1>1 DEF IInv, Types, Pending, Gens
<1>3. x \in Calls /\ x.at = "store" /\ x.gen = n
  BY <1>2 DEF Calls, Stops, Steps
<1> HIDE DEF x
<1>4. \A d \in Callers : call'[d] = IF d = c THEN x ELSE call[d]
  BY <1>1, <1>2
<1>5. \A g \in Gens : proc'[g] = IF g = n THEN "starting" ELSE proc[g]
  BY <1>1, <1>2
<1>6. Types'
  <2>1. generation' \in 0..MaxGenerations
    BY <1>1, <1>2
  <2>2. proc' \in [Gens -> Procs]
    BY <1>1, <1>2 DEF Procs
  <2>3. call' \in [Callers -> Calls]
    BY <1>1, <1>2, <1>3
  <2> QED
    BY <1>1, <2>1, <2>2, <2>3 DEF IInv, Types
<1>7. Pending'
  <2>1. child' <= generation' /\ (child' # None => proc'[child'] # "none")
    <3>1. child # None => child \in Gens
      BY <1>1, <1>2 DEF Gens, None
    <3> QED
      BY <1>1, <1>2, <1>5, <3>1 DEF IInv, Pending
  <2>2. \A d \in Callers : call[d].at = "store" => call[d].gen \in Gens /\ call[d].gen <= generation
    BY <1>1, <1>2 DEF IInv, Pending, Gens
  <2>3. ASSUME NEW d \in Callers, call'[d].at = "store"
        PROVE  /\ call'[d].gen \in 1..generation' /\ call'[d].gen # child'
               /\ proc'[call'[d].gen] # "none"
               /\ \A e \in Callers : call'[e].at = "store" /\ call'[e].gen = call'[d].gen => d = e
    <3>1. CASE d = c
      <4>1. call'[d].gen = n
        BY <1>3, <1>4, <3>1
      <4>2. ASSUME NEW e \in Callers, call'[e].at = "store", call'[e].gen = n PROVE e = c
        BY <1>2, <1>4, <2>2, <4>2
      <4> QED
        BY <1>1, <1>2, <1>5, <3>1, <4>1, <4>2
    <3>2. CASE d # c
      <4>1. call'[d] = call[d] /\ call[d].at = "store"
        BY <1>4, <2>3, <3>2
      <4>2. call[d].gen \in 1..generation /\ call[d].gen # child /\ call[d].gen # n
        BY <1>2, <2>2, <4>1 DEF IInv, Pending
      <4>3. proc'[call[d].gen] # "none"
        BY <1>5, <2>2, <4>1 DEF IInv, Pending
      <4>4. ASSUME NEW e \in Callers, call'[e].at = "store", call'[e].gen = call[d].gen
            PROVE  d = e
        <5>1. e # c
          BY <1>3, <1>4, <4>2, <4>4
        <5> QED
          BY <1>4, <4>1, <4>4, <5>1 DEF IInv, Pending
      <4> QED
        BY <1>1, <1>2, <4>1, <4>2, <4>3, <4>4
    <3> QED
      BY <3>1, <3>2
  <2> QED
    BY <2>1, <2>3 DEF Pending
<1>8. Timers'
  <2> SUFFICES ASSUME NEW g \in Gens, exitOf[g] # "done" PROVE call'[g].at = "idle"
    BY <1>1 DEF Timers
  <2>1. call[g].at = "idle" /\ g \in Callers
    BY DEF IInv, Timers, Callers
  <2> QED
    BY <1>1, <1>4, <2>1
<1>9. NoServerIsForgotten'
  <2> SUFFICES ASSUME NEW g \in Gens, proc'[g] \in Unasked
               PROVE  child' = g \/ \E d \in Callers : call'[d].at = "store" /\ call'[d].gen = g
    BY DEF NoServerIsForgotten, Unasked
  <2>1. CASE g = n
    BY <1>3, <1>4, <2>1
  <2>2. CASE g # n
    <3>1. proc[g] \in Unasked
      BY <1>5, <2>2
    <3>2. ASSUME NEW d \in Callers, call[d].at = "store", call[d].gen = g
          PROVE  call'[d].at = "store" /\ call'[d].gen = g
      BY <1>1, <1>4, <3>2
    <3> QED
      BY <1>1, <3>1, <3>2 DEF IInv, NoServerIsForgotten, Unasked
  <2> QED
    BY <2>1, <2>2
<1>10. Budgeted'
  BY <1>1 DEF IInv, Budgeted, Timed, Remembered, Forgotten, RestartsAreBounded
<1> QED
  BY <1>6, <1>7, <1>8, <1>9, <1>10 DEF IInv

(* The handle that is replaced closes its process.                         *)
LEMMA StartStoreInv == ASSUME IInv, NEW c \in Callers, StartStore(c) PROVE IInv'
<1> DEFINE n == call[c].gen
<1> USE SupervisorAssumption DEF SupervisorAssumption
<1>1. /\ call[c].at = "store" /\ child' = n
      /\ proc' = [g \in Gens |-> IF g = child THEN Closing(proc[g]) ELSE proc[g]]
      /\ call' = [call EXCEPT ![c] = Idle]
      /\ UNCHANGED <<generation, exits, restarts, exitOf, now>>
  BY DEF StartStore, Return, clock, bounds
<1>2. /\ n \in 1..generation /\ n # child /\ proc[n] # "none"
      /\ \A d \in Callers : call[d].at = "store" /\ call[d].gen = n => d = c
      /\ generation \in Nat /\ generation <= MaxGenerations
      /\ call \in [Callers -> Calls] /\ proc \in [Gens -> Procs]
  BY <1>1 DEF IInv, Types, Pending
<1>3. n \in Gens /\ n \in Nat
  BY <1>2 DEF Gens
<1>4. \A d \in Callers : call'[d] = IF d = c THEN Idle ELSE call[d]
  BY <1>1, <1>2
<1>5. \A g \in Gens : /\ proc'[g] \in Procs /\ (proc[g] # "none" => proc'[g] # "none")
                      /\ proc'[g] \in Unasked => proc[g] \in Unasked /\ g # child
  BY <1>1, <1>2 DEF Closing, Procs, Unasked
<1>6. Types'
  <2>1. call' \in [Callers -> Calls]
    BY <1>1, <1>2, IdleIsACall
  <2>2. proc' \in [Gens -> Procs]
    BY <1>1, <1>5
  <2> QED
    BY <1>1, <1>3, <2>1, <2>2 DEF IInv, Types
<1>7. Pending'
  <2>1. child' <= generation' /\ proc'[child'] # "none"
    BY <1>1, <1>2, <1>3, <1>5
  <2>2. ASSUME NEW d \in Callers, call'[d].at = "store"
        PROVE  /\ call'[d].gen \in 1..generation' /\ call'[d].gen # child'
               /\ proc'[call'[d].gen] # "none"
               /\ \A e \in Callers : call'[e].at = "store" /\ call'[e].gen = call'[d].gen => d = e
    <3>1. d # c /\ call'[d] = call[d] /\ call[d].at = "store"
      BY <1>4, <2>2, IdleIsACall
    <3>2. call[d].gen \in 1..generation /\ call[d].gen # n /\ proc[call[d].gen] # "none"
      BY <1>2, <3>1 DEF IInv, Pending
    <3>3. call[d].gen \in Gens
      BY <1>2, <3>2 DEF Gens
    <3>4. \A e \in Callers : call'[e].at = "store" => e # c /\ call'[e] = call[e]
      BY <1>4, IdleIsACall
    <3>5. \A e \in Callers : call'[e].at = "store" /\ call'[e].gen = call'[d].gen => d = e
      BY <3>1, <3>4 DEF IInv, Pending
    <3> QED
      BY <1>1, <1>5, <3>1, <3>2, <3>3, <3>5
  <2> QED
    BY <2>1, <2>2 DEF Pending
<1>8. Timers'
  <2> SUFFICES ASSUME NEW g \in Gens, exitOf[g] # "done" PROVE call'[g].at = "idle"
    BY <1>1 DEF Timers
  <2>1. call[g].at = "idle" /\ g \in Callers
    BY DEF IInv, Timers, Callers
  <2> QED
    BY <1>4, <2>1, IdleIsACall
<1>9. NoServerIsForgotten'
  <2> SUFFICES ASSUME NEW g \in Gens, proc'[g] \in Unasked, g # n
               PROVE  \E d \in Callers : call'[d].at = "store" /\ call'[d].gen = g
    BY <1>1 DEF NoServerIsForgotten, Unasked
  <2>1. PICK d \in Callers : call[d].at = "store" /\ call[d].gen = g
    BY <1>5 DEF IInv, NoServerIsForgotten, Unasked
  <2> QED
    BY <1>4, <2>1
<1>10. Budgeted'
  BY <1>1 DEF IInv, Budgeted, Timed, Remembered, Forgotten, RestartsAreBounded
<1> QED
  BY <1>6, <1>7, <1>8, <1>9, <1>10 DEF IInv

-----------------------------------------------------------------------------
(* stop, and the commands                                                  *)

(* Closing the handle of the process in the slot is gentle.                *)
LEMMA ClosingIsGentle ==
  ASSUME Types, child # None => child \in Gens,
         child = None \/ proc' = [proc EXCEPT ![child] = Closing(@)],
         child = None => proc' = proc,
         UNCHANGED <<generation, child>>
  PROVE  Gentle
BY DEF Types, Gentle, Closing, Procs, Unasked

LEMMA StopInv ==
  ASSUME IInv, NEW c \in Callers,
         StopMark(c) \/ StopSend(c) \/ StopSendFails(c) \/ StopWait(c) \/ StopDeadline(c)
  PROVE  IInv'
<1> USE DEF Steps
<1>0. Types /\ (child # None => child \in Gens)
  BY SupervisorAssumption DEF IInv, Types, Pending, Gens, None, SupervisorAssumption
<1>1. CASE StopMark(c)
  <2>1. UNCHANGED <<generation, proc, child, exitOf, exits, restarts, now>>
    BY <1>1 DEF StopMark, clock, bounds
  <2> QED
    BY <1>0, <1>1, <2>1, NothingIsGentle, Going DEF StopMark
<1>2. CASE StopSend(c)
  <2> DEFINE x == [call[c] EXCEPT !.at = "wait", !.gen = child]
  <2>1. UNCHANGED <<generation, child, exitOf, exits, restarts, now>> /\ call[c].at = "send"
    BY <1>2 DEF StopSend, clock, bounds
  <2>2. \/ child = None /\ Goto(c, "stopped") /\ proc' = proc
        \/ child # None /\ proc' = [proc EXCEPT ![child] = Closing(@)] /\ call' = [call EXCEPT ![c] = x]
    BY <1>2 DEF StopSend
  <2>3. Gentle
    BY <1>0, <2>1, <2>2, ClosingIsGentle
  <2>4. call[c] \in Calls /\ child \in Nat
    BY DEF IInv, Types
  <2>5. x \in Calls /\ x.at = "wait"
    BY <2>1, <2>4 DEF Calls, Stops
  <2> HIDE DEF x
  <2>6. CASE Goto(c, "stopped")
    BY <2>1, <2>3, <2>6, Going
  <2>7. CASE call' = [call EXCEPT ![c] = x]
    BY <2>1, <2>3, <2>5, <2>7, CallGoesOn
  <2> QED
    BY <2>2, <2>6, <2>7
<1>3. CASE StopSendFails(c)
  <2>1. UNCHANGED <<generation, proc, child, exitOf, exits, restarts, now>>
    BY <1>3 DEF StopSendFails, clock, bounds
  <2> QED
    BY <1>0, <1>3, <2>1, NothingIsGentle, Returning DEF StopSendFails
<1>4. CASE StopWait(c)
  <2>1. UNCHANGED <<generation, proc, child, exitOf, exits, restarts, now>>
    BY <1>4 DEF StopWait, clock, bounds
  <2> QED
    BY <1>0, <1>4, <2>1, NothingIsGentle, Going DEF StopWait
<1>5. CASE StopDeadline(c)
  <2>1. UNCHANGED <<generation, proc, child, exitOf, exits, restarts, now>>
    BY <1>5 DEF StopDeadline, clock, bounds
  <2> QED
    BY <1>0, <1>5, <2>1, NothingIsGentle, Going DEF StopDeadline
<1> QED
  BY <1>1, <1>2, <1>3, <1>4, <1>5

LEMMA StopKillInv == ASSUME IInv, NEW c \in Callers, StopKill(c) PROVE IInv'
<1>1. /\ call[c].at = "deadline" /\ child' = None /\ Goto(c, "stopped")
      /\ proc' = [g \in Gens |-> IF g = child /\ Alive(g) THEN "exited" ELSE proc[g]]
      /\ UNCHANGED <<generation, exitOf, exits, restarts, now>>
  BY DEF StopKill, clock, bounds
<1>2. Types /\ (child # None => child \in Gens)
  BY SupervisorAssumption DEF IInv, Types, Pending, Gens, None, SupervisorAssumption
<1>3. Gentle
  BY <1>1, <1>2 DEF Types, Gentle, Alive, Procs, Unasked
<1> QED
  BY <1>1, <1>3, Going DEF Steps

LEMMA StopEndInv == ASSUME IInv, NEW c \in Callers, StopEnd(c) PROVE IInv'
<1>1. /\ call[c].at = "stopped"
      /\ UNCHANGED <<generation, proc, child, exitOf, exits, restarts, now>>
      /\ Types
  BY DEF StopEnd, clock, bounds, IInv
<1>11. call[c].kind \in {"restart", "apply", "update", "update only", "disable"}
  BY <1>1 DEF Types, Calls, Stops
<1>2. Goto(c, "enabled") \/ Goto(c, "installing") \/ Return(c)
  BY <1>11 DEF StopEnd
<1>3. Gentle
  BY <1>1, NothingIsGentle
<1>4. CASE Goto(c, "enabled") \/ Goto(c, "installing") \/ Return(c)
  BY <1>1, <1>3, <1>4, Going, Returning DEF Steps
<1> QED
  BY <1>2, <1>4

LEMMA BeginInv ==
  ASSUME IInv, NEW c \in Users, NEW kind \in Kinds, Begin(c, kind) PROVE IInv'
<1> DEFINE x == [at |-> IF kind = "enable" THEN "enabled" ELSE "stop", gen |-> None,
                 kind |-> IF kind = "update" /\ ~enabled THEN "update only" ELSE kind]
<1>1. /\ call[c] = Idle /\ call' = [call EXCEPT ![c] = x]
      /\ UNCHANGED <<generation, proc, child, exitOf, exits, restarts, now>>
      /\ Types /\ c \in Callers
  BY DEF Begin, IInv, Callers, clock
<1>2. x \in Calls /\ x.at # "store" /\ Idle.at # "store"
  BY SupervisorAssumption DEF SupervisorAssumption, Calls, Stops, Steps, Names, None, Idle
<1> HIDE DEF x
<1> QED
  BY <1>1, <1>2, NothingIsGentle, CallGoesOn

LEMMA InstallFailsInv == ASSUME IInv, NEW c \in Callers, InstallFails(c) PROVE IInv'
<1>1. /\ call[c].at = "installing" /\ Types
      /\ UNCHANGED <<generation, proc, child, exitOf, exits, restarts, now>>
      /\ Goto(c, "enabled") \/ Return(c)
  BY DEF InstallFails, clock, bounds, IInv
<1>2. Gentle
  BY <1>1, NothingIsGentle
<1> QED
  BY <1>1, <1>2, Going, Returning DEF Steps

-----------------------------------------------------------------------------
(* The tasks and the processes                                             *)

LEMMA HandleExitInv == ASSUME IInv, NEW g \in Gens, HandleExit(g) PROVE IInv'
<1>1. /\ proc[g] = "exited" /\ exitOf[g] = "none" /\ call' = call
      /\ UNCHANGED <<generation, proc, exits, restarts, now>>
      /\ child' \in {child, None} /\ (child' # child => child = g)
      /\ \E e \in {"record", "stable", "done"} : exitOf' = [exitOf EXCEPT ![g] = e]
  BY DEF HandleExit, clock, bounds
<1>2. Gentle
  BY <1>1 DEF IInv, Types, Gentle, Unasked
<1>3. /\ exitOf' \in [Gens -> {"none", "record", "stable", "sleep", "done"}]
      /\ \A h \in Gens : exitOf[h] = "done" => exitOf'[h] = "done"
  BY <1>1 DEF IInv, Types
<1>4. Budgeted'
  BY <1>1 DEF IInv, Budgeted, Timed, Remembered, Forgotten, RestartsAreBounded
<1> QED
  BY <1>1, <1>2, <1>3, <1>4, TaskGoesOn

Counted(g) == IF exitOf[g] = "stable" THEN <<>> ELSE exits
Kept(g, k) == SubSeq(Counted(g), k + 1, Len(Counted(g)))
Recalled(g, recent) ==
  /\ recent \in Seq(Nat) /\ Len(recent) <= MaxExits /\ Len(recent) <= Len(restarts)
  /\ \A i \in 1..Len(recent) : recent[i] = restarts[Len(restarts) - Len(recent) + i].at
  /\ \A j \in 1..(Len(restarts) - Len(recent)) : Forgotten(j) \/ exitOf[g] = "stable"
  /\ exitOf[g] = "stable" => Len(recent) = 0

(* What leaves the deque, one at a time or all at once, is forgotten.      *)
LEMMA TimersAreTimed ==
  ASSUME Timed, NEW j \in 1..Len(restarts)
  PROVE  restarts[j].at \in Nat
<1>1. restarts[j] \in [at : Nat, fresh : BOOLEAN]
  BY ElementOfSeq DEF Timed
<1> QED
  BY <1>1

LEMMA Numbers == MaxExits \in Nat /\ Window \in Nat
BY SupervisorAssumption DEF SupervisorAssumption

LEMMA AgingForgets ==
  ASSUME Budgeted, NEW g \in Gens,
         NEW k \in 0..Len(Counted(g)), Aged(Counted(g), k)
  PROVE  Recalled(g, Kept(g, k))
<1> DEFINE counted == Counted(g)
           recent == Kept(g, k)
<1> SUFFICES /\ recent \in Seq(Nat) /\ Len(recent) <= MaxExits /\ Len(recent) <= Len(restarts)
             /\ \A i \in 1..Len(recent) : recent[i] = restarts[Len(restarts) - Len(recent) + i].at
             /\ \A j \in 1..(Len(restarts) - Len(recent)) : Forgotten(j) \/ exitOf[g] = "stable"
             /\ exitOf[g] = "stable" => Len(recent) = 0
  BY DEF Recalled
<1>0. /\ counted = (IF exitOf[g] = "stable" THEN <<>> ELSE exits)
      /\ recent = SubSeq(counted, k + 1, Len(counted))
      /\ k \in 0..Len(counted) /\ Aged(counted, k)
  BY DEF Counted, Kept
<1> HIDE DEF counted, recent
<1>1. counted \in Seq(Nat) /\ Len(counted) \in Nat /\ Len(restarts) \in Nat /\ Len(exits) \in Nat
  BY <1>0 DEF Budgeted, Timed
<1>2. /\ recent \in Seq(Nat) /\ Len(recent) = Len(counted) - k
      /\ \A i \in 1..Len(recent) : recent[i] = counted[k + i]
  <2>1. k \in Nat /\ k <= Len(counted)
    BY <1>0, <1>1
  <2>2. /\ recent \in Seq(Nat) /\ Len(recent) = Len(counted) - k
        /\ \A i \in 1..(Len(counted) - (k + 1) + 1) : recent[i] = counted[(k + 1) + i - 1]
    <3>1. \A i \in (k + 1)..Len(counted) : i \in 1..Len(counted)
      BY <1>1, <2>1
    <3>2. \A i \in (k + 1)..Len(counted) : counted[i] \in Nat
      BY <1>1, <3>1
    <3> QED
      BY <1>0, <1>1, <2>1, <3>2, SubSeqProperties
  <2>3. \A i \in 1..Len(recent) : (k + 1) + i - 1 = k + i
    BY <2>1
  <2> QED
    BY <1>1, <2>1, <2>2, <2>3
<1>3. CASE exitOf[g] = "stable"
  <2>1. counted = <<>> /\ Len(counted) = 0
    BY <1>0, <1>3
  <2>2. Len(recent) = 0
    BY <1>0, <1>1, <1>2, <2>1
  <2> QED
    BY <1>1, <1>2, <1>3, <2>2, Numbers
<1>4. CASE exitOf[g] # "stable"
  <2>1. counted = exits /\ k \in Nat /\ k <= Len(exits)
    BY <1>0, <1>1, <1>4
  <2>2. \A i \in 1..Len(recent) : recent[i] = restarts[Len(restarts) - Len(recent) + i].at
    <3> SUFFICES ASSUME NEW i \in 1..Len(recent)
                 PROVE  recent[i] = restarts[Len(restarts) - Len(recent) + i].at
      OBVIOUS
    <3>1. k + i \in 1..Len(exits)
      BY <1>1, <1>2, <2>1
    <3>2. Len(restarts) - Len(exits) + (k + i) = Len(restarts) - Len(recent) + i
      BY <1>1, <1>2, <2>1
    <3> QED
      BY <1>2, <2>1, <3>1, <3>2 DEF Budgeted, Remembered
  <2>3. ASSUME NEW j \in 1..(Len(restarts) - Len(recent)) PROVE Forgotten(j)
    <3>1. CASE j <= Len(restarts) - Len(exits)
      BY <1>1, <3>1 DEF Budgeted, Timed, Remembered
    <3>2. CASE j > Len(restarts) - Len(exits)
      <4> DEFINE i == j - (Len(restarts) - Len(exits))
      <4>1. i \in 1..k /\ i \in 1..Len(exits) /\ Len(restarts) - Len(exits) + i = j
        BY <1>1, <1>2, <2>1, <3>2
      <4> HIDE DEF i
      <4>2. exits[i] = restarts[j].at
        BY <4>1 DEF Budgeted, Timed, Remembered
      <4> QED
        BY <1>0, <2>1, <4>1, <4>2 DEF Aged, Forgotten
    <3> QED
      BY <1>1, <1>2, <3>1, <3>2
  <2> QED
    <3>1. Len(exits) <= MaxExits /\ Len(exits) <= Len(restarts) /\ k >= 0
      BY DEF Budgeted, Remembered
    <3>2. Len(recent) <= MaxExits /\ Len(recent) <= Len(restarts)
      BY <1>1, <1>2, <2>1, <3>1, Numbers
    <3> QED
      BY <1>2, <1>4, <2>2, <2>3, <3>2
<1> QED
  BY <1>3, <1>4

(* A timer is set only while fewer than MaxExits are remembered.           *)
LEMMA BudgetIsKept ==
  ASSUME Budgeted, NEW g \in Gens, NEW k \in 0..Len(Counted(g)),
         Recalled(g, Kept(g, k)), Budget(g, Kept(g, k)), now' = now
  PROVE  Budgeted'
<1> DEFINE recent == Kept(g, k)
<1>0. /\ Budget(g, recent)
      /\ recent \in Seq(Nat) /\ Len(recent) <= MaxExits /\ Len(recent) <= Len(restarts)
      /\ \A i \in 1..Len(recent) : recent[i] = restarts[Len(restarts) - Len(recent) + i].at
      /\ \A j \in 1..(Len(restarts) - Len(recent)) : Forgotten(j) \/ exitOf[g] = "stable"
      /\ exitOf[g] = "stable" => Len(recent) = 0
  BY DEF Recalled
<1> HIDE DEF recent
<1> DEFINE n == Len(restarts)
           d == Len(recent)
           x == [at |-> now, fresh |-> exitOf[g] = "stable"]
<1>1. n \in Nat /\ d \in Nat /\ now \in Nat /\ MaxExits \in Nat /\ Window \in Nat
  BY <1>0, Numbers DEF Budgeted, Timed
<1>2. CASE d >= MaxExits
  <2>1. exits' = recent /\ restarts' = restarts
    BY <1>0, <1>2 DEF Budget
  <2>2. \A j \in 1..(n - d) : Forgotten(j)
    BY <1>0, <1>1, <1>2 DEF Budgeted, Timed, Remembered
  <2> QED
    BY <1>0, <2>1, <2>2 DEF Budgeted, Timed, Remembered, Forgotten, RestartsAreBounded
<1>3. CASE d < MaxExits
  <2>1. exits' = Append(recent, now) /\ restarts' = Append(restarts, x)
    BY <1>0, <1>1, <1>3 DEF Budget
  <2>2. /\ x \in [at : Nat, fresh : BOOLEAN] /\ x.at = now
        /\ x.fresh <=> exitOf[g] = "stable"
    BY <1>1
  <2> HIDE DEF x
  <2>3. /\ exits' \in Seq(Nat) /\ Len(exits') = d + 1 /\ exits'[d + 1] = now
        /\ \A i \in 1..d : exits'[i] = recent[i]
    BY <1>0, <1>1, <2>1
  <2>4. /\ restarts' \in Seq([at : Nat, fresh : BOOLEAN]) /\ Len(restarts') = n + 1
        /\ restarts'[n + 1] = x /\ \A i \in 1..n : restarts'[i] = restarts[i]
    BY <2>1, <2>2 DEF Budgeted, Timed, Remembered
  <2> HIDE DEF n, d
  <2>5. \A i \in 1..(d + 1) : exits'[i] = restarts'[(n + 1) - (d + 1) + i].at
    <3> SUFFICES ASSUME NEW i \in 1..(d + 1)
                 PROVE  exits'[i] = restarts'[(n + 1) - (d + 1) + i].at
      OBVIOUS
    <3>1. CASE i = d + 1
      BY <1>1, <2>2, <2>3, <2>4, <3>1
    <3>2. CASE i \in 1..d
      <4>1. (n + 1) - (d + 1) + i = n - d + i /\ n - d + i \in 1..n
        BY <1>0, <1>1, <3>2 DEF n, d
      <4> QED
        BY <1>0, <2>3, <2>4, <3>2, <4>1 DEF n, d
    <3> QED
      BY <1>1, <3>1, <3>2
  <2>6. ASSUME NEW j \in 1..(n - d)
        PROVE  now - restarts[j].at > Window \/ \E l \in (j + 1)..(n + 1) : restarts'[l].fresh
    <3>1. CASE exitOf[g] = "stable"
      <4>1. n + 1 \in (j + 1)..(n + 1)
        BY <1>1
      <4> QED
        BY <2>2, <2>4, <3>1, <4>1
    <3>2. CASE Forgotten(j)
      <4>1. ASSUME NEW l \in (j + 1)..n, restarts[l].fresh
            PROVE  l \in (j + 1)..(n + 1) /\ restarts'[l].fresh
        BY <1>1, <2>4, <4>1
      <4> QED
        BY <3>2, <4>1 DEF Forgotten, n
    <3> QED
      BY <1>0, <3>1, <3>2 DEF n, d
  <2>7. \A j \in 1..(n - d) : Forgotten(j)'
    <3> SUFFICES ASSUME NEW j \in 1..(n - d) PROVE Forgotten(j)'
      OBVIOUS
    <3>1. restarts'[j] = restarts[j]
      BY <1>1, <2>4
    <3> QED
      BY <2>4, <2>6, <3>1 DEF Forgotten
  <2>8. RestartsAreBounded'
    <3> SUFFICES ASSUME NEW i \in 1..(n + 1), NEW j \in 1..(n + 1), j - i >= MaxExits,
                        restarts'[j].at - restarts'[i].at <= Window
                 PROVE  \E l \in (i + 1)..j : restarts'[l].fresh
      <4>1. DOMAIN restarts' = 1..(n + 1)
        BY <1>1, <2>4
      <4> QED
        BY <4>1 DEF RestartsAreBounded
    <3>1. CASE j = n + 1
      <4>1. i \in 1..(n - d) /\ restarts'[i] = restarts[i]
        <5>1. (n + 1) - i >= MaxExits
          BY <3>1
        <5>2. i \in 1..(n - d) /\ i \in 1..n
          BY <1>1, <1>3, <5>1
        <5> QED
          BY <2>4, <5>2
      <4>2. now - restarts[i].at <= Window
        BY <2>2, <2>4, <3>1, <4>1
      <4>3. restarts[i].at \in Nat
        BY <1>1, <4>1, TimersAreTimed DEF Budgeted, n
      <4>4. ~(now - restarts[i].at > Window)
        BY <1>1, <4>2, <4>3
      <4> QED
        BY <2>6, <3>1, <4>1, <4>4
    <3>2. CASE j \in 1..n
      <4>1. i \in 1..n
        BY <1>1, <3>2
      <4>2. PICK l \in (i + 1)..j : restarts[l].fresh
        <5>1. restarts'[j] = restarts[j] /\ restarts'[i] = restarts[i]
          BY <2>4, <3>2, <4>1
        <5>2. DOMAIN restarts = 1..n
          BY DEF Budgeted, Timed, n
        <5> QED
          BY <3>2, <4>1, <5>1, <5>2 DEF Budgeted, RestartsAreBounded
      <4> QED
        BY <1>1, <2>4, <3>2, <4>1, <4>2
    <3> QED
      BY <1>1, <3>1, <3>2
  <2>9. d <= n /\ (n + 1) - (d + 1) = n - d
    BY <1>0, <1>1 DEF n, d
  <2> QED
    <3>1. Timed'
      BY <1>1, <2>3, <2>4 DEF Timed
    <3>2. Remembered'
      <4>1. Len(exits') = d + 1 /\ Len(restarts') = n + 1 /\ Len(exits') <= MaxExits
        BY <1>1, <1>3, <2>3, <2>4
      <4>2. MaxExits # 0 /\ Len(exits') <= Len(restarts')
        BY <1>1, <1>3, <2>9, <4>1
      <4> QED
        BY <2>5, <2>7, <2>9, <4>1, <4>2 DEF Remembered
    <3> QED
      BY <2>8, <3>1, <3>2 DEF Budgeted
<1> QED
  BY <1>1, <1>2, <1>3

LEMMA DecideRestartInv == ASSUME IInv, NEW g \in Gens, DecideRestart(g) PROVE IInv'
<1>1. /\ Recorded(g) /\ call' = call
      /\ UNCHANGED <<generation, proc, child, now>>
      /\ \/ UNCHANGED <<exits, restarts>>
         \/ \E k \in 0..Len(Counted(g)) : Aged(Counted(g), k) /\ Budget(g, Kept(g, k))
      /\ \E e \in {"sleep", "done"} : exitOf' = [exitOf EXCEPT ![g] = e]
  BY DEF DecideRestart, Budget, Counted, Kept, clock
<1>2. Gentle
  BY <1>1, NothingIsGentle DEF IInv
<1>3. /\ exitOf' \in [Gens -> {"none", "record", "stable", "sleep", "done"}]
      /\ \A h \in Gens : exitOf[h] = "done" => exitOf'[h] = "done"
  BY <1>1 DEF IInv, Types, Recorded
<1>4. Budgeted'
  <2>1. CASE UNCHANGED <<exits, restarts>>
    BY <1>1, <2>1 DEF IInv, Budgeted, Timed, Remembered, Forgotten, RestartsAreBounded
  <2>2. ASSUME NEW k \in 0..Len(Counted(g)), Aged(Counted(g), k), Budget(g, Kept(g, k))
        PROVE  Budgeted'
    <3>1. Budgeted /\ now' = now
      BY <1>1 DEF IInv
    <3> QED
      BY <2>2, <3>1, AgingForgets, BudgetIsKept
  <2> QED
    BY <1>1, <2>1, <2>2
<1> QED
  BY <1>1, <1>2, <1>3, <1>4, TaskGoesOn

(* The timer becomes a call of start.                                      *)
LEMMA WakeInv == ASSUME IInv, NEW g \in Gens, Wake(g) PROVE IInv'
<1> DEFINE x == [at |-> "enabled", kind |-> "start", gen |-> None]
<1>1. /\ exitOf[g] = "sleep" /\ exitOf' = [exitOf EXCEPT ![g] = "done"]
      /\ call' = [call EXCEPT ![g] = x] /\ Types /\ g \in Callers
      /\ UNCHANGED <<generation, proc, child, exits, restarts, now>>
  BY DEF Wake, clock, bounds, IInv, Callers
<1>2. x \in Calls /\ x.at = "enabled" /\ call[g].at = "idle"
  BY <1>1 DEF Calls, Stops, Steps, Names, None, IInv, Timers
<1> HIDE DEF x
<1>3. \A d \in Callers : call'[d] = IF d = g THEN x ELSE call[d]
  BY <1>1 DEF Types
<1>4. Types'
  BY <1>1, <1>2 DEF Types
<1>5. StoresStay /\ Gentle
  BY <1>1, <1>2, <1>3, NothingIsGentle DEF StoresStay
<1>6. Timers'
  <2> SUFFICES ASSUME NEW h \in Gens, exitOf'[h] # "done" PROVE call'[h].at = "idle"
    BY DEF Timers
  <2>1. h # g /\ exitOf[h] # "done" /\ h \in Callers
    BY <1>1 DEF Types, Callers
  <2> QED
    BY <1>3, <2>1 DEF IInv, Timers
<1>7. Budgeted'
  BY <1>1 DEF IInv, Budgeted, Timed, Remembered, Forgotten, RestartsAreBounded
<1> QED
  BY <1>4, <1>5, <1>6, <1>7, GentleKeepsSlot DEF IInv

LEMMA PollInv ==
  ASSUME IInv, NEW g \in Gens,
         PollNoChild(g) \/ PollDeadline(g) \/ PollGateway(g) \/ PollUi(g) \/ Settle(g)
  PROVE  IInv'
<1>1. UNCHANGED <<generation, proc, child, call, exitOf, exits, restarts, now>>
  BY DEF PollNoChild, PollDeadline, PollGateway, PollUi, Settle, clock, bounds
<1>2. Budgeted' /\ Gentle
  BY <1>1, NothingIsGentle DEF IInv, Budgeted, Timed, Remembered, Forgotten, RestartsAreBounded
<1> QED
  BY <1>1, <1>2, TaskGoesOn DEF IInv, Types

LEMMA ProcessInv ==
  ASSUME IInv, NEW g \in Gens,
         Serve(g) \/ LockedOut(g) \/ ShutsDown(g) \/ Crash(g) \/ Hang(g)
  PROVE  IInv'
<1>1. /\ UNCHANGED <<generation, child, call, exitOf, exits, restarts, now>>
      /\ \/ proc[g] = "starting" /\ proc' = [proc EXCEPT ![g] = "serving"]
         \/ proc[g] # "none" /\ proc' = [proc EXCEPT ![g] = "exited"]
         \/ proc[g] # "none" /\ proc' = [proc EXCEPT ![g] = "hung"]
  BY DEF Serve, LockedOut, ShutsDown, Crash, Hang, ProcessStep, clock, bounds
<1>2. Gentle
  BY <1>1 DEF IInv, Types, Gentle, Procs, Unasked
<1>3. Budgeted'
  BY <1>1 DEF IInv, Budgeted, Timed, Remembered, Forgotten, RestartsAreBounded
<1> QED
  BY <1>1, <1>2, <1>3, TaskGoesOn DEF IInv, Types

(* What is out of the window stays out.                                    *)
LEMMA TickInv == ASSUME IInv, Tick PROVE IInv'
<1>1. /\ now' = now + 1
      /\ UNCHANGED <<generation, proc, child, call, exitOf, exits, restarts>>
  BY DEF Tick, clock, bounds
<1>2. Budgeted'
  <2>1. /\ now \in Nat /\ Len(restarts) \in Nat /\ Len(exits) \in Nat
        /\ \A j \in 1..Len(restarts) : restarts[j].at \in Nat
    BY TimersAreTimed DEF IInv, Budgeted, Timed
  <2>2. ASSUME NEW j \in 1..(Len(restarts) - Len(exits)) PROVE Forgotten(j)'
    <3>1. Forgotten(j) /\ restarts[j].at \in Nat
      BY <2>1 DEF IInv, Budgeted, Timed, Remembered
    <3>2. CASE now - restarts[j].at > Window
      BY <1>1, <2>1, <3>1, <3>2, Numbers DEF Forgotten
    <3>3. CASE \E l \in (j + 1)..Len(restarts) : restarts[l].fresh
      BY <1>1, <3>3 DEF Forgotten
    <3> QED
      BY <3>1, <3>2, <3>3 DEF Forgotten
  <2> QED
    BY <1>1, <2>1, <2>2 DEF IInv, Budgeted, Timed, Remembered, RestartsAreBounded
<1> QED
  BY <1>1, <1>2, NothingIsGentle, TaskGoesOn DEF IInv, Types

-----------------------------------------------------------------------------
(* The theorems                                                            *)

LEMMA InitInv == Init => IInv
<1> SUFFICES ASSUME Init PROVE IInv
  OBVIOUS
<1> USE SupervisorAssumption DEF SupervisorAssumption, None
<1>1. Idle \in Calls /\ [Idle EXCEPT !.at = "enabled", !.kind = "start"] \in Calls
  BY DEF Idle, Calls, Stops, Steps, Names
<1>2. \A c \in Callers : call[c] \in Calls /\ call[c].at # "store"
  BY <1>1 DEF Init, Idle
<1>3. Types
  <2>1. call \in [Callers -> Calls]
    BY <1>2 DEF Init
  <2> QED
    BY <2>1 DEF Init, Types, Procs
<1>4. Pending
  BY <1>2 DEF Init, Pending
<1>5. Timers
  BY DEF Init, Timers, Callers, Gens, Setup, Idle
<1>6. NoServerIsForgotten
  BY DEF Init, NoServerIsForgotten
<1>7. Budgeted
  BY DEF Init, Budgeted, Timed, Remembered, RestartsAreBounded
<1> QED
  BY <1>3, <1>4, <1>5, <1>6, <1>7 DEF IInv

LEMMA NextInv == IInv /\ [Next]_vars => IInv'
<1> SUFFICES ASSUME IInv, [Next]_vars PROVE IInv'
  OBVIOUS
<1>1. ASSUME NEW c \in Callers, Start(c) PROVE IInv'
  BY <1>1, StartInv, StartSpawnInv, StartStoreInv DEF Start
<1>2. ASSUME NEW c \in Callers, Stop(c) PROVE IInv'
  BY <1>2, StopInv, StopKillInv, StopEndInv DEF Stop
<1>3. ASSUME NEW c \in Callers, InstallFails(c) PROVE IInv'
  BY <1>3, InstallFailsInv
<1>4. ASSUME NEW c \in Users, NEW kind \in Kinds, Begin(c, kind) PROVE IInv'
  BY <1>4, BeginInv
<1>5. ASSUME NEW g \in Gens, Watch(g) PROVE IInv'
  BY <1>5, HandleExitInv, DecideRestartInv, WakeInv, PollInv DEF Watch
<1>6. ASSUME NEW g \in Gens, Process(g) \/ Crash(g) \/ Hang(g) PROVE IInv'
  BY <1>6, ProcessInv DEF Process
<1>8. CASE Tick
  BY <1>8, TickInv
<1>7. CASE UNCHANGED vars
  BY <1>7 DEF vars, clock, bounds, IInv, Timed, Remembered, Forgotten, RestartsAreBounded, Types, Pending, Timers, NoServerIsForgotten, Budgeted
<1> QED
  BY <1>1, <1>2, <1>3, <1>4, <1>5, <1>6, <1>7, <1>8 DEF Next

LEMMA Invariance == Spec => []IInv
BY InitInv, NextInv, PTL DEF Spec

(* Every process that nobody has asked to go is in the slot or about to be *)
(* stored, and in no window of the budget are more timers set than it      *)
(* allows, unless a stable run emptied it, however start, stop, updates,   *)
(* exits, timers and the clock overlap (supervisor.rs, lifecycle.rs).      *)
THEOREM ServersAreAlwaysSupervised == Spec => []ServersAreSupervised
<1>1. IInv => ServersAreSupervised
  BY DEF IInv, Budgeted, ServersAreSupervised
<1> QED
  BY <1>1, Invariance, PTL

(* handle_exit and the deadline of stop: the slot is emptied only together *)
(* with the process that is in it.                                         *)
LEMMA ClearsItsOwn ==
  ASSUME IInv, [Next]_vars, NEW g \in Gens, child = g, child' = None
  PROVE  proc'[g] = "exited"
<1> USE SupervisorAssumption DEF SupervisorAssumption
<1>1. child # None /\ child' # child
  BY DEF Gens, None
<1>2. proc[g] # "none" /\ proc \in [Gens -> Procs]
  BY <1>1 DEF IInv, Types, Pending
<1>3. ASSUME NEW c \in Callers, StartStore(c) PROVE FALSE
  BY <1>3 DEF StartStore, IInv, Pending, Types, None
<1>4. ASSUME NEW c \in Callers, StopKill(c) PROVE proc'[g] = "exited"
  BY <1>2, <1>4 DEF StopKill, Alive, Procs
<1>5. ASSUME NEW h \in Gens, HandleExit(h) PROVE proc'[g] = "exited"
  BY <1>1, <1>5 DEF HandleExit
<1>6. ASSUME NEW c \in Callers, Start(c) \/ Stop(c) \/ InstallFails(c)
      PROVE  StartStore(c) \/ StopKill(c)
  BY <1>1, <1>6 DEF Start, Stop, StartEnabled, StartCheck, StartArm, StartSpawn, StartFails,
     StopMark, StopSend, StopSendFails, StopWait, StopDeadline, StopEnd, InstallFails
<1>7. ASSUME NEW c \in Users, NEW kind \in Kinds PROVE ~Begin(c, kind)
  BY <1>1 DEF Begin
<1>8. ASSUME NEW h \in Gens, Watch(h) \/ Process(h) \/ Crash(h) \/ Hang(h)
      PROVE  HandleExit(h)
  BY <1>1, <1>8 DEF Watch, DecideRestart, Wake, PollNoChild, PollDeadline, PollGateway, PollUi, Settle,
     Process, Serve, LockedOut, ShutsDown, Crash, Hang, ProcessStep
<1>10. ~Tick
  BY <1>1 DEF Tick
<1>9. ~UNCHANGED vars
  BY <1>1 DEF vars
<1> QED
  BY <1>3, <1>4, <1>5, <1>6, <1>7, <1>8, <1>9, <1>10 DEF Next

THEOREM OnlyItsOwnExitEmptiesTheSlot == Spec => OnlyItsOwnExitClears
<1>1. IInv /\ [Next]_vars =>
        [\A g \in Gens : child = g /\ child' = None => proc'[g] = "exited"]_vars
  BY ClearsItsOwn
<1> QED
  BY <1>1, Invariance, PTL DEF Spec, OnlyItsOwnExitClears
=============================================================================
