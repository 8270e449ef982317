------------------------- MODULE DesktopSupervisor -------------------------
(***************************************************************************)
(* The desktop shell's supervisor of the Server process                    *)
(* (panoptikon-desktop/src-tauri/src/supervisor.rs, with its callers in    *)
(* lib.rs and updates.rs).  start, stop and restart are asynchronous       *)
(* functions that several callers run at the same time: the set-up of the  *)
(* application, the user, an update, and the timers that restart a Server  *)
(* that exited.  They share the child slot, the intentional_stop flag, the *)
(* generation counter and the displayed state, each behind a lock of its   *)
(* own, so every access is an action.                                      *)
(*                                                                         *)
(* A Server process holds runtime/server.lock while it serves; one that    *)
(* finds it held exits.  It shuts down on request or when its stdin        *)
(* closes, which happens when its handle is dropped.                       *)
(***************************************************************************)
EXTENDS Integers, Sequences, FiniteSets

CONSTANTS
  Users,          \* callers of commands: the windows, the tray, the updater
  MaxGenerations, \* bound on the processes
  MaxExits,       \* max_exits of the restart budget
  MaxOps,         \* bound on the commands
  Kinds,          \* the commands that are given
  Window,         \* the window of the budget, five minutes
  StableRun,      \* stable_reset, a run of ten minutes
  ReadyDeadline,  \* the three minutes that a Server has to become ready
  MaxTime,        \* bound on the clock
  MaxUpsets       \* bound on the exits nobody asked for, the processes that do not
                  \* react to a shutdown and the failed spawns, together

ASSUME SupervisorAssumption ==
  /\ {MaxGenerations, MaxExits, MaxOps, MaxUpsets} \subseteq Nat
  /\ {Window, StableRun, ReadyDeadline, MaxTime} \subseteq Nat
  /\ Kinds \subseteq {"restart", "apply", "disable", "enable", "update"}
  /\ \A u \in Users : u \notin Nat

VARIABLES
  enabled,      \* settings: local_server.enabled
  state,        \* the LifecycleState that is shown
  child,        \* the generation in the child slot, 0 for none
  started,      \* when the one in the slot was put there
  intentional,  \* intentional_stop
  generation,
  exits,        \* the times of the exits in the restart budget
  proc,         \* what the process of each generation does
  exitOf,       \* where handle_exit of each generation is
  ready,        \* where wait_for_readiness of each generation is
  call,         \* where each caller is in start or stop
  calm,         \* ghost: commands and failures come one at a time, and a timer is
                \* longer than the steps between two awaits; otherwise they cross
  now,          \* the clock, which only the budget and the deadline of readiness
                \* look at
  restarts,     \* ghost: when each restart timer was set, and whether a stable
                \* run had emptied the budget
  ops, crashes, hangs, spawnFailures

clock == <<now, started>>
bounds == <<ops, crashes, hangs, spawnFailures>>
vars == <<enabled, state, child, intentional, generation, exits, proc, exitOf,
          ready, call, calm, restarts, clock, bounds>>
CanUpset == crashes + hangs + spawnFailures < MaxUpsets

Gens == 1..MaxGenerations
Setup == 0                       \* the caller of the first start
Callers == Users \cup {Setup} \cup Gens   \* a generation stands for its restart timer
None == 0
Idle == [at |-> "idle", kind |-> "none", gen |-> None]
Alive(g) == proc[g] \in {"starting", "serving", "asked", "hung"}
HoldsLock(g) == proc[g] \in {"serving", "asked", "hung"}

Init ==
  /\ enabled \in BOOLEAN
  /\ state = IF enabled THEN "Installing" ELSE "LocalServerDisabled"
  /\ child = None /\ intentional = FALSE /\ generation = 0 /\ exits = <<>>
  /\ now = 0 /\ started = 0
  /\ proc = [g \in Gens |-> "none"]
  /\ exitOf = [g \in Gens |-> "none"]
  /\ ready = [g \in Gens |-> "none"]
  /\ call = [c \in Callers |-> IF c = Setup THEN [Idle EXCEPT !.at = "enabled", !.kind = "start"]
                               ELSE Idle]
  /\ calm \in BOOLEAN
  /\ restarts = <<>> /\ ops = 0 /\ crashes = 0 /\ hangs = 0 /\ spawnFailures = 0

Goto(c, at) == call' = [call EXCEPT ![c].at = at]
Return(c) == call' = [call EXCEPT ![c] = Idle]

\* Nothing is under way: no call, no exit to handle, no timer, no poll.
Quiet ==
  /\ \A c \in Callers : call[c].at \in {"idle", "installing"}
  /\ \A g \in Gens : /\ exitOf[g] \in {"none", "done"}
                     /\ ready[g] \in {"none", "done"}
                     /\ proc[g] = "exited" => exitOf[g] = "done"
                     /\ proc[g] # "starting"

\* Nobody is between two steps that follow each other at once.
Recorded(g) == exitOf[g] \in {"record", "stable"}
Settled == \A g \in Gens : ~Recorded(g) /\ ready[g] \notin {"good", "bad"}
TimersAreSlow == calm => Settled
NothingCrosses ==
  calm => /\ Settled /\ \A c \in Callers : call[c] = Idle
          /\ \A g \in Gens : exitOf[g] # "sleep"

-----------------------------------------------------------------------------
(* Supervisor::start *)

StartEnabled(c) ==
  /\ call[c].at = "enabled"
  /\ IF enabled THEN Goto(c, "check") /\ UNCHANGED state
                ELSE state' = "LocalServerDisabled" /\ Return(c)
  /\ UNCHANGED <<calm, restarts, clock, enabled, child, intentional, generation, exits, proc, exitOf, ready, bounds>>

StartCheck(c) ==
  /\ call[c].at = "check"
  /\ IF child # None THEN Return(c) ELSE Goto(c, "arm")
  /\ UNCHANGED <<calm, restarts, clock, enabled, state, child, intentional, generation, exits, proc, exitOf,
                 ready, bounds>>

StartArm(c) ==
  /\ call[c].at = "arm"
  /\ intentional' = FALSE /\ state' = "Starting"
  /\ Goto(c, "spawn")
  /\ UNCHANGED <<calm, restarts, clock, enabled, child, generation, exits, proc, exitOf, ready, bounds>>

StartSpawn(c) ==
  /\ call[c].at = "spawn" /\ generation < MaxGenerations
  /\ generation' = generation + 1
  /\ proc' = [proc EXCEPT ![generation'] = "starting"]
  /\ call' = [call EXCEPT ![c].at = "store", ![c].gen = generation']
  /\ UNCHANGED <<calm, restarts, clock, enabled, state, child, intentional, exits, exitOf, ready, bounds>>

\* What an update or a saved configuration starts reports its failure to the
\* window; every other caller shows it.
Reports(kind) == kind \in {"update", "apply"}

\* start fails: before it arms anything (the root, the port), or at the spawn,
\* which has counted its generation by then.
StartFails(c) ==
  /\ call[c].at \in {"arm", "spawn"} /\ CanUpset
  /\ spawnFailures' = spawnFailures + 1
  /\ IF call[c].at = "arm" THEN UNCHANGED generation
     ELSE generation < MaxGenerations /\ generation' = generation + 1
  /\ state' = IF Reports(call[c].kind) THEN state ELSE "Failed"
  /\ Return(c)
  /\ UNCHANGED <<calm, restarts, clock, enabled, child, intentional, exits, proc, exitOf, ready,
                 ops, crashes, hangs>>

\* A handle that goes closes the stdin of its process.
Closing(p) == IF p \in {"starting", "serving"} THEN "asked" ELSE p

\* The new handle takes the slot, whatever is in it, and the tasks that watch
\* the process begin.
StartStore(c) ==
  /\ call[c].at = "store"
  /\ child' = call[c].gen /\ started' = now
  /\ proc' = [g \in Gens |-> IF g = child THEN Closing(proc[g]) ELSE proc[g]]
  /\ ready' = [ready EXCEPT ![child'] = "polling"]
  /\ Return(c)
  /\ UNCHANGED <<calm, restarts, now, enabled, state, intentional, generation, exits, exitOf, bounds>>

-----------------------------------------------------------------------------
(* Supervisor::stop *)

StopMark(c) ==
  /\ call[c].at = "stop"
  /\ intentional' = TRUE /\ state' = "Stopping"
  /\ Goto(c, "send")
  /\ UNCHANGED <<calm, restarts, clock, enabled, child, generation, exits, proc, exitOf, ready, bounds>>

StopSend(c) ==
  /\ call[c].at = "send"
  /\ IF child = None THEN Goto(c, "stopped") /\ UNCHANGED proc
     ELSE /\ proc[child] # "exited"
          /\ proc' = [proc EXCEPT ![child] = Closing(@)]
          /\ call' = [call EXCEPT ![c].at = "wait", ![c].gen = child]
  /\ UNCHANGED <<calm, restarts, clock, enabled, state, child, intentional, generation, exits, exitOf, ready, bounds>>

\* The pipe of a process that has exited is broken: stop returns the error.
StopSendFails(c) ==
  /\ call[c].at = "send" /\ child # None
  /\ proc[child] = "exited"
  /\ state' = IF call[c].kind = "restart" THEN "Failed" ELSE state
  /\ Return(c)
  /\ UNCHANGED <<calm, restarts, clock, enabled, child, intentional, generation, exits, proc, exitOf, ready, bounds>>

StopWait(c) ==
  /\ call[c].at = "wait" /\ child # call[c].gen /\ TimersAreSlow
  /\ Goto(c, "stopped")
  /\ UNCHANGED <<calm, restarts, clock, enabled, state, child, intentional, generation, exits, proc, exitOf,
                 ready, bounds>>

\* The deadline is as long as a Server takes that reacts at all.
StopDeadline(c) ==
  /\ call[c].at = "wait" /\ child = call[c].gen /\ proc[child] = "hung"
  /\ Goto(c, "deadline")
  /\ UNCHANGED <<calm, restarts, clock, enabled, state, child, intentional, generation, exits, proc, exitOf,
                 ready, bounds>>

\* What is in the slot is taken and killed.
StopKill(c) ==
  /\ call[c].at = "deadline"
  /\ proc' = [g \in Gens |-> IF g = child /\ Alive(g) THEN "exited" ELSE proc[g]]
  /\ child' = None
  /\ Goto(c, "stopped")
  /\ UNCHANGED <<calm, restarts, clock, enabled, state, intentional, generation, exits, exitOf, ready, bounds>>

StopEnd(c) ==
  /\ call[c].at = "stopped"
  /\ CASE call[c].kind = "restart" -> state' = "Restarting" /\ Goto(c, "enabled")
       [] call[c].kind = "apply"   -> state' = "Restarting" /\ Goto(c, "enabled")
       [] call[c].kind \in {"update", "update only"} ->
            state' = "Exited" /\ Goto(c, "installing")
       [] call[c].kind = "disable" -> state' = "LocalServerDisabled" /\ Return(c)
  /\ UNCHANGED <<calm, restarts, clock, enabled, child, intentional, generation, exits, proc, exitOf, ready, bounds>>

-----------------------------------------------------------------------------
(* The commands *)

\* restart, and apply for a configuration that is saved and takes effect with
\* a restart; disable and enable; update, which remembers whether the Server
\* was enabled.
Begin(c, kind) ==
  /\ c \in Users /\ call[c] = Idle /\ ops < MaxOps /\ kind \in Kinds
  /\ calm => Quiet /\ \A d \in Callers : call[d] = Idle
  /\ CASE kind = "disable" -> enabled /\ enabled' = FALSE
       [] kind = "enable"  -> ~enabled /\ enabled' = TRUE
       [] OTHER -> UNCHANGED enabled
  /\ ops' = ops + 1
  /\ call' = [call EXCEPT ![c] =
       [at |-> IF kind = "enable" THEN "enabled" ELSE "stop", gen |-> None,
        kind |-> IF kind = "update" /\ ~enabled THEN "update only" ELSE kind]]
  /\ UNCHANGED <<calm, restarts, clock, state, child, intentional, generation, exits, proc, exitOf, ready,
                 crashes, hangs, spawnFailures>>

\* The installation fails, and the Server is started again if it was enabled.
InstallFails(c) ==
  /\ call[c].at = "installing"
  /\ IF call[c].kind = "update" THEN Goto(c, "enabled") ELSE Return(c)
  /\ UNCHANGED <<calm, restarts, clock, enabled, state, child, intentional, generation, exits, proc, exitOf,
                 ready, bounds>>

-----------------------------------------------------------------------------
(* handle_exit *)

\* Mutant: any exit empties the slot.
MutHandleExitAny(g) ==
  /\ proc[g] = "exited" /\ ready[g] # "none" /\ exitOf[g] = "none"
  /\ child' = None /\ exitOf' = [exitOf EXCEPT ![g] = "record"]
  /\ UNCHANGED <<calm, restarts, clock, enabled, state, intentional, generation, exits, proc, ready, call, bounds>>

\* The Terminated event of a process; only that of the child in the slot counts,
\* and how long it ran is noted.
HandleExit(g) ==
  /\ proc[g] = "exited" /\ ready[g] # "none" /\ exitOf[g] = "none"
  /\ IF child # g THEN exitOf' = [exitOf EXCEPT ![g] = "done"] /\ UNCHANGED <<child, started>>
     ELSE /\ child' = None /\ started' = 0
          /\ exitOf' = [exitOf EXCEPT ![g] = IF now - started >= StableRun THEN "stable"
                                                                           ELSE "record"]
  /\ UNCHANGED <<calm, restarts, now, enabled, state, intentional, generation, exits, proc, ready, call, bounds>>

\* Mutant: nothing is shown when the budget is used up.
MutBudgetSilent(g, recent) ==
  IF Len(recent) >= MaxExits
    THEN /\ exits' = recent /\ UNCHANGED <<state, restarts>>
         /\ exitOf' = [exitOf EXCEPT ![g] = "done"]
    ELSE /\ state' = "Restarting" /\ exits' = Append(recent, now)
         /\ restarts' = Append(restarts, [at |-> now, fresh |-> exitOf[g] = "stable"])
         /\ exitOf' = [exitOf EXCEPT ![g] = "sleep"]

\* record_exit: a restart after 1, 2 or 4 seconds, or none.
Budget(g, recent) ==
  IF Len(recent) >= MaxExits
    THEN /\ state' = "Failed" /\ exits' = recent /\ UNCHANGED restarts
         /\ exitOf' = [exitOf EXCEPT ![g] = "done"]
    ELSE /\ state' = "Restarting" /\ exits' = Append(recent, now)
         /\ restarts' = Append(restarts, [at |-> now, fresh |-> exitOf[g] = "stable"])
         /\ exitOf' = [exitOf EXCEPT ![g] = "sleep"]

\* Mutant: an exit leaves the budget as soon as the clock has moved.
MutAged(s, k) ==
  /\ \A i \in 1..k : now # s[i]
  /\ k < Len(s) => now = s[k + 1]

\* The first k of the exits are the ones that have left the window.
Aged(s, k) ==
  /\ \A i \in 1..k : now - s[i] > Window
  /\ k < Len(s) => now - s[k + 1] <= Window

DecideRestart(g) ==
  /\ Recorded(g)
  /\ IF intentional
       THEN exitOf' = [exitOf EXCEPT ![g] = "done"] /\ UNCHANGED <<state, exits, restarts>>
       ELSE LET counted == IF exitOf[g] = "stable" THEN <<>> ELSE exits
            IN \E k \in 0..Len(counted) :
                 Aged(counted, k) /\ Budget(g, SubSeq(counted, k + 1, Len(counted)))
  /\ UNCHANGED <<calm, clock, enabled, child, intentional, generation, proc, ready, call, bounds>>

\* desktop-internal-restart: the timer calls start, whatever happened since.
Wake(g) ==
  /\ exitOf[g] = "sleep" /\ TimersAreSlow
  /\ exitOf' = [exitOf EXCEPT ![g] = "done"]
  /\ call' = [call EXCEPT ![g] = [at |-> "enabled", kind |-> "start", gen |-> None]]
  /\ UNCHANGED <<calm, restarts, clock, enabled, state, child, intentional, generation, exits, proc, ready, bounds>>

-----------------------------------------------------------------------------
(* wait_for_readiness *)

Served == \E g \in Gens : proc[g] = "serving"

PollNoChild(g) ==
  /\ ready[g] \in {"polling", "seen"} /\ child # g
  /\ ready' = [ready EXCEPT ![g] = "bad"]
  /\ UNCHANGED <<calm, restarts, clock, enabled, state, child, intentional, generation, exits, proc, exitOf,
                 call, bounds>>

\* The Server is slow to come up, or something else answers on its port.
PollDeadline(g) ==
  /\ ready[g] \in {"polling", "seen"} /\ child = g
  /\ now - started >= ReadyDeadline
  /\ ready' = [ready EXCEPT ![g] = "bad"]
  /\ UNCHANGED <<calm, restarts, clock, enabled, state, child, intentional, generation, exits, proc, exitOf,
                 call, bounds>>

\* Whoever answers on the port is taken for this generation.
PollGateway(g) ==
  /\ ready[g] = "polling" /\ child = g /\ Served
  /\ ready' = [ready EXCEPT ![g] = "seen"]
  /\ state' = IF generation = g THEN "SettingUp" ELSE state
  /\ UNCHANGED <<calm, restarts, clock, enabled, child, intentional, generation, exits, proc, exitOf, call, bounds>>

PollUi(g) ==
  /\ ready[g] = "seen" /\ child = g /\ Served
  /\ ready' = [ready EXCEPT ![g] = "good"]
  /\ UNCHANGED <<calm, restarts, clock, enabled, state, child, intentional, generation, exits, proc, exitOf,
                 call, bounds>>

Settle(g) ==
  /\ ready[g] \in {"good", "bad"}
  /\ ready' = [ready EXCEPT ![g] = "done"]
  /\ state' = CASE generation # g -> state
                [] generation = g /\ ready[g] = "good" -> "Ready"
                [] generation = g /\ ready[g] = "bad" ->
                     IF state = "Restarting" THEN state ELSE "Failed"
  /\ UNCHANGED <<calm, restarts, clock, enabled, child, intentional, generation, exits, proc, exitOf, call, bounds>>

-----------------------------------------------------------------------------
(* The Server processes *)

ProcessStep(g, before, after) ==
  /\ proc[g] \in before /\ proc' = [proc EXCEPT ![g] = after]
  /\ UNCHANGED <<calm, restarts, clock, enabled, state, child, intentional, generation, exits, exitOf, ready, call>>

Serve(g) ==
  /\ \A h \in Gens \ {g} : ~HoldsLock(h)
  /\ ProcessStep(g, {"starting"}, "serving") /\ UNCHANGED bounds
LockedOut(g) ==
  /\ \E h \in Gens \ {g} : HoldsLock(h)
  /\ ProcessStep(g, {"starting"}, "exited") /\ UNCHANGED bounds
ShutsDown(g) == ProcessStep(g, {"asked"}, "exited") /\ UNCHANGED bounds
Crash(g) ==
  /\ CanUpset /\ crashes' = crashes + 1
  /\ NothingCrosses
  /\ ProcessStep(g, {"starting", "serving"}, "exited")
  /\ UNCHANGED <<ops, hangs, spawnFailures>>
Hang(g) ==
  /\ CanUpset /\ hangs' = hangs + 1
  /\ ProcessStep(g, {"asked"}, "hung")
  /\ UNCHANGED <<ops, crashes, spawnFailures>>

-----------------------------------------------------------------------------

\* The clock counts in minutes: it moves while nothing is under way that takes
\* seconds, which is all but serving, getting ready and installing.
Tick ==
  /\ now < MaxTime /\ now' = now + 1
  /\ \A c \in Callers : call[c].at \in {"idle", "installing"}
  /\ \A g \in Gens : /\ exitOf[g] \in {"none", "done"}
                     /\ proc[g] = "exited" => exitOf[g] = "done"
                     /\ proc[g] # "asked" /\ ready[g] \notin {"good", "bad"}
  /\ UNCHANGED <<calm, restarts, started, enabled, state, child, intentional, generation, exits,
                 proc, exitOf, ready, call, bounds>>

Start(c) == StartEnabled(c) \/ StartCheck(c) \/ StartArm(c) \/ StartSpawn(c) \/ StartFails(c)
            \/ StartStore(c)
Stop(c) == StopMark(c) \/ StopSend(c) \/ StopSendFails(c) \/ StopWait(c) \/ StopDeadline(c)
           \/ StopKill(c) \/ StopEnd(c)
Watch(g) == HandleExit(g) \/ DecideRestart(g) \/ Wake(g) \/ PollNoChild(g)
            \/ PollDeadline(g) \/ PollGateway(g) \/ PollUi(g) \/ Settle(g)
Process(g) == Serve(g) \/ LockedOut(g) \/ ShutsDown(g)

Next ==
  \/ \E c \in Callers : Start(c) \/ Stop(c) \/ InstallFails(c)
  \/ \E c \in Users, kind \in Kinds : Begin(c, kind)
  \/ \E g \in Gens : Watch(g) \/ Process(g) \/ Crash(g) \/ Hang(g)
  \/ Tick

Spec == Init /\ [][Next]_vars

\* The runtime runs every task, the timers fire and a Server that is asked to
\* shut down does, unless it hangs.
Fairness ==
  /\ \A c \in Callers : WF_vars(Start(c)) /\ WF_vars(Stop(c))
  /\ \A g \in Gens : WF_vars(Watch(g)) /\ WF_vars(Process(g))
FairSpec == Spec /\ Fairness

-----------------------------------------------------------------------------
(* Properties *)

Shown == {"Installing", "Starting", "SettingUp", "Ready", "LocalServerDisabled",
          "Stopping", "Failed", "Restarting", "Exited"}

TypeOK ==
  /\ enabled \in BOOLEAN /\ intentional \in BOOLEAN /\ calm \in BOOLEAN
  /\ state \in Shown /\ child \in 0..generation /\ generation \in 0..MaxGenerations
  /\ exits \in Seq(0..now) /\ Len(exits) <= MaxExits
  /\ now \in 0..MaxTime /\ started \in 0..now
  /\ proc \in [Gens -> {"none", "starting", "serving", "asked", "hung", "exited"}]
  /\ exitOf \in [Gens -> {"none", "record", "stable", "sleep", "done"}]
  /\ ready \in [Gens -> {"none", "polling", "seen", "good", "bad", "done"}]
  /\ \A c \in Callers : call[c].gen \in 0..generation

\* Every process that nobody has asked to go is in the slot or on its way
\* into it: whatever start and stop overlap, none runs on unsupervised.
NoServerIsForgotten ==
  \A g \in Gens : proc[g] \in {"starting", "serving"} =>
    child = g \/ \E c \in Callers : call[c].at = "store" /\ call[c].gen = g

\* restart_budget_is_bounded: in no window of five minutes are more than MaxExits
\* restart timers set, unless a Server has run for ten minutes meanwhile.  (One
\* that exits more rarely is restarted for ever.)
RestartsAreBounded ==
  \A i, j \in DOMAIN restarts :
    j - i >= MaxExits /\ restarts[j].at - restarts[i].at <= Window
      => \E l \in (i + 1)..j : restarts[l].fresh

\* No Server runs on without the supervisor, and none is restarted in a rapid
\* loop.
ServersAreSupervised == NoServerIsForgotten /\ RestartsAreBounded

\* The report of an old process leaves the slot to the new one: the slot is
\* emptied when its own process has exited, or by the deadline of a stop.
OnlyItsOwnExitClears ==
  [][\A g \in Gens : child = g /\ child' = None => proc'[g] = "exited"]_vars

\* Commands given one after the other: when everything has settled, what is
\* shown and what is configured agree with the process that runs.
SettledStateIsTrue ==
  Quiet =>
    /\ state = "Ready" => child # None /\ proc[child] = "serving"
    /\ state \in {"LocalServerDisabled", "Exited"} => child = None
    /\ ~enabled => child = None /\ state # "Ready"

\* A stop ends, whether the process reacts or not; and with commands and failures
\* one at a time what is shown is true, and a Server that exits comes back, or is
\* seen to have failed or to be stopped for an update (unless a start fails that
\* the user asked for: a failure that is only reported leaves Starting shown).
EverythingSettles ==
  /\ [](calm => SettledStateIsTrue)
  /\ []<>(/\ \A c \in Users : call[c].at \notin {"wait", "deadline"}
          /\ calm /\ enabled /\ (ops = 0 \/ spawnFailures = 0) =>
               child # None \/ state \in {"Failed", "Exited"})

\* While an update is installed, after the Server was stopped for it, no
\* restart timer spawns the Server again.
NoRestartDuringInstall ==
  \A c \in Users : call[c].at = "installing" => \A g \in Gens : call[g].at # "store"

\* When everything has settled, a Server that was disabled does not run.
DisabledIsOff == Quiet /\ ~enabled => child = None
=============================================================================
