----------------------------- MODULE BrainLoop -----------------------------
(***************************************************************************)
(* One life of the process as the Brain coordinates it: run_forever,       *)
(* run_once and _shutdown over the scheduler's jobs, the plugins, the      *)
(* watchdog, the event bus and the compute node's client.  What happens to *)
(* tasks in it is TaskRuntime's subject; here a cycle has work or has not. *)
(*                                                                         *)
(* Time is not counted: a job's interval passes, and the watchdog's        *)
(* timeout does, whenever the environment says so.                         *)
(***************************************************************************)
EXTENDS ComputeNode

CONSTANTS
  StoreFaults,        (* whether an operation of the store may raise        *)
  PluginFaults,       (* whether a plugin's hook may raise                  *)
  MaxBacklog          (* bound: a node with that much unheard news is still *)

ASSUME BrainLoopAssumption ==
  /\ StoreFaults \in BOOLEAN
  /\ PluginFaults \in BOOLEAN
  /\ MaxBacklog \in Nat

VARIABLES
  pc,                 (* where the Brain is                                 *)
  due,                (* jobs whose interval has passed since last_run      *)
  round,              (* jobs that were due when tick began, not yet run    *)
  stale,              (* whether the brain's last beat is over the timeout  *)
  unsaved,            (* whether a task has been settled since the last     *)
                      (* checkpoint                                         *)
  loaded,             (* whether the plugins are loaded                     *)
  requested           (* ShutdownManager.requested                          *)

loopVars == <<due, round, stale, unsaved, loaded>>
vars == <<busVars, node, clientVars, pc, loopVars, requested>>

(* The order in which Brain.initialize registers them.                     *)
Jobs == <<"checkpoint", "updater", "heartbeat", "health", "watchdog">>

JobNames == {Jobs[n] : n \in DOMAIN Jobs}

Stages ==
  {"idle", "observe", "reason", "plan", "execute", "plugins", "jobs", "drain",
   "error", "unload", "remember", "finalCheckpoint", "confirm", "exit", "dead"}

Ended == pc \in {"exit", "dead"}

Init ==
  /\ BusInit
  /\ ClientInit
  /\ pc = "idle"
  /\ due = {}
  /\ round = {}
  /\ stale = FALSE
  /\ unsaved = FALSE
  /\ loaded = TRUE
  /\ requested = FALSE

Saves == IF StoreFaults THEN BOOLEAN ELSE {TRUE}

Hooks == IF PluginFaults THEN BOOLEAN ELSE {TRUE}

GoOn(ok, stage) == pc' = IF ok THEN stage ELSE "error"

-----------------------------------------------------------------------------
(* A cycle up to the plugins.                                              *)

BeginCycle ==
  /\ pc = "idle"
  /\ ~requested
  /\ pc' = "observe"
  /\ UNCHANGED <<busVars, node, clientVars, loopVars, requested>>

(* The state is saved before the watchdog is told of the cycle.            *)
Observe ==
  /\ pc = "observe"
  /\ \E ok \in Saves : GoOn(ok, "reason") /\ stale' = (stale /\ ~ok)
  /\ UNCHANGED <<busVars, node, clientVars, due, round, unsaved, loaded,
                 requested>>

DecideLocally ==
  /\ pc = "reason"
  /\ pc' = "plan"
  /\ UNCHANGED <<busVars, node, clientVars, loopVars, requested>>

DecideRemotely ==
  /\ pc = "reason"
  /\ \/ Reason /\ pc' = "plan"
     \/ ReasonInVain /\ pc' = "error"
  /\ UNCHANGED <<node, loopVars, requested>>

Plan ==
  /\ pc = "plan"
  /\ \/ pc' \in {"execute", "plugins"}
     \/ FALSE \in Saves /\ pc' = "error"
  /\ UNCHANGED <<busVars, node, clientVars, loopVars, requested>>

Execute ==
  /\ pc = "execute"
  /\ \E ok \in Saves : GoOn(ok, "plugins")
  /\ unsaved' = TRUE
  /\ UNCHANGED <<busVars, node, clientVars, due, round, stale, loaded,
                 requested>>

-----------------------------------------------------------------------------
(* The end of a cycle: the plugins' tick, the scheduler's, and the bus.    *)

TickPlugins ==
  /\ pc = "plugins"
  /\ \E ok \in Hooks :
       /\ GoOn(ok, "jobs")
       /\ round' = IF ok THEN due ELSE round
  /\ UNCHANGED <<busVars, node, clientVars, due, stale, unsaved, loaded,
                 requested>>

NextJob ==
  Jobs[CHOOSE n \in DOMAIN Jobs :
         /\ Jobs[n] \in round
         /\ \A m \in 1 .. n - 1 : Jobs[m] \notin round]

Job(name) == pc = "jobs" /\ round # {} /\ NextJob = name

(* Slip: a tick ends with the first job it has run.                        *)
FinishAlone(name, ok) ==
  /\ GoOn(ok, "drain")
  /\ due' = IF ok THEN due \ {name} ELSE due
  /\ round' = {}

(* run_if_due: a job that raises is still due, and ends tick and cycle.    *)
Finish(name, ok) ==
  /\ GoOn(ok, "jobs")
  /\ due' = IF ok THEN due \ {name} ELSE due
  /\ round' = IF ok THEN round \ {name} ELSE {}

RunCheckpoint ==
  /\ Job("checkpoint")
  /\ \E ok \in Saves : /\ Finish("checkpoint", ok)
                       /\ unsaved' = (unsaved /\ ~ok)
  /\ UNCHANGED <<busVars, node, clientVars, stale, loaded, requested>>

(* _safe_update raises nothing.                                            *)
RunUpdater ==
  /\ Job("updater")
  /\ Finish("updater", TRUE)
  /\ UNCHANGED <<busVars, node, clientVars, stale, unsaved, loaded, requested>>

(* The client's state is saved after the exchange.                         *)
RunHeartbeat ==
  /\ Job("heartbeat")
  /\ Heartbeat
  /\ \E ok \in Saves : Finish("heartbeat", ok)
  /\ UNCHANGED <<node, stale, unsaved, loaded, requested>>

(* No check has a recovery action to run.                                  *)
RunHealth ==
  /\ Job("health")
  /\ \E ok \in Saves : Finish("health", ok)
  /\ UNCHANGED <<busVars, node, clientVars, stale, unsaved, loaded, requested>>

(* The restart action that is registered for the brain saves a checkpoint. *)
RunWatchdog ==
  /\ Job("watchdog")
  /\ \/ /\ ~stale
        /\ Finish("watchdog", TRUE)
        /\ UNCHANGED <<busVars, stale, unsaved>>
     \/ /\ stale
        /\ Finish("watchdog", TRUE)
        /\ Announce("restarted")
        /\ stale' = FALSE
        /\ unsaved' = FALSE
     \/ /\ stale
        /\ FALSE \in Saves
        /\ Finish("watchdog", FALSE)
        /\ UNCHANGED <<busVars, stale, unsaved>>
  /\ UNCHANGED <<node, clientVars, loaded, requested>>

EndTick ==
  /\ pc = "jobs"
  /\ round = {}
  /\ pc' = "drain"
  /\ UNCHANGED <<busVars, node, clientVars, loopVars, requested>>

Drain ==
  /\ pc = "drain"
  /\ Dispatch
  /\ UNCHANGED <<node, clientVars, pc, loopVars, requested>>

EndCycle ==
  /\ pc = "drain"
  /\ bus = <<>>
  /\ pc' = "idle"
  /\ UNCHANGED <<busVars, node, clientVars, loopVars, requested>>

(* run_forever's handler; nothing catches what its own save raises.        *)
HandleError ==
  /\ pc = "error"
  /\ \E ok \in Saves : pc' = IF ok THEN "idle" ELSE "dead"
  /\ UNCHANGED <<busVars, node, clientVars, loopVars, requested>>

-----------------------------------------------------------------------------
(* The stop: cleanup calls _shutdown, and an exception there ends it.      *)

GoOnStopping(ok, stage) == pc' = IF ok THEN stage ELSE "dead"

BeginStop ==
  /\ pc = "idle"
  /\ requested
  /\ Announce("shutdown")
  /\ pc' = "unload"
  /\ UNCHANGED <<node, clientVars, loopVars, requested>>

StopPlugins ==
  /\ pc = "unload"
  /\ \E ok \in Hooks : /\ GoOnStopping(ok, "remember")
                       /\ loaded' = (~ok /\ loaded)
  /\ UNCHANGED <<busVars, node, clientVars, due, round, stale, unsaved,
                 requested>>

RememberStop ==
  /\ pc = "remember"
  /\ \E ok \in Saves : GoOnStopping(ok, "finalCheckpoint")
  /\ UNCHANGED <<busVars, node, clientVars, loopVars, requested>>

(* Slip: the stop is confirmed although the checkpoint could not be saved. *)
SaveAtMost ==
  /\ pc = "finalCheckpoint"
  /\ \E ok \in Saves : unsaved' = (unsaved /\ ~ok)
  /\ pc' = "confirm"
  /\ CloseSession
  /\ UNCHANGED <<busVars, node, due, round, stale, loaded, requested>>

(* The checkpoint, and then the client's session.                          *)
SaveFinally ==
  /\ pc = "finalCheckpoint"
  /\ \E ok \in Saves :
       /\ GoOnStopping(ok, "confirm")
       /\ unsaved' = (unsaved /\ ~ok)
       /\ IF ok THEN CloseSession ELSE UNCHANGED clientVars
  /\ UNCHANGED <<busVars, node, due, round, stale, loaded, requested>>

Confirm ==
  /\ pc = "confirm"
  /\ \E ok \in Saves : GoOnStopping(ok, "exit")
  /\ UNCHANGED <<busVars, node, clientVars, loopVars, requested>>

-----------------------------------------------------------------------------
(* The environment.                                                        *)

RequestShutdown ==
  /\ ~Ended
  /\ ~requested
  /\ requested' = TRUE
  /\ UNCHANGED <<busVars, node, clientVars, pc, loopVars>>

IntervalPasses(name) ==
  /\ ~Ended
  /\ name \notin due
  /\ due' = due \cup {name}
  /\ UNCHANGED <<busVars, node, clientVars, pc, round, stale, unsaved, loaded,
                 requested>>

TimeoutPasses ==
  /\ ~Ended
  /\ ~stale
  /\ Len(bus) < MaxBacklog
  /\ stale' = TRUE
  /\ UNCHANGED <<busVars, node, clientVars, pc, due, round, unsaved, loaded,
                 requested>>

NodeChanges ==
  /\ ~Ended
  /\ Len(bus) < MaxBacklog
  /\ node' \in Conditions \ {node}
  /\ UNCHANGED <<busVars, clientVars, pc, loopVars, requested>>

-----------------------------------------------------------------------------
Tick ==
  \/ RunCheckpoint \/ RunHeartbeat \/ RunHealth \/ RunWatchdog \/ EndTick

Step ==
  \/ BeginCycle \/ Observe \/ DecideLocally \/ DecideRemotely \/ Plan
  \/ Tick \/ EndCycle \/ HandleError
  \/ BeginStop \/ RememberStop \/ SaveFinally \/ Confirm

(* What waits for code from outside this repository, without a timeout: a  *)
(* task's handler, the plugins' hooks, the subscribers, git and pip.       *)
Outside ==
  \/ Execute \/ TickPlugins \/ RunUpdater \/ Drain \/ StopPlugins

Environment ==
  \/ RequestShutdown \/ TimeoutPasses \/ NodeChanges
  \/ \E name \in JobNames : IntervalPasses(name)

Next == Step \/ Outside \/ Environment

(* The event loop runs its one task, and every interval passes.  Code from *)
(* outside comes back or does not.                                         *)
Fairness ==
  /\ WF_vars(Step)
  /\ \A name \in JobNames : WF_vars(IntervalPasses(name))

Spec == Init /\ [][Next]_vars /\ Fairness

-----------------------------------------------------------------------------
(* Properties.                                                             *)

TypeOK ==
  /\ bus \in Seq(Events)
  /\ told \in NodeNews
  /\ announced \in NodeNews
  /\ node \in Conditions
  /\ available \in BOOLEAN
  /\ backoff \in (ReconnectBackoff .. MaxBackoff)
                   \cup {ReconnectBackoff, MaxBackoff}
  /\ session \in BOOLEAN
  /\ pc \in Stages
  /\ due \subseteq JobNames
  /\ round \subseteq due
  /\ stale \in BOOLEAN
  /\ unsaved \in BOOLEAN
  /\ loaded \in BOOLEAN
  /\ requested \in BOOLEAN

(* A request for inference goes only to a node that has been announced as  *)
(* available and not as lost since, although reason gives the node up      *)
(* without a word (heartbeat publishes what changed since its last run).   *)
AvailabilityWasAnnounced == available => announced = "available"

(* When the bus is empty subscribers know the latest news, however many    *)
(* cycles were aborted before their events were drained (drain).           *)
NewsArriveInOrder == bus = <<>> => told = announced

(* A stop that is confirmed has saved all that was done, stopped the       *)
(* plugins and closed the session, whatever failed before it (_shutdown).  *)
ConfirmedStopIsComplete ==
  pc \in {"confirm", "exit"} => ~unsaved /\ ~loaded /\ ~session

(* From some point on nothing raises, and no handler, hook, subscriber or  *)
(* update keeps the Brain for ever.                                        *)
Undisturbed ==
  /\ <>[](pc # "error")
  /\ []<>( /\ pc \notin {"execute", "plugins", "drain", "unload"}
           /\ ~Job("updater") )

(* Once a process is undisturbed every job whose interval has passed is    *)
(* run, those that an exception kept from their turn included, or the      *)
(* process stops (Scheduler.tick, run_if_due).                             *)
EveryJobIsRun ==
  Undisturbed =>
    \A name \in JobNames : name \in due ~> name \notin due \/ Ended

(* Once a process is undisturbed a node that is reachable for good is used *)
(* again, or the process stops (the heartbeat job).                        *)
NodeComesBack ==
  Undisturbed /\ <>[](node # "down") => <>[](available \/ Ended)

-----------------------------------------------------------------------------
(* What the program's documents say of it, and the code does not keep.     *)

(* Subscribers know at the end of a cycle what the client knows.           *)
(* (README: "Во время цикла события публикуются в `EventBus`: [...]        *)
(* изменение состояния удаленного узла".)                                  *)
NodeChangesAreAnnounced ==
  [][EndCycle => told = IF available THEN "available" ELSE "unavailable"]_vars

(* A cycle goes on without the node.  (README: "Продолжать работу при      *)
(* недоступности удаленного сервера моделей.")                             *)
WorkGoesOnWithoutNode == pc = "observe" ~> pc = "plan" \/ Ended
=============================================================================
