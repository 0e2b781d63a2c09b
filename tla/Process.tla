------------------------------ MODULE Process ------------------------------
(***************************************************************************)
(* The program as systemd runs it: main (caine.py) from the start of the   *)
(* service to its end, with the plugins, the observer, the executor's      *)
(* handlers and the bus's subscribers, which are the places where code     *)
(* from outside runs or is waited for.                                     *)
(*                                                                         *)
(* A hook or a handler returns, raises, is cancelled (CancelledError is no *)
(* Exception: only the event loop catches it), or never comes back.  The   *)
(* steps of a cycle that call nothing from outside are kept short; what    *)
(* they do to tasks and to the compute node is TaskRuntime's and           *)
(* BrainLoop's subject.                                                    *)
(***************************************************************************)
EXTENDS PluginRegistry, Observer

CONSTANTS
  StoreFaults,        (* whether a start or a save may fail                 *)
  PluginFaults,       (* whether a hook may raise or be cancelled           *)
  MaxBacklog          (* bound: a cycle is aborted only with fewer events   *)

ASSUME ProcessAssumption ==
  /\ StoreFaults \in BOOLEAN
  /\ PluginFaults \in BOOLEAN
  /\ MaxBacklog \in Nat

VARIABLES
  pc,                 (* where main is                                      *)
  turn,               (* the file or plugin that a loop over them is at     *)
  kind,               (* the kind of the task in hand                       *)
  active,             (* Executor.active_tasks, but for the loop's own task *)
  opened,             (* whether the store has a connection                 *)
  requested,          (* ShutdownManager.requested                          *)
  service,            (* what systemd is to do with the service             *)
  status              (* how the last process ended                         *)

pluginVars == <<registryVars, deliveryVars, phase, inside>>
systemVars == <<requested, service, status>>
others == <<kind, active, opened, systemVars>>
aside == <<observerVars, others>>
vars == <<pluginVars, pc, turn, aside>>

(* Until run_forever installs its handlers, SIGTERM kills.                 *)
Boot == {"open", "load", "start", "restore"}

Stages ==
  Boot \cup
  {"down", "idle", "observe", "report", "decide", "plan", "execute", "settle",
   "tick", "jobs", "watch", "drain", "error", "wait", "stop", "remember",
   "confirm", "close"}

Init ==
  /\ EmptyRegistry
  /\ ObserverInit
  /\ pc = "down"
  /\ turn = 1
  /\ kind = "system_check"
  /\ active = {}
  /\ opened = FALSE
  /\ requested = FALSE
  /\ service = "active"
  /\ status = "none"

(* All that a process has dies with it.                                    *)
End(how) ==
  /\ ForgetPlugins
  /\ ResetObserver
  /\ pc' = "down"
  /\ turn' = 1
  /\ kind' = "system_check"
  /\ active' = {}
  /\ opened' = FALSE
  /\ requested' = FALSE
  /\ status' = how

Die == End("failure") /\ UNCHANGED service

(* _require_connection raises without a connection; a save may, with one.  *)
Saves == IF opened THEN {TRUE, ~StoreFaults} ELSE {FALSE}

Move(stage) == pc' = stage /\ UNCHANGED <<pluginVars, turn, aside>>

(* Outside of a cycle nothing catches what a save raises.                  *)
MoveOrDie(stage) ==
  \/ TRUE \in Saves /\ Move(stage)
  \/ FALSE \in Saves /\ Die

(* A cycle is left for the handler in run_forever.                         *)
Abort == Len(bus) < MaxBacklog /\ pc' = "error"

(* An event is the last thing that a stage of a cycle does.                *)
MoveWithNews(event, stage) ==
  /\ Announce(event)
  /\ pc' = stage
  /\ UNCHANGED <<registryVars, phase, inside, turn, aside>>

AbortWithoutNews == Abort /\ UNCHANGED <<pluginVars, turn, aside>>

AbortWithNews(event) == Len(bus) < MaxBacklog /\ MoveWithNews(event, "error")

-----------------------------------------------------------------------------
(* Loops over files and plugins, which call a hook of each.                *)

Call(p, hook) ==
  /\ Enter(p, hook)
  /\ UNCHANGED <<registryVars, deliveryVars, phase, pc, turn, aside>>

EndCall(hook, stage) ==
  /\ In(hook)
  /\ Return
  /\ Becomes(inside[1], stage)
  /\ turn' = turn + 1
  /\ UNCHANGED <<registryVars, deliveryVars, pc, aside>>

AllCalled(stage, next) ==
  /\ pc = stage
  /\ turn > Len(plugins)
  /\ pc' = next
  /\ turn' = 1
  /\ UNCHANGED <<pluginVars, aside>>

(* What nothing catches ends the program: whatever a hook raises in load,  *)
(* start or stop, and CancelledError, when a hook awaits what has been     *)
(* cancelled.                                                              *)
Escape == PluginFaults /\ inside # None /\ Die

-----------------------------------------------------------------------------
(* main up to run_forever.                                                 *)

(* Slip: the service is restarted on failure only.                         *)
LaunchAfterFailure ==
  pc = "down" /\ service = "active" /\ status # "success" /\ Move("open")

Launch == pc = "down" /\ service = "active" /\ Move("open")

(* The settings, the log file, the store and the checkpoint are opened.    *)
Open ==
  /\ pc = "open"
  /\ \/ /\ pc' = "load"
        /\ opened' = TRUE
        /\ UNCHANGED <<pluginVars, turn, observerVars, kind, active,
                       systemVars>>
     \/ StoreFaults /\ Die

(* Slip: the index runs past the last file.                                *)
LoadOneMore == pc = "load" /\ turn <= Len(Files) + 1 /\ Call(turn, "load")

BeginLoad == pc = "load" /\ turn <= Len(Files) /\ Call(turn, "load")

EndLoad ==
  /\ In("load")
  /\ Return
  /\ Register(turn)
  /\ turn' = turn + 1
  /\ UNCHANGED <<deliveryVars, pc, aside>>

AllLoaded ==
  /\ pc = "load"
  /\ turn > Len(Files)
  /\ pc' = "start"
  /\ turn' = 1
  /\ UNCHANGED <<pluginVars, aside>>

BeginStart ==
  pc = "start" /\ turn <= Len(plugins) /\ Call(plugins[turn], "start")

EndStart == EndCall("start", "running")

AllStarted == AllCalled("start", "restore")

(* Brain.initialize, and the signal handlers of run_forever.               *)
Restore == pc = "restore" /\ MoveOrDie("idle")

-----------------------------------------------------------------------------
(* A cycle: what is observed, decided and planned.                         *)

(* Slip: the loop goes on until a cycle has been cancelled.                *)
BeginAnyCycle == pc = "idle" /\ Move("observe")

BeginCycle == pc = "idle" /\ ~requested /\ Move("observe")

Probing(action) ==
  /\ pc = "observe"
  /\ action
  /\ UNCHANGED <<pluginVars, pc, turn, others>>

AskNext == Probing(Ask \/ CannotAsk)

ProbeAnswers == Probing(Answer)

ProbeTimesOut == Probing(GiveUp)

EndObservation ==
  /\ pc = "observe"
  /\ \/ Observed /\ pc' = "report"
     \/ HostFaults /\ ~asked /\ Abort
  /\ ResetObserver
  /\ UNCHANGED <<pluginVars, turn, others>>

Report ==
  /\ pc = "report"
  /\ \/ TRUE \in Saves /\ MoveWithNews("cycle", "decide")
     \/ FALSE \in Saves /\ AbortWithoutNews

(* An answer of the compute node that cannot be read raises.               *)
Decide ==
  /\ pc = "decide"
  /\ MoveWithNews("cycle", "plan") \/ AbortWithoutNews

Plan ==
  /\ pc = "plan"
  /\ \/ TRUE \in Saves /\ pc' = "execute" /\ kind' \in Kinds
     \/ TRUE \in Saves /\ pc' = "tick" /\ kind' = kind
     \/ FALSE \in Saves /\ Abort /\ kind' = kind
  /\ UNCHANGED <<pluginVars, turn, observerVars, active, opened, systemVars>>

-----------------------------------------------------------------------------
(* A cycle: the task is executed.                                          *)

Handled == kind \in DOMAIN handlers /\ handlers[kind] # None

(* The core's handler returns at once, and so does the lack of one.        *)
ExecuteAtOnce == pc = "execute" /\ ~Handled /\ Move("settle")

BeginHandle == pc = "execute" /\ Handled /\ Call(handlers[kind], "handle")

(* What the handler raises is a failed result.                             *)
EndHandle ==
  /\ In("handle")
  /\ Return
  /\ pc' = "settle"
  /\ UNCHANGED <<registryVars, deliveryVars, phase, turn, aside>>

Settle ==
  /\ pc = "settle"
  /\ \/ TRUE \in Saves /\ MoveWithNews("finished", "tick")
     \/ FALSE \in Saves /\ AbortWithoutNews

-----------------------------------------------------------------------------
(* A cycle: plugins, periodic jobs, and the events of the bus.             *)

BeginTick ==
  pc = "tick" /\ turn <= Len(plugins) /\ Call(plugins[turn], "tick")

EndTick ==
  /\ In("tick")
  /\ Return
  /\ \/ pc' = pc /\ turn' = turn + 1
     \/ PluginFaults /\ Abort /\ turn' = 1
  /\ UNCHANGED <<registryVars, deliveryVars, phase, aside>>

AllTicked == AllCalled("tick", "jobs")

(* The jobs up to the check of health.  The updater's commands have no     *)
(* timeout; the heartbeat publishes a change of the node, if there is one, *)
(* before it saves.                                                        *)
RunJobs ==
  /\ pc = "jobs"
  /\ \/ TRUE \in Saves /\ (Move("watch") \/ MoveWithNews("job", "watch"))
     \/ FALSE \in Saves /\ (AbortWithoutNews \/ AbortWithNews("job"))

(* The last job: the restart of a stale component saves a checkpoint, and  *)
(* is then published.                                                      *)
CheckWatchdog ==
  /\ pc = "watch"
  /\ \/ Move("drain")
     \/ TRUE \in Saves /\ MoveWithNews("job", "drain")
     \/ FALSE \in Saves /\ AbortWithoutNews

(* Slip: the bus is drained once more when the plugins have stopped.       *)
DrainingTwice == pc \in {"drain", "close"}

Draining == pc = "drain"

NextEvent ==
  /\ Draining
  /\ TakeEvent
  /\ UNCHANGED <<registryVars, phase, pc, turn, aside>>

BeginHear ==
  /\ Draining
  /\ CallHandler
  /\ UNCHANGED <<registryVars, phase, pc, turn, aside>>

EndHear ==
  /\ In("hear")
  /\ Return
  /\ \E ok \in {TRUE, ~PluginFaults} : hearing' = StillHearing(ok)
  /\ UNCHANGED <<registryVars, bus, owed, phase, pc, turn, aside>>

EndCycle ==
  /\ pc = "drain"
  /\ inside = None
  /\ hearing = <<>>
  /\ bus = <<>>
  /\ Move("idle")

HandleError == pc = "error" /\ MoveOrDie("idle")

-----------------------------------------------------------------------------
(* The stop.                                                               *)

BeginStop ==
  pc = "idle" /\ requested /\ MoveWithNews("shutdown", "wait")

(* The loop's own task is over, but a plugin may be executing one.         *)
TasksAreDone == pc = "wait" /\ active = {} /\ Move("stop")

(* Slip: the wait has no limit.                                            *)
WaitAgain == pc = "wait" /\ active # {} /\ Move("wait")

(* shutdown_timeout_seconds are over.                                      *)
WaitTimesOut == pc = "wait" /\ active # {} /\ Move("stop")

(* Slip: plugins are stopped in the order in which they were loaded.       *)
FirstUp == plugins[turn]

LastUp == plugins[Len(plugins) + 1 - turn]

BeginStopHook ==
  /\ pc = "stop"
  /\ turn <= Len(plugins)
  /\ Call(LastUp, IF phase[LastUp] = "running" THEN "stop" ELSE "unload")

(* Slip: a plugin that raises in on_stop is logged and left behind.        *)
EndOrSkipStopHook ==
  /\ In("stop")
  /\ Return
  /\ \/ Becomes(inside[1], "stopped") /\ turn' = turn
     \/ PluginFaults /\ phase' = phase /\ turn' = turn + 1
  /\ UNCHANGED <<registryVars, deliveryVars, pc, aside>>

EndStopHook ==
  /\ In("stop")
  /\ Return
  /\ Becomes(inside[1], "stopped")
  /\ UNCHANGED <<registryVars, deliveryVars, pc, turn, aside>>

EndUnloadHook == EndCall("unload", "unloaded")

AllStopped == AllCalled("stop", "remember")

(* Slip: the store is closed before the stop is confirmed.                 *)
CloseTooEarly ==
  /\ pc = "remember"
  /\ pc' = "confirm"
  /\ opened' = FALSE
  /\ UNCHANGED <<pluginVars, turn, observerVars, kind, active, systemVars>>

RememberStop == pc = "remember" /\ MoveOrDie("confirm")

(* The checkpoint, the end of the client's session, the confirmation.      *)
Confirm == pc = "confirm" /\ MoveOrDie("close")

(* main returns.                                                           *)
Close == pc = "close" /\ End("success") /\ UNCHANGED service

-----------------------------------------------------------------------------
(* Tasks that a plugin executes beside the loop, in asyncio tasks of its   *)
(* own: it was given the executor when it registered.  What they call is   *)
(* not called by the loop, and not in inside.                              *)

BeginTask(p) ==
  /\ phase[p] \in {"loaded", "running"}
  /\ p \notin active
  /\ active' = active \cup {p}
  /\ UNCHANGED <<pluginVars, pc, turn, observerVars, kind, opened, systemVars>>

EndTask(p) ==
  /\ p \in active
  /\ active' = active \ {p}
  /\ UNCHANGED <<pluginVars, pc, turn, observerVars, kind, opened, systemVars>>

-----------------------------------------------------------------------------
(* systemd, its operator, and whoever else may send a signal.              *)

Terminate ==
  \/ pc \in Boot /\ End("signal")
  \/ /\ pc \notin Boot
     /\ requested' = (pc # "down")
     /\ UNCHANGED <<pluginVars, pc, turn, observerVars, kind, active, opened,
                    status>>

Signal ==
  /\ pc # "down"
  /\ ~requested
  /\ Terminate
  /\ UNCHANGED service

StopService ==
  /\ service = "active"
  /\ Terminate
  /\ service' = "stopping"

(* TimeoutStopSec is over: SIGKILL.                                        *)
Kill ==
  /\ service = "stopping"
  /\ pc # "down"
  /\ End("signal")
  /\ UNCHANGED service

ServiceStopped ==
  /\ service = "stopping"
  /\ pc = "down"
  /\ service' = "inactive"
  /\ UNCHANGED <<pluginVars, pc, turn, observerVars, kind, active, opened,
                 requested, status>>

StartService ==
  /\ service = "inactive"
  /\ service' = "active"
  /\ UNCHANGED <<pluginVars, pc, turn, observerVars, kind, active, opened,
                 requested, status>>

-----------------------------------------------------------------------------
(* What the program does by itself, timeouts included.                     *)
Step ==
  \/ Open \/ BeginLoad \/ AllLoaded \/ BeginStart \/ AllStarted \/ Restore
  \/ BeginCycle \/ AskNext \/ ProbeTimesOut \/ EndObservation
  \/ Report \/ Decide \/ Plan \/ ExecuteAtOnce \/ BeginHandle \/ Settle
  \/ BeginTick \/ AllTicked \/ CheckWatchdog
  \/ NextEvent \/ BeginHear \/ EndCycle \/ HandleError
  \/ BeginStop \/ TasksAreDone \/ WaitTimesOut \/ BeginStopHook \/ AllStopped
  \/ RememberStop \/ Confirm \/ Close

(* What others do for it, if they do.                                      *)
Outside ==
  \/ EndLoad \/ EndStart \/ EndHandle \/ EndTick \/ EndHear \/ EndStopHook
  \/ EndUnloadHook \/ Escape \/ ProbeAnswers \/ RunJobs
  \/ \E p \in FileNumbers : BeginTask(p) \/ EndTask(p)

Systemd == Launch \/ Kill \/ ServiceStopped

Next == Step \/ Outside \/ Systemd \/ Signal \/ StopService \/ StartService

(* The event loop runs, and systemd does what the unit says.  A plugin, a  *)
(* job's command and an operator owe nothing.                              *)
Fairness == WF_vars(Step) /\ WF_vars(Systemd)

Spec == Init /\ [][Next]_vars /\ Fairness

-----------------------------------------------------------------------------
(* Properties.                                                             *)

Topics == Events \cup {"*"}

TypeOK ==
  /\ bus \in Seq(Events)
  /\ plugins \in Seq(FileNumbers)
  /\ handlers \in [DOMAIN handlers -> FileNumbers \cup {None}]
  /\ {"system_check"} \subseteq DOMAIN handlers
  /\ DOMAIN handlers \subseteq Kinds
  /\ subscribers \in [Topics -> Seq(FileNumbers)]
  /\ hearing \in Seq(FileNumbers)
  /\ owed \in Seq(FileNumbers)
  /\ phase \in [FileNumbers ->
                  {"absent", "loaded", "running", "stopped", "unloaded"}]
  /\ inside \in FileNumbers \X Hooks \cup {None}
  /\ probe \in 0 .. Probes
  /\ asked \in BOOLEAN
  /\ pc \in Stages
  /\ turn \in 1 .. Len(Files) + 1
  /\ kind \in Kinds
  /\ active \subseteq FileNumbers
  /\ opened \in BOOLEAN
  /\ requested \in BOOLEAN
  /\ service \in {"active", "stopping", "inactive"}
  /\ status \in {"none", "success", "failure", "signal"}

(* Whenever the program saves something the store has a connection: it is  *)
(* opened before the plugins are loaded, and closed after the stop has     *)
(* been confirmed (MemoryStore.open, close, _require_connection).          *)
SavesFindTheStore == pc \notin {"down", "open"} => opened

(* While the process lives no event skips a subscriber, reaches one twice  *)
(* or overtakes another: what has been published and not yet heard is what *)
(* drain is still to deliver, whatever handlers raise and however many     *)
(* cycles are aborted before they drain the bus (publish, drain).  What is *)
(* on the bus when the process ends is lost.                               *)
EventsReachSubscribers ==
  LET waiting == [n \in DOMAIN bus |-> Callees(bus[n])]
  IN  owed = hearing \o FlattenSeq(waiting)

(* The program is in a plugin's hooks only when the plugin may expect it:  *)
(* load before start, start before anything else, nothing after stop, and  *)
(* the reverse order at the end (PluginRegistry, run_once, _shutdown).  A  *)
(* handler that a plugin calls by a task of its own is its own affair.     *)
Contract ==
  INSTANCE PluginContract WITH Plugins <- FileNumbers, Nowhere <- None

ContractKept == Contract!Spec

(* A process that ends without an error has unloaded every plugin it had   *)
(* loaded (_shutdown).                                                     *)
CleanEndIsComplete ==
  [][ pc # "down" /\ pc' = "down" /\ status' = "success"
        => \A f \in FileNumbers : phase[f] \in {"absent", "unloaded"} ]_vars

(* How many stages at most lie between a stage and the end of main, if it  *)
(* has been asked to stop: the cycle in hand is finished first.            *)
Distance ==
  [observe |-> 16, report |-> 15, decide |-> 14, plan |-> 13, execute |-> 12,
   settle |-> 11, tick |-> 10, jobs |-> 9, watch |-> 8, drain |-> 7,
   error |-> 6, idle |-> 5, wait |-> 4, stop |-> 3, remember |-> 2,
   confirm |-> 1, close |-> 0]

One(condition) == IF condition THEN 1 ELSE 0

(* A handler leaves hearing when it is called; what else is called stays   *)
(* on its list until it has returned.                                      *)
HookToDo == IF In("hear") THEN 2 ELSE One(inside = None)

(* What main has yet to do, the larger parts of it first.                  *)
ToDo ==
  << Distance[pc],
     Probes - probe, One(~asked),
     Len(plugins) + 1 - turn,
     One(turn <= Len(plugins) /\ phase[LastUp] = "running"),
     Len(bus), Len(hearing),
     HookToDo >>

Precedes(a, b) ==
  \E i \in 1 .. Len(a) : a[i] < b[i] /\ \A j \in 1 .. i - 1 : a[j] = b[j]

(* What a plugin or systemd does beside main.                              *)
Beside == active' # active \/ service' # service

(* Once a stop is requested, whatever main does or a hook returns leaves   *)
(* less to do, in an order in which there are no infinite descents: no     *)
(* cycle begins, no probe, hook or event is gone through twice, and an     *)
(* error or a signal sends nothing back (run_forever, cleanup, _shutdown). *)
StopComesCloser ==
  [][ requested /\ ~Beside /\ pc' # "down"
        => ToDo' \in Seq(Nat) /\ Precedes(ToDo', ToDo) ]_vars

(* Every hook returns or raises, and so do the jobs.                       *)
OutsideReturns == []<>(inside = None) /\ []<>(pc # "jobs")

(* When hooks and jobs return and no more cycles are aborted, what is on   *)
(* the bus is taken from it and all its subscribers are called, whatever   *)
(* they raise and whichever probes hang, if the process does not end first *)
(* and loses it (run_once, drain).                                         *)
NewsIsHeard ==
  OutsideReturns /\ <>[](pc # "error")
    => (bus # <<>> ~> bus = <<>> /\ hearing = <<>>)

(* When hooks and jobs return, a signal ends the process, whatever they    *)
(* raise and whichever probes hang (run_forever, cleanup).                 *)
SignalEndsProcess == OutsideReturns => (requested ~> pc = "down")

BootFails == pc \in Boot /\ pc' = "down"

(* As long as the service is to run, hooks and jobs return, and starts do  *)
(* not fail for ever, the loop comes round again and again, whatever the   *)
(* cycles raise, whichever probes hang and whoever signals (Restart=always,*)
(* run_forever, observe).                                                  *)
LoopGoesOn ==
  /\ <>[](service = "active")
  /\ OutsideReturns
  /\ <>[][~BootFails]_vars
  => []<>(pc = "idle")
=============================================================================
