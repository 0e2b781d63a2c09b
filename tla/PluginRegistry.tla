--------------------------- MODULE PluginRegistry ---------------------------
(***************************************************************************)
(* Caine/plugins/registry.py and what a plugin leaves in the rest of the   *)
(* program when it is loaded: handlers of the executor, and subscriptions  *)
(* to the event bus.  A plugin is the number of its file in the order in   *)
(* which the files are loaded.                                             *)
(*                                                                         *)
(* Left out: permissions, which nothing asks for.                          *)
(***************************************************************************)
EXTENDS EventBus, SequencesExt

CONSTANTS
  None,               (* the absence of a plugin                            *)
  Kinds,              (* kinds of tasks                                     *)
  Files               (* what the plugin directories hold, in sorted order  *)

(* What an event is about; a subscription may also be to "*".  "job" is    *)
(* what jobs publish: a change of the node, a restart by the watchdog.     *)
Events == {"cycle", "finished", "job", "shutdown"}

(* Nothing keeps two plugins from the same kind, or from "system_check".   *)
File == [plugin : BOOLEAN, kinds : SUBSET Kinds,
         topics : SUBSET (Events \cup {"*"})]

Hooks == {"load", "start", "tick", "handle", "hear", "stop", "unload"}

FileNumbers == DOMAIN Files

ASSUME RegistryAssumption ==
  /\ "system_check" \in Kinds
  /\ Files \in Seq(File)
  /\ None \notin FileNumbers
  /\ None \notin FileNumbers \X Hooks

VARIABLES
  plugins,            (* PluginRegistry.plugins                             *)
  handlers,           (* Executor.handlers; None is the core's own          *)
  subscribers,        (* EventBus._subscribers                              *)
  hearing,            (* who has yet to hear the event that drain has taken *)
  phase,              (* history: how far each plugin's life has come       *)
  inside,             (* the plugin and the hook the program is in, or None *)
  owed                (* history: what has been published, and to whom      *)

registryVars == <<plugins, handlers, subscribers>>
deliveryVars == <<bus, hearing, owed>>

EmptyRegistry ==
  /\ plugins = <<>>
  /\ handlers = [kind \in {"system_check"} |-> None]
  /\ subscribers = [topic \in Events \cup {"*"} |-> <<>>]
  /\ bus = <<>>
  /\ hearing = <<>>
  /\ owed = <<>>
  /\ phase = [f \in FileNumbers |-> "absent"]
  /\ inside = None

ForgetPlugins ==
  /\ plugins' = <<>>
  /\ handlers' = [kind \in {"system_check"} |-> None]
  /\ subscribers' = [topic \in Events \cup {"*"} |-> <<>>]
  /\ bus' = <<>>
  /\ hearing' = <<>>
  /\ owed' = <<>>
  /\ phase' = [f \in FileNumbers |-> "absent"]
  /\ inside' = None

-----------------------------------------------------------------------------
(* Calls into plugins.  _call skips a hook that a plugin lacks, which is   *)
(* one that returns at once.                                               *)

Enter(p, hook) ==
  /\ inside = None
  /\ inside' = <<p, hook>>

In(hook) == inside # None /\ inside[2] = hook

Return == inside' = None

Becomes(p, stage) == phase' = [phase EXCEPT ![p] = stage]

(* What load does with a module whose import, on_load and register have    *)
(* returned; a module without a plugin object is skipped.                  *)
Register(f) ==
  IF ~Files[f].plugin THEN UNCHANGED <<registryVars, phase>>
  ELSE
    /\ handlers' = [kind \in DOMAIN handlers \cup Files[f].kinds |->
                      IF kind \in Files[f].kinds THEN f ELSE handlers[kind]]
    /\ subscribers' = [topic \in DOMAIN subscribers |->
                         IF topic \in Files[f].topics
                         THEN Append(subscribers[topic], f)
                         ELSE subscribers[topic]]
    /\ plugins' = Append(plugins, f)
    /\ Becomes(f, "loaded")

-----------------------------------------------------------------------------
(* The bus and its subscribers.                                            *)

(* Those who subscribed to the event, and then those who want them all.    *)
Callees(event) == subscribers[event] \o subscribers["*"]

Announce(event) ==
  /\ Publish(event)
  /\ owed' = owed \o Callees(event)
  /\ hearing' = hearing

(* drain takes an event ...                                                *)
TakeEvent ==
  /\ inside = None
  /\ hearing = <<>>
  /\ Take
  /\ hearing' = Callees(Head(bus))
  /\ UNCHANGED <<owed, inside>>

(* ... and calls one handler after the other.                              *)
CallHandler ==
  /\ hearing # <<>>
  /\ Enter(Head(hearing), "hear")
  /\ hearing' = Tail(hearing)
  /\ owed' = SubSeq(owed, 2, Len(owed))
  /\ bus' = bus

(* Slip: what a handler raises ends the dispatch of the event.             *)
HearingUnlessFailed(ok) == IF ok THEN hearing ELSE <<>>

(* Slip: a handler that has raised is called again.                        *)
HearingUntilHeard(ok) ==
  IF ok THEN hearing ELSE <<inside[1]>> \o hearing

(* What a handler raises is logged, and the next one is called.            *)
StillHearing(ok) == hearing
=============================================================================
