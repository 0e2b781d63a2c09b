--------------------------- MODULE PluginContract ---------------------------
(***************************************************************************)
(* What a plugin may rely on (CainePlugin in Caine/plugins/registry.py):   *)
(* when the program is in which of its hooks.  "Run after module import",  *)
(* "run when Caine starts", "run each Caine tick", "run before shutdown",  *)
(* "run after stop before plugin removal".                                 *)
(*                                                                         *)
(* A hook may raise or never return; then nothing more is promised, except *)
(* that the next process begins anew.                                      *)
(***************************************************************************)
EXTENDS Naturals

CONSTANTS
  Plugins,            (* numbered in the order of their files               *)
  Nowhere             (* in no plugin's hook, so no pair of the two         *)

(* Hooks that serve: a tick, a task's handler, an event's handler.         *)
Services == {"tick", "handle", "hear"}

Hooks == {"load", "start", "stop", "unload"} \cup Services

VARIABLES
  phase,              (* how far each plugin's life has come                *)
  inside              (* the plugin and the hook the program is in          *)

vars == <<phase, inside>>

Unborn == [p \in Plugins |-> "absent"]

Init ==
  /\ phase = Unborn
  /\ inside = Nowhere

(* All plugins are loaded before one is started, all are started before    *)
(* one serves, none serves when one is stopped, and they are stopped and   *)
(* unloaded one after the other, the last one first.                       *)
May(p, hook) ==
  \/ /\ hook = "load"
     /\ \A q \in Plugins :
          phase[q] = "absent" \/ (phase[q] = "loaded" /\ q < p)
  \/ /\ hook = "start"
     /\ phase[p] = "loaded"
     /\ \A q \in Plugins :
          phase[q] \in (IF q < p THEN {"absent", "running"}
                                 ELSE {"absent", "loaded"})
  \/ /\ hook \in Services
     /\ phase[p] = "running"
     /\ \A q \in Plugins : phase[q] \in {"absent", "running"}
  \/ /\ hook \in {"stop", "unload"}
     /\ phase[p] = IF hook = "stop" THEN "running" ELSE "stopped"
     /\ \A q \in Plugins \ {p} :
          phase[q] \in (IF q < p THEN {"absent", "running"}
                                 ELSE {"absent", "unloaded"})

Enter(p, hook) ==
  /\ inside = Nowhere
  /\ May(p, hook)
  /\ inside' = <<p, hook>>
  /\ phase' = phase

(* What a hook makes of its plugin; one that serves changes nothing.       *)
Outcomes ==
  {<<"load", "loaded">>, <<"start", "running">>,
   <<"stop", "stopped">>, <<"unload", "unloaded">>}

(* A hook that raised, and a file without a plugin, leave all as it was.   *)
Leave(p, hook) ==
  /\ inside = <<p, hook>>
  /\ inside' = Nowhere
  /\ \/ phase' = phase
     \/ \E stage \in {"loaded", "running", "stopped", "unloaded"} :
          /\ <<hook, stage>> \in Outcomes
          /\ phase' = [phase EXCEPT ![p] = stage]

(* The process ends.                                                       *)
End ==
  /\ phase' = Unborn
  /\ inside' = Nowhere

Next ==
  \/ \E p \in Plugins, hook \in Hooks : Enter(p, hook) \/ Leave(p, hook)
  \/ End

Spec == Init /\ [][Next]_vars
=============================================================================
