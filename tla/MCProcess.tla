------------------------------ MODULE MCProcess ------------------------------
(***************************************************************************)
(* Instances of Process for TLC: the kinds of tasks, and plugins.          *)
(***************************************************************************)
EXTENDS Process

TaskKinds == {"system_check", "backup", "unknown"}

(* The first file's plugin takes over the core's kind and hears all; the   *)
(* second file has no plugin.                                              *)
PluginFiles ==
  <<[plugin |-> TRUE, kinds |-> {"system_check"}, topics |-> {"*"}],
    [plugin |-> FALSE, kinds |-> {}, topics |-> {}],
    [plugin |-> TRUE, kinds |-> {"backup"}, topics |-> {"finished", "*"}]>>
=============================================================================
