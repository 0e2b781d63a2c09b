----------------------------- MODULE MCUpdater -----------------------------
(***************************************************************************)
(* Instances of Updater for TLC.                                           *)
(***************************************************************************)
EXTENDS Updater

(* README's layout: the link points at the installed version.              *)
AsDocumented == {[link |-> "current", installed |-> TRUE]}

(* The program can also be run before there is a link.                     *)
AnyLayout ==
  AsDocumented \cup [link : {None}, installed : BOOLEAN]

(* The first revision that is pushed needs no more than Python.            *)
Some == Revisions \ {1}
=============================================================================
