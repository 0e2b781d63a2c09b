---------------------------- MODULE LiveRevision ----------------------------
(***************************************************************************)
(* What the self-update promises whoever runs the program: which revision  *)
(* the next start runs, and how that may change.  It says nothing of       *)
(* clones, links or commands.                                              *)
(*                                                                         *)
(* A candidate goes live only when it is sound, and is on trial until the  *)
(* check that made it live is over; only then may it be taken back.  From  *)
(* there on the program follows the branch in place, and never back.       *)
(***************************************************************************)
EXTENDS Naturals

CONSTANT
  None                (* no revision                                        *)

VARIABLES
  branch,             (* the head of the branch                             *)
  sound,              (* revisions whose tests and startup probe pass       *)
  runs,               (* what a start runs: "nothing", the "installed"      *)
                      (* version or the "candidate"                         *)
  live,               (* its revision                                       *)
  torn,               (* whether the candidate's files are of two revisions *)
  trial               (* whether the check that made it live goes on        *)

vars == <<branch, sound, runs, live, torn, trial>>

Init ==
  /\ branch = 0
  /\ runs \in {"nothing", "installed"}
  /\ live = IF runs = "nothing" THEN None ELSE 0
  /\ torn = FALSE
  /\ trial = FALSE

Push ==
  /\ branch' = branch + 1
  /\ sound \subseteq sound' /\ sound' \subseteq sound \cup {branch + 1}
  /\ UNCHANGED <<runs, live, torn, trial>>

(* The version that was installed before there were updates.               *)
RunInstalled == runs' = "installed" /\ live' = 0 /\ trial' = FALSE

Install == runs = "nothing" /\ RunInstalled /\ UNCHANGED torn

Adopt ==
  /\ runs # "candidate"
  /\ runs' = "candidate"
  /\ live' \in sound
  /\ live' <= branch
  /\ trial' = TRUE
  /\ torn' = FALSE

Keep == trial /\ trial' = FALSE /\ UNCHANGED <<runs, live, torn>>

TakeBack == trial /\ RunInstalled /\ UNCHANGED torn

InPlace == runs = "candidate" /\ ~trial /\ UNCHANGED <<runs, trial>>

Follow ==
  /\ InPlace
  /\ live <= live'
  /\ live' <= branch
  /\ torn' = FALSE

(* The process dies in the middle of it; what is torn is live until it is  *)
(* followed up.                                                            *)
Tear == InPlace /\ live' = live /\ torn' = TRUE

Change == Install \/ Adopt \/ Keep \/ TakeBack \/ Follow \/ Tear

Next == Push \/ (Change /\ UNCHANGED <<branch, sound>>)

Spec == Init /\ [][Next]_vars
=============================================================================
