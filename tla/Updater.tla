------------------------------ MODULE Updater ------------------------------
(***************************************************************************)
(* The self-update of Caine/core/updater.py: check_and_update, one step    *)
(* for each command it awaits, over the candidate's git tree and the       *)
(* symlink through which systemd starts the program.  Outside of it, the   *)
(* branch moves and the process dies.                                      *)
(*                                                                         *)
(* A revision is a number: 0 is the one installed in current_dir and at    *)
(* the head of the branch at first.  git, pip and the tests are external:  *)
(* what they do to the tree and to the exit code is all that is modelled.  *)
(***************************************************************************)
EXTENDS Naturals

CONSTANTS
  None,               (* Python's None, and an absent link                  *)
  Layouts,            (* where symlink_path and current_dir may begin       *)
  CommandFaults,      (* whether commands and system calls may fail         *)
  Crashes,            (* whether the process may die during an update       *)
  Requirements,       (* revisions that have a requirements file            *)
  MaxRevisions        (* bound: how often the branch moves                  *)

Revisions == 0 .. MaxRevisions

Places == {"current", "update"}

ASSUME UpdaterAssumption ==
  /\ None \notin Revisions
  /\ None \notin Places
  /\ Layouts \subseteq [link : {"current", None}, installed : BOOLEAN]
  /\ CommandFaults \in BOOLEAN
  /\ Crashes \in BOOLEAN
  /\ Requirements \subseteq Revisions
  /\ MaxRevisions \in Nat

VARIABLES
  branch,             (* the head of the configured branch                  *)
  sound,              (* revisions whose tests and startup probe pass       *)
  tree,               (* update_dir                                         *)
  link,               (* where symlink_path points                          *)
  spare,              (* where the temporary link beside it points          *)
  installed,          (* whether current_dir exists                         *)
  env,                (* what pip was last told to install: the revision    *)
                      (* whose requirements the environment meets, or None  *)
  metadata,           (* metadata_file                                      *)
  pc,                 (* the next await or system call of check_and_update  *)
  previous,           (* its local previous_target                          *)
  before,             (* HEAD before the fetch                              *)
  outcome,            (* how the last check ended                           *)
  started,            (* history: link and active revision at its start     *)
  verified            (* history: what has passed tests and probe in this   *)
                      (* check                                              *)

remoteVars == <<branch, sound>>
diskVars == <<tree, link, spare, installed, env, metadata>>
checkVars == <<pc, previous, before, outcome, started>>
vars == <<remoteVars, diskVars, checkVars, verified>>

(* A clone cut short leaves a broken tree; a reset cut short leaves the    *)
(* files of two revisions in it, and perhaps git's lock.                   *)
Kinds == {"absent", "plain", "broken", "mixed", "clone"}

Stages ==
  {"down", "idle", "clone", "before", "fetch", "reset", "after", "install",
   "tests", "probe", "link", "replace", "metadata", "rollback", "relink",
   "restore"}

(* The revision that a restart would run, if it is one.                    *)
Active ==
  IF link = "current" THEN 0
  ELSE IF link = "update" /\ tree.kind = "clone" THEN tree.head
  ELSE None

Init ==
  /\ branch = 0
  /\ sound \in SUBSET {0}
  /\ \E kind \in {"absent", "plain"} :
       tree = [kind |-> kind, head |-> 0, ref |-> 0]
  /\ \E layout \in Layouts :
       link = layout.link /\ installed = layout.installed
  /\ spare = None
  /\ env = 0
  /\ metadata = None
  /\ pc = "idle"
  /\ previous = None
  /\ before = 0
  /\ outcome = "none"
  /\ started = [link |-> link, active |-> Active]
  /\ verified = {}

-----------------------------------------------------------------------------
(* check_and_update goes on, or ends.                                      *)

GoTo(stage) ==
  pc' = stage /\ UNCHANGED <<previous, before, outcome, started>>

End(result) ==
  /\ pc' = "idle"
  /\ outcome' = result
  /\ UNCHANGED <<previous, before, started>>

(* Slip: the installed version is preferred to the one that is live.       *)
InstalledTarget == IF installed THEN "current" ELSE link

(* _current_target.                                                        *)
CurrentTarget ==
  IF link # None THEN link ELSE IF installed THEN "current" ELSE None

(* A directory that is no git tree is removed before the clone.            *)
BeginCheck ==
  /\ pc = "idle"
  /\ previous' = CurrentTarget
  /\ started' = [link |-> link, active |-> Active]
  /\ outcome' = "none"
  /\ \/ /\ tree.kind \in {"absent", "plain"}
        /\ tree' = [tree EXCEPT !.kind = "absent"]
        /\ pc' = "clone"
     \/ /\ tree.kind \in {"broken", "mixed", "clone"}
        /\ tree' = tree
        /\ pc' = "before"
  /\ verified' = {}
  /\ UNCHANGED <<remoteVars, link, spare, installed, env, metadata, before>>

(* A clone that fails removes what it began.  Until the tree is known to   *)
(* have changed, an error leaves check_and_update without a rollback.      *)
Clone ==
  /\ pc = "clone"
  /\ \/ /\ tree' = [kind |-> "clone", head |-> branch, ref |-> branch]
        /\ GoTo("install")
     \/ /\ CommandFaults
        /\ tree' = tree
        /\ End("failed")
  /\ UNCHANGED <<remoteVars, link, spare, installed, env, metadata, verified>>

(* Slip: the exit code is not looked at, and no output is a revision too.  *)
ReadBeforeBlindly ==
  /\ pc = "before"
  /\ before' = IF tree.kind = "broken" THEN None ELSE tree.head
  /\ pc' = "fetch"
  /\ UNCHANGED <<previous, outcome, started, remoteVars, diskVars, verified>>

(* rev-parse fails in a tree whose clone was cut short.                    *)
ReadBefore ==
  /\ pc = "before"
  /\ \/ /\ tree.kind # "broken"
        /\ before' = tree.head
        /\ pc' = "fetch"
        /\ UNCHANGED <<previous, outcome, started>>
     \/ /\ tree.kind = "broken" \/ CommandFaults
        /\ End("failed")
  /\ UNCHANGED <<remoteVars, diskVars, verified>>

Fetch ==
  /\ pc = "fetch"
  /\ \/ tree' = [tree EXCEPT !.ref = branch] /\ GoTo("reset")
     \/ CommandFaults /\ tree' = tree /\ End("failed")
  /\ UNCHANGED <<remoteVars, link, spare, installed, env, metadata, verified>>

Reset ==
  /\ pc = "reset"
  /\ \/ /\ tree' = [tree EXCEPT !.kind = "clone", !.head = tree.ref]
        /\ GoTo("after")
     \/ /\ tree.kind = "mixed" \/ CommandFaults
        /\ tree' = tree
        /\ End("failed")
  /\ UNCHANGED <<remoteVars, link, spare, installed, env, metadata, verified>>

(* Slip: the comparison is with what was fetched.                          *)
CompareWithFetched ==
  /\ pc = "after"
  /\ \/ tree.ref = tree.head /\ End("unchanged")
     \/ tree.ref # tree.head /\ GoTo("install")
     \/ CommandFaults /\ End("failed")
  /\ UNCHANGED <<remoteVars, diskVars, verified>>

(* Slip: an unchanged candidate that is not live needs no second test.     *)
SwitchUnchanged ==
  /\ pc = "after"
  /\ \/ before = tree.head /\ link = "update" /\ End("unchanged")
     \/ before = tree.head /\ link # "update" /\ GoTo("link")
     \/ before # tree.head /\ GoTo("install")
     \/ CommandFaults /\ End("failed")
  /\ UNCHANGED <<remoteVars, diskVars, verified>>

ReadAfter ==
  /\ pc = "after"
  /\ \/ before = tree.head /\ End("unchanged")
     \/ before # tree.head /\ GoTo("install")
     \/ CommandFaults /\ End("failed")
  /\ UNCHANGED <<remoteVars, diskVars, verified>>

-----------------------------------------------------------------------------
(* The guarded part: every error from here on leads to the rollback.       *)

(* Slip: pip's exit code is not looked at.                                 *)
InstallLeniently ==
  /\ pc = "install"
  /\ GoTo("tests")
  /\ env' \in IF tree.head \in Requirements THEN {tree.head, None} ELSE {env}
  /\ UNCHANGED <<remoteVars, tree, link, spare, installed, metadata, verified>>

(* pip works on the environment that the running program lives in too; one *)
(* that fails, or dies, leaves it in between.                              *)
InstallDependencies ==
  /\ pc = "install"
  /\ \/ tree.head \in Requirements /\ env' = tree.head /\ GoTo("tests")
     \/ tree.head \notin Requirements /\ env' = env /\ GoTo("tests")
     \/ /\ tree.head \in Requirements
        /\ CommandFaults
        /\ env' \in {env, None}
        /\ GoTo("rollback")
  /\ UNCHANGED <<remoteVars, tree, link, spare, installed, metadata, verified>>

RunTests ==
  /\ pc = "tests"
  /\ \/ tree.head \in sound /\ GoTo("probe")
     \/ tree.head \notin sound /\ GoTo("rollback")
     \/ CommandFaults /\ GoTo("rollback")
  /\ UNCHANGED <<remoteVars, diskVars, verified>>

(* Slip: a failed probe is logged, and the switch goes on.                 *)
ProbeLeniently ==
  /\ pc = "probe"
  /\ \/ GoTo("link") /\ verified' = verified \cup {tree.head}
     \/ CommandFaults /\ GoTo("link") /\ verified' = verified
  /\ UNCHANGED <<remoteVars, diskVars>>

ProbeStartup ==
  /\ pc = "probe"
  /\ \/ GoTo("link") /\ verified' = verified \cup {tree.head}
     \/ CommandFaults /\ GoTo("rollback") /\ verified' = verified
  /\ UNCHANGED <<remoteVars, diskVars>>

(* Slip: the old link is removed to make room for the new one.             *)
MakeRoom(target) == spare' = target /\ link' = None

(* _switch_symlink: a leftover temporary link is removed, a new one is     *)
(* made, and takes the place of the old in one rename.                     *)
MakeSpare(target) == spare' = target /\ UNCHANGED link

TakePlace == link' = spare /\ spare' = None

BeginSwitch ==
  /\ pc = "link"
  /\ \/ MakeSpare("update") /\ GoTo("replace")
     \/ CommandFaults /\ UNCHANGED <<link, spare>> /\ GoTo("rollback")
  /\ UNCHANGED <<remoteVars, tree, installed, env, metadata, verified>>

EndSwitch ==
  /\ pc = "replace"
  /\ \/ TakePlace /\ GoTo("metadata")
     \/ CommandFaults /\ UNCHANGED <<link, spare>> /\ GoTo("rollback")
  /\ UNCHANGED <<remoteVars, tree, installed, env, metadata, verified>>

WriteMetadata ==
  /\ pc = "metadata"
  /\ \/ /\ metadata' = [version |-> tree.head, previous |-> previous]
        /\ End("updated")
     \/ /\ CommandFaults
        /\ metadata' \in {metadata, None}
        /\ GoTo("rollback")
  /\ UNCHANGED <<remoteVars, tree, link, spare, installed, env, verified>>

(* Slip: the rollback is left to the next check.                           *)
NoRollback ==
  /\ pc = "rollback"
  /\ End("failed")
  /\ UNCHANGED <<remoteVars, diskVars, verified>>

BeginRollback ==
  /\ pc = "rollback"
  /\ \/ /\ previous = None
        /\ UNCHANGED <<link, spare>>
        /\ End("failed")
     \/ /\ previous # None
        /\ \/ MakeSpare(previous) /\ GoTo("restore")
           \/ CommandFaults /\ UNCHANGED <<link, spare>> /\ End("stranded")
  /\ UNCHANGED <<remoteVars, tree, installed, env, metadata, verified>>

EndRollback ==
  /\ pc = "restore"
  /\ \/ TakePlace /\ End("failed")
     \/ CommandFaults /\ UNCHANGED <<link, spare>> /\ End("stranded")
  /\ UNCHANGED <<remoteVars, tree, installed, env, metadata, verified>>

-----------------------------------------------------------------------------
(* What happens around it.                                                 *)

Push ==
  /\ branch < MaxRevisions
  /\ branch' = branch + 1
  /\ sound' \in {sound, sound \cup {branch + 1}}
  /\ UNCHANGED <<diskVars, checkVars, verified>>

(* What the process has started dies with it: a clone half made, or a      *)
(* reset before it has moved HEAD.                                         *)
CutShort ==
  CASE pc = "clone" -> {[tree EXCEPT !.kind = "broken"]}
    [] pc = "reset" /\ tree.ref # tree.head -> {[tree EXCEPT !.kind = "mixed"]}
    [] OTHER -> {}

Crash ==
  /\ Crashes
  /\ pc # "down"
  /\ pc' = "down"
  /\ tree' \in {tree} \cup CutShort
  /\ env' \in IF pc = "install" /\ tree.head \in Requirements
              THEN {env, None} ELSE {env}
  /\ previous' = None
  /\ before' = 0
  /\ outcome' = "none"
  /\ UNCHANGED <<remoteVars, link, spare, installed, metadata, started,
                 verified>>

Restart ==
  /\ pc = "down"
  /\ pc' = "idle"
  /\ UNCHANGED <<remoteVars, diskVars, previous, before, outcome, started,
                 verified>>

-----------------------------------------------------------------------------
CheckAndUpdate ==
  \/ BeginCheck \/ Clone \/ ReadBefore \/ Fetch \/ Reset \/ ReadAfter
  \/ InstallDependencies \/ RunTests \/ ProbeStartup
  \/ BeginSwitch \/ EndSwitch \/ WriteMetadata
  \/ BeginRollback \/ EndRollback

Next == CheckAndUpdate \/ Push \/ Crash \/ Restart

(* The scheduler calls the updater again and again, its commands return,   *)
(* and systemd restarts the process.  Nobody has to push.                  *)
Fairness == WF_vars(CheckAndUpdate) /\ WF_vars(Restart)

Spec == Init /\ [][Next]_vars /\ Fairness

-----------------------------------------------------------------------------
(* Properties.                                                             *)

TypeOK ==
  /\ branch \in Revisions
  /\ sound \subseteq Revisions
  /\ tree \in [kind : Kinds, head : Revisions, ref : Revisions]
  /\ link \in Places \cup {None}
  /\ spare \in Places \cup {None}
  /\ installed \in BOOLEAN
  /\ env \in Revisions \cup {None}
  /\ metadata \in [version : Revisions, previous : Places \cup {None}]
                  \cup {None}
  /\ pc \in Stages
  /\ previous \in Places \cup {None}
  /\ before \in Revisions
  /\ outcome \in {"none", "updated", "unchanged", "failed", "stranded"}
  /\ started \in [link : Places \cup {None}, active : Revisions \cup {None}]
  /\ verified \subseteq Revisions

(* Whenever the process dies, and whatever system call fails, systemd      *)
(* finds a link to start the program from if there was one before, and the *)
(* tree behind it, unless that is just what a reset was cut short in       *)
(* (_switch_symlink, the removal of update_dir).                           *)
ProgramStaysStartable ==
  [][Active # None => Active' # None \/ tree'.kind = "mixed"]_vars

(* The link moves to the candidate only when the candidate, as it is then, *)
(* has passed tests and probe, in this check and not by the word of an     *)
(* earlier one that was cut short, and with what it requires installed and *)
(* not what another candidate does (check_and_update).                     *)
SwitchIsEarned ==
  [][link # "update" /\ link' = "update"
       => /\ tree.head \in verified
          /\ tree.head \in sound
          /\ tree.head \in Requirements => env = tree.head]_vars

(* A check that fails, whichever of its steps does, leaves the link where  *)
(* it was or on the version that was there before, if there was one and    *)
(* moving the link back does not fail as well (the rollback of             *)
(* check_and_update).                                                      *)
FailureRestoresLink ==
  outcome = "failed" /\ previous # None => link \in {started.link, previous}

(* The check that has moved the link to the candidate is not over.         *)
OnTrial ==
  /\ link = "update"
  /\ previous # "update"
  /\ pc \in {"metadata", "rollback", "restore"}

(* What a restart would run, and which revision of it.                     *)
Running ==
  IF link = "current" THEN "installed"
  ELSE IF link = "update" THEN "candidate" ELSE "nothing"

LinkedRevision ==
  IF link = "current" THEN 0
  ELSE IF link = "update" THEN tree.head ELSE None

Torn == link = "update" /\ tree.kind # "clone"

(* A start runs another revision only as LiveRevision allows: a candidate  *)
(* goes live sound, is taken back only by the check that made it live,     *)
(* and from then on follows the branch, never back and never to the        *)
(* installed version, whatever fails and wherever the process dies         *)
(* (_pull_or_clone, _switch_symlink, _current_target).                     *)
Live ==
  INSTANCE LiveRevision
    WITH runs <- Running, live <- LinkedRevision, torn <- Torn,
         trial <- OnTrial

LiveImplemented == Live!Spec

(* Checks go on, their fetch succeeds now and then, and from there on they *)
(* fail for no other reason than a revision that is not sound.             *)
OnlyUnsoundFails ==
  /\ [](pc # "down")
  /\ []<>(pc \in {"after", "install"})
  /\ [](outcome \in {"failed", "stranded"} => tree.head \notin sound)

(* As long as that is so, every sound revision at the head of the branch   *)
(* goes live or is overtaken, whatever unsound ones came before it         *)
(* (check_and_update, called by the scheduler's updater job).              *)
SoundRevisionGoesLive ==
  OnlyUnsoundFails =>
    \A r \in Revisions :
      branch = r /\ r \in sound ~> Active = r \/ branch # r

-----------------------------------------------------------------------------
(* What the program's documents say of it, and the code does not keep.     *)

(* A failed update leaves the version that was live.  (README: "Rollback   *)
(* на предыдущую версию при любой ошибке.")                                *)
FailureKeepsVersion == outcome = "failed" => Active = started.active
=============================================================================
