--------------------------- MODULE UpdaterProofs ---------------------------
(***************************************************************************)
(* Proofs about Updater, for every value of its constants: whichever       *)
(* commands and system calls fail, and wherever the process dies.          *)
(***************************************************************************)
EXTENDS Updater, TLAPS

-----------------------------------------------------------------------------
(* The inductive invariant.                                                *)

(* There is no tree while it is being made; a revision was read from it    *)
(* before a fetch; and after a reset it is whole.                          *)
TreeIsReady ==
  /\ pc = "clone" => tree.kind = "absent"
  /\ pc = "before" => tree.kind \in {"broken", "mixed", "clone"}
  /\ pc \in {"fetch", "reset"} => tree.kind \in {"mixed", "clone"}
  /\ pc \in {"after", "install", "tests", "probe", "link", "replace"}
       => tree.kind = "clone"

(* What is being switched to has passed, in an environment made for it,    *)
(* and neither changes any more.                                           *)
CandidateHasPassed ==
  /\ pc \in {"tests", "probe", "link", "replace"}
       => (tree.head \in Requirements => env = tree.head)
  /\ pc \in {"probe", "link", "replace"} => tree.head \in sound
  /\ pc \in {"link", "replace"} => tree.head \in verified

(* The temporary link points to where the link is about to.                *)
SpareIsRight ==
  /\ pc = "replace" => spare = "update"
  /\ pc = "restore" => spare = previous /\ previous # None

(* Until the switch the link is what it was; a link to the candidate is    *)
(* never moved away again; and a check has no outcome while it runs.       *)
LinkIsKept ==
  /\ pc \in {"clone", "before", "fetch", "reset", "after", "install", "tests",
             "probe", "link", "replace"}
       => link = started.link
  /\ previous = "update" => link = "update"
  /\ pc # "idle" => outcome = "none"

IInv ==
  /\ TypeOK
  /\ TreeIsReady
  /\ CandidateHasPassed
  /\ SpareIsRight
  /\ LinkIsKept
  /\ FailureRestoresLink

-----------------------------------------------------------------------------
(* The invariant holds at first.                                           *)
LEMMA InvariantAtFirst == Init => IInv
<1> SUFFICES ASSUME Init PROVE IInv
  OBVIOUS
<1> USE UpdaterAssumption DEF Init
<1>1. TypeOK
  BY DEF TypeOK, Revisions, Places, Kinds, Stages, Active
<1>2. TreeIsReady /\ CandidateHasPassed /\ SpareIsRight
  BY DEF TreeIsReady, CandidateHasPassed, SpareIsRight
<1>3. LinkIsKept
  BY DEF LinkIsKept, Places
<1>4. FailureRestoresLink
  BY DEF FailureRestoresLink
<1> QED
  BY <1>1, <1>2, <1>3, <1>4 DEF IInv

(* Whatever a restart would run is a revision.                             *)
LEMMA ActiveIsRevision == TypeOK => Active \in Revisions \cup {None}
BY UpdaterAssumption DEF TypeOK, Active, Revisions, Places

(* Types are preserved.                                                    *)
LEMMA TypesAreKept ==
  ASSUME TypeOK, [Next]_vars
  PROVE  TypeOK'
<1>1. CASE BeginCheck
  <2>1. pc' \in Stages /\ previous' \in Places \cup {None}
    BY <1>1 DEF BeginCheck, CurrentTarget, TypeOK, Stages, Places
  <2>2. tree' \in [kind : Kinds, head : Revisions, ref : Revisions]
    BY <1>1 DEF BeginCheck, TypeOK, Kinds
  <2>3. started' \in [link : Places \cup {None},
                     active : Revisions \cup {None}]
    BY <1>1, ActiveIsRevision DEF BeginCheck, TypeOK
  <2> QED
    BY <1>1, <2>1, <2>2, <2>3 DEF BeginCheck, remoteVars, TypeOK
<1>2. CASE Clone
  BY <1>2 DEF Clone, GoTo, End, Kinds, TypeOK, Stages, remoteVars, diskVars
<1>3. CASE ReadBefore
  BY <1>3 DEF ReadBefore, End, TypeOK, Stages, remoteVars, diskVars
<1>4. CASE Fetch
  BY <1>4 DEF Fetch, GoTo, End, TypeOK, Stages, remoteVars, diskVars
<1>5. CASE Reset
  BY <1>5 DEF Reset, GoTo, End, Kinds, TypeOK, Stages, remoteVars, diskVars
<1>6. CASE ReadAfter
  BY <1>6 DEF ReadAfter, GoTo, End, TypeOK, Stages, remoteVars, diskVars
<1>7. CASE InstallDependencies
  BY <1>7 DEF InstallDependencies, GoTo, TypeOK, Stages, remoteVars, diskVars
<1>8. CASE RunTests
  BY <1>8 DEF RunTests, GoTo, TypeOK, Stages, remoteVars, diskVars
<1>9. CASE ProbeStartup
  BY <1>9 DEF ProbeStartup, GoTo, TypeOK, Stages, remoteVars, diskVars
<1>10. CASE BeginSwitch
  BY <1>10 DEF BeginSwitch, MakeSpare, GoTo, Places, TypeOK, Stages,
       remoteVars, diskVars
<1>11. CASE EndSwitch
  BY <1>11 DEF EndSwitch, TakePlace, GoTo, TypeOK, Stages, remoteVars, diskVars
<1>12. CASE WriteMetadata
  BY <1>12 DEF WriteMetadata, GoTo, End, TypeOK, Stages, remoteVars, diskVars
<1>13. CASE BeginRollback
  BY <1>13 DEF BeginRollback, MakeSpare, GoTo, End, TypeOK, Stages, remoteVars,
       diskVars
<1>14. CASE EndRollback
  BY <1>14 DEF EndRollback, TakePlace, End, TypeOK, Stages, remoteVars,
       diskVars
<1>15. CASE Push
  <2>1. branch' \in Revisions /\ sound' \subseteq Revisions
    BY <1>15, UpdaterAssumption DEF Push, TypeOK, Revisions
  <2> QED
    BY <1>15, <2>1 DEF Push, TypeOK, diskVars, checkVars
<1>16. CASE Crash
  BY <1>16, UpdaterAssumption DEF Crash, CutShort, Kinds, Revisions, TypeOK,
       Stages, remoteVars, diskVars
<1>17. CASE Restart
  BY <1>17 DEF Restart, TypeOK, Stages, remoteVars, diskVars
<1>18. CASE UNCHANGED vars
  BY <1>18 DEF vars, checkVars, TypeOK, Stages, remoteVars, diskVars
<1> QED
  BY <1>1, <1>2, <1>3, <1>4, <1>5, <1>6, <1>7, <1>8, <1>9, <1>10, <1>11, <1>12,
     <1>13, <1>14, <1>15, <1>16, <1>17, <1>18
  DEF Next, CheckAndUpdate

(* The tree is a clone whenever the check relies on it.                    *)
LEMMA TreeStaysReady ==
  ASSUME IInv, [Next]_vars
  PROVE  TreeIsReady'
<1>1. CASE BeginCheck
  BY <1>1 DEF BeginCheck, CurrentTarget, IInv, TreeIsReady, TypeOK, diskVars
<1>2. CASE Clone
  BY <1>2 DEF Clone, GoTo, End, IInv, TreeIsReady, TypeOK, diskVars
<1>3. CASE ReadBefore
  BY <1>3 DEF ReadBefore, End, IInv, TreeIsReady, TypeOK, diskVars
<1>4. CASE Fetch
  BY <1>4 DEF Fetch, GoTo, End, IInv, TreeIsReady, TypeOK, diskVars
<1>5. CASE Reset
  BY <1>5 DEF Reset, GoTo, End, IInv, TreeIsReady, TypeOK, diskVars
<1>6. CASE \/ ReadAfter \/ InstallDependencies \/ RunTests \/ ProbeStartup
           \/ BeginSwitch \/ EndSwitch \/ WriteMetadata
  BY <1>6 DEF ReadAfter, GoTo, End, InstallDependencies, RunTests,
       ProbeStartup, BeginSwitch, MakeSpare, EndSwitch, TakePlace,
       WriteMetadata, IInv, TreeIsReady, TypeOK, diskVars
<1>7. CASE \/ BeginRollback \/ EndRollback \/ Push \/ Crash \/ Restart
  BY <1>7 DEF BeginRollback, MakeSpare, GoTo, End, EndRollback, TakePlace,
       Push, checkVars, Crash, CutShort, Restart, IInv, TreeIsReady, TypeOK,
       diskVars
<1>8. CASE UNCHANGED vars
  BY <1>8 DEF vars, checkVars, IInv, TreeIsReady, TypeOK, diskVars
<1> QED
  BY <1>1, <1>2, <1>3, <1>4, <1>5, <1>6, <1>7, <1>8
  DEF Next, CheckAndUpdate

(* Nothing changes the candidate between its tests and the switch.         *)
LEMMA CandidateStaysSound ==
  ASSUME IInv, [Next]_vars
  PROVE  CandidateHasPassed'
<1>1. CASE RunTests
  BY <1>1 DEF RunTests, GoTo, IInv, CandidateHasPassed, remoteVars, diskVars
<1>2. CASE ProbeStartup
  BY <1>2 DEF ProbeStartup, GoTo, IInv, CandidateHasPassed, remoteVars,
       diskVars
<1>3. CASE Push
  BY <1>3 DEF Push, checkVars, IInv, CandidateHasPassed, remoteVars, diskVars
<1>4. CASE \/ BeginCheck \/ Clone \/ ReadBefore \/ Fetch \/ Reset \/ ReadAfter
           \/ InstallDependencies
  BY <1>4 DEF BeginCheck, CurrentTarget, Clone, GoTo, End, ReadBefore, Fetch,
       Reset, ReadAfter, InstallDependencies, IInv, CandidateHasPassed,
       remoteVars, diskVars
<1>5. CASE \/ BeginSwitch \/ EndSwitch \/ WriteMetadata \/ BeginRollback
           \/ EndRollback \/ Crash \/ Restart
  BY <1>5 DEF BeginSwitch, MakeSpare, GoTo, EndSwitch, TakePlace,
       WriteMetadata, End, BeginRollback, EndRollback, Crash, Restart, IInv,
       CandidateHasPassed, remoteVars, diskVars
<1>6. CASE UNCHANGED vars
  BY <1>6 DEF vars, checkVars, IInv, CandidateHasPassed, remoteVars, diskVars
<1> QED
  BY <1>1, <1>2, <1>3, <1>4, <1>5, <1>6
  DEF Next, CheckAndUpdate

(* The temporary link is not touched between the two steps of a switch.    *)
LEMMA SpareStaysRight ==
  ASSUME IInv, [Next]_vars
  PROVE  SpareIsRight'
<1>1. CASE BeginSwitch
  BY <1>1 DEF BeginSwitch, MakeSpare, GoTo, IInv, SpareIsRight, diskVars
<1>2. CASE BeginRollback
  BY <1>2 DEF BeginRollback, MakeSpare, GoTo, End, IInv, SpareIsRight, diskVars
<1>3. CASE \/ BeginCheck \/ Clone \/ ReadBefore \/ Fetch \/ Reset \/ ReadAfter
           \/ InstallDependencies
  BY <1>3 DEF BeginCheck, CurrentTarget, Clone, GoTo, End, ReadBefore, Fetch,
       Reset, ReadAfter, InstallDependencies, IInv, SpareIsRight, diskVars
<1>4. CASE \/ RunTests \/ ProbeStartup \/ EndSwitch \/ WriteMetadata
           \/ EndRollback \/ Push \/ Crash \/ Restart
  BY <1>4 DEF RunTests, GoTo, ProbeStartup, EndSwitch, TakePlace,
       WriteMetadata, End, EndRollback, Push, checkVars, Crash, Restart, IInv,
       SpareIsRight, diskVars
<1>5. CASE UNCHANGED vars
  BY <1>5 DEF vars, checkVars, IInv, SpareIsRight, diskVars
<1> QED
  BY <1>1, <1>2, <1>3, <1>4, <1>5
  DEF Next, CheckAndUpdate

(* Only the second half of a switch moves the link.                        *)
LEMMA LinkStaysKept ==
  ASSUME IInv, [Next]_vars
  PROVE  LinkIsKept'
<1>1. CASE BeginCheck
  BY <1>1, UpdaterAssumption DEF BeginCheck, CurrentTarget, Places, IInv,
       LinkIsKept, diskVars
<1>2. CASE EndSwitch
  BY <1>2 DEF EndSwitch, TakePlace, GoTo, SpareIsRight, IInv, LinkIsKept,
       diskVars
<1>3. CASE EndRollback
  BY <1>3 DEF EndRollback, TakePlace, End, SpareIsRight, IInv, LinkIsKept,
       diskVars
<1>4. CASE Crash
  BY <1>4, UpdaterAssumption DEF Crash, Places, IInv, LinkIsKept, diskVars
<1>5. CASE \/ Clone \/ ReadBefore \/ Fetch \/ Reset \/ ReadAfter
           \/ InstallDependencies \/ RunTests
  BY <1>5 DEF Clone, GoTo, End, ReadBefore, Fetch, Reset, ReadAfter,
       InstallDependencies, RunTests, IInv, LinkIsKept, diskVars
<1>6. CASE \/ ProbeStartup \/ BeginSwitch \/ WriteMetadata \/ BeginRollback
           \/ Push \/ Restart
  BY <1>6 DEF ProbeStartup, GoTo, BeginSwitch, MakeSpare, WriteMetadata, End,
       BeginRollback, Push, checkVars, Restart, IInv, LinkIsKept, diskVars
<1>7. CASE UNCHANGED vars
  BY <1>7 DEF vars, checkVars, IInv, LinkIsKept, diskVars
<1> QED
  BY <1>1, <1>2, <1>3, <1>4, <1>5, <1>6, <1>7
  DEF Next, CheckAndUpdate

(* A check that fails has not moved the link, or has moved it back.        *)
LEMMA FailureStillRestores ==
  ASSUME IInv, [Next]_vars
  PROVE  FailureRestoresLink'
<1>1. CASE EndSwitch
  BY <1>1 DEF EndSwitch, TakePlace, GoTo, IInv, FailureRestoresLink,
       LinkIsKept, diskVars
<1>2. CASE BeginRollback
  BY <1>2 DEF BeginRollback, MakeSpare, GoTo, End, IInv, FailureRestoresLink,
       LinkIsKept, diskVars
<1>3. CASE EndRollback
  BY <1>3 DEF EndRollback, TakePlace, End, SpareIsRight, IInv,
       FailureRestoresLink, LinkIsKept, diskVars
<1>4. CASE \/ BeginCheck \/ Clone \/ ReadBefore \/ Fetch \/ Reset \/ ReadAfter
           \/ InstallDependencies
  BY <1>4 DEF BeginCheck, CurrentTarget, Clone, GoTo, End, ReadBefore, Fetch,
       Reset, ReadAfter, InstallDependencies, IInv, FailureRestoresLink,
       LinkIsKept, diskVars
<1>5. CASE \/ RunTests \/ ProbeStartup \/ BeginSwitch \/ WriteMetadata \/ Push
           \/ Crash \/ Restart
  BY <1>5 DEF RunTests, GoTo, ProbeStartup, BeginSwitch, MakeSpare,
       WriteMetadata, End, Push, checkVars, Crash, Restart, IInv,
       FailureRestoresLink, LinkIsKept, diskVars
<1>6. CASE UNCHANGED vars
  BY <1>6 DEF vars, checkVars, IInv, FailureRestoresLink, LinkIsKept, diskVars
<1> QED
  BY <1>1, <1>2, <1>3, <1>4, <1>5, <1>6
  DEF Next, CheckAndUpdate

-----------------------------------------------------------------------------
(* The invariant is inductive, so it always holds.                         *)
LEMMA InvariantIsInductive ==
  ASSUME IInv, [Next]_vars
  PROVE  IInv'
BY TypesAreKept, TreeStaysReady, CandidateStaysSound, SpareStaysRight,
   LinkStaysKept, FailureStillRestores
   DEF IInv

(* A tested candidate, a link that is moved only from one place to another *)
(* and a tree that is there when it is relied on: the inductive invariant  *)
(* of check_and_update, wherever it is interrupted.                        *)
THEOREM InductiveInvariant == Spec => []IInv
<1> QED
  BY InvariantAtFirst, InvariantIsInductive, PTL DEF Spec

(* The variables of the updater have their types.                          *)
THEOREM TypeCorrect == Spec => []TypeOK
<1>1. IInv => TypeOK
  BY DEF IInv
<1> QED
  BY <1>1, InductiveInvariant, PTL

(* A check that fails, whichever of its steps does, leaves the link where  *)
(* it was or on the version that was there before.                         *)
THEOREM LinkIsRestored == Spec => []FailureRestoresLink
<1>1. IInv => FailureRestoresLink
  BY DEF IInv
<1> QED
  BY <1>1, InductiveInvariant, PTL

(* Only the end of a switch makes the link point at the candidate.         *)
LEMMA SwitchStep ==
  ASSUME IInv, link # "update", link' = "update", [Next]_vars
  PROVE  /\ tree.head \in verified
         /\ tree.head \in sound
         /\ tree.head \in Requirements => env = tree.head
<1>1. CASE EndSwitch
  BY <1>1 DEF EndSwitch, TakePlace, GoTo, SpareIsRight, CandidateHasPassed,
       IInv, diskVars
<1>2. CASE EndRollback
  BY <1>2 DEF EndRollback, TakePlace, End, SpareIsRight, LinkIsKept, IInv,
       diskVars
<1>3. CASE \/ BeginCheck \/ Clone \/ ReadBefore \/ Fetch \/ Reset \/ ReadAfter
           \/ InstallDependencies
  BY <1>3 DEF BeginCheck, CurrentTarget, Clone, GoTo, End, ReadBefore, Fetch,
       Reset, ReadAfter, InstallDependencies, IInv, diskVars
<1>4. CASE \/ RunTests \/ ProbeStartup \/ BeginSwitch \/ WriteMetadata
           \/ BeginRollback \/ Push \/ Crash \/ Restart
  BY <1>4 DEF RunTests, GoTo, ProbeStartup, BeginSwitch, MakeSpare,
       WriteMetadata, End, BeginRollback, Push, checkVars, Crash, Restart,
       IInv, diskVars
<1>5. CASE UNCHANGED vars
  BY <1>5 DEF vars, checkVars, IInv, diskVars
<1> QED
  BY <1>1, <1>2, <1>3, <1>4, <1>5
  DEF Next, CheckAndUpdate

(* No step takes away the link, or the tree behind it.                     *)
LEMMA StartableStep ==
  ASSUME IInv, Active # None, [Next]_vars
  PROVE  Active' # None \/ tree'.kind = "mixed"
<1>1. CASE BeginCheck
  BY <1>1, UpdaterAssumption DEF BeginCheck, CurrentTarget, IInv, TypeOK,
       Active, diskVars
<1>2. CASE Clone
  BY <1>2, UpdaterAssumption DEF Clone, GoTo, End, TreeIsReady, IInv, TypeOK,
       Active, diskVars
<1>3. CASE Fetch
  BY <1>3, UpdaterAssumption DEF Fetch, GoTo, End, TreeIsReady, IInv, TypeOK,
       Active, diskVars
<1>4. CASE Reset
  BY <1>4, UpdaterAssumption DEF Reset, GoTo, End, TreeIsReady, IInv, TypeOK,
       Active, diskVars
<1>5. CASE EndSwitch
  BY <1>5, UpdaterAssumption DEF EndSwitch, TakePlace, GoTo, SpareIsRight,
       TreeIsReady, Revisions, IInv, TypeOK, Active, diskVars
<1>6. CASE EndRollback
  BY <1>6, UpdaterAssumption DEF EndRollback, TakePlace, End, SpareIsRight,
       LinkIsKept, Places, Revisions, IInv, TypeOK, Active, diskVars
<1>7. CASE Crash
  BY <1>7, UpdaterAssumption DEF Crash, TreeIsReady, CutShort, IInv, TypeOK,
       Active, diskVars
<1>8. CASE \/ ReadBefore \/ ReadAfter \/ InstallDependencies \/ RunTests
           \/ ProbeStartup \/ BeginSwitch \/ WriteMetadata
  BY <1>8, UpdaterAssumption DEF ReadBefore, End, ReadAfter, GoTo,
       InstallDependencies, RunTests, ProbeStartup, BeginSwitch, MakeSpare,
       WriteMetadata, IInv, TypeOK, Active, diskVars
<1>9. CASE \/ BeginRollback \/ Push \/ Restart
  BY <1>9, UpdaterAssumption DEF BeginRollback, MakeSpare, GoTo, End, Push,
       checkVars, Restart, IInv, TypeOK, Active, diskVars
<1>10. CASE UNCHANGED vars
  BY <1>10 DEF vars, checkVars, IInv, TypeOK, Active, diskVars
<1> QED
  BY <1>1, <1>2, <1>3, <1>4, <1>5, <1>6, <1>7, <1>8, <1>9, <1>10
  DEF Next, CheckAndUpdate

(* The link moves to the candidate only when the candidate, as it is then, *)
(* has passed tests and probe, in an environment made for it.              *)
THEOREM SwitchIsEarnedAlways == Spec => SwitchIsEarned
<1>1. IInv /\ [Next]_vars =>
        [link # "update" /\ link' = "update"
           => /\ tree.head \in verified
              /\ tree.head \in sound
              /\ tree.head \in Requirements => env = tree.head]_vars
  BY SwitchStep
<1> QED
  BY <1>1, InductiveInvariant, PTL DEF Spec, SwitchIsEarned

(* There is always something to start the program from if there ever was,  *)
(* but for a tree that a reset was cut short in.                           *)
THEOREM StaysStartable == Spec => ProgramStaysStartable
<1>1. IInv /\ [Next]_vars =>
        [Active # None => Active' # None \/ tree'.kind = "mixed"]_vars
  BY StartableStep
<1> QED
  BY <1>1, InductiveInvariant, PTL DEF Spec, ProgramStaysStartable

-----------------------------------------------------------------------------
(* Updater implements LiveRevision.                                        *)

(* The tree is behind what was fetched, and that behind the branch.        *)
HeadsInOrder == tree.head <= tree.ref /\ tree.ref <= branch

(* A link to the candidate is a link to a tree, and to a whole one as long *)
(* as it is on trial.                                                      *)
LinkedTreeIsThere ==
  /\ link = "update" => tree.kind \in {"mixed", "clone"}
  /\ OnTrial => tree.kind = "clone"

(* Until the link is moved, previous says so if it is the candidate's.     *)
CandidateIsKnown ==
  /\ pc \in {"clone", "before", "fetch", "reset", "after", "install", "tests",
             "probe", "link", "replace"}
       => (link = "update" => previous = "update")
  /\ pc = "metadata" => link = "update"

LiveInv == IInv /\ HeadsInOrder /\ LinkedTreeIsThere /\ CandidateIsKnown

LEMMA HeadsStayInOrder ==
  ASSUME LiveInv, [Next]_vars
  PROVE  HeadsInOrder'
<1> USE DEF LiveInv, HeadsInOrder
<1>1. /\ branch \in Nat /\ tree.head \in Nat /\ tree.ref \in Nat
      /\ tree = [kind |-> tree.kind, head |-> tree.head, ref |-> tree.ref]
  BY UpdaterAssumption DEF IInv, TypeOK, Revisions
<1>2. CASE UNCHANGED <<branch, tree>>
  BY <1>2
<1>3. CASE BeginCheck \/ Clone
  BY <1>1, <1>3 DEF BeginCheck, Clone, remoteVars
<1>7. CASE Fetch \/ Reset
  <2>1. \/ tree' = tree
        \/ tree'.head = tree.head /\ tree'.ref = branch
        \/ tree'.head = tree.ref /\ tree'.ref = tree.ref
    BY <1>1, <1>7 DEF Fetch, Reset
  <2> QED
    BY <1>1, <1>7, <2>1 DEF Fetch, Reset, remoteVars
<1>4. CASE Push
  BY <1>1, <1>4 DEF Push, diskVars
<1>5. CASE Crash
  BY <1>1, <1>5 DEF Crash, CutShort, remoteVars
<1>6. CASE \/ ReadBefore \/ ReadAfter \/ InstallDependencies \/ RunTests
           \/ ProbeStartup \/ BeginSwitch \/ EndSwitch \/ WriteMetadata
           \/ BeginRollback \/ EndRollback \/ Restart
  BY <1>2, <1>6 DEF ReadBefore, ReadAfter, InstallDependencies, RunTests,
       ProbeStartup, BeginSwitch, EndSwitch, WriteMetadata, BeginRollback,
       EndRollback, Restart, remoteVars, diskVars
<1> QED
  BY <1>2, <1>3, <1>4, <1>5, <1>6, <1>7
  DEF Next, CheckAndUpdate, vars, remoteVars, diskVars

LEMMA LinkedTreeStays ==
  ASSUME LiveInv, [Next]_vars
  PROVE  LinkedTreeIsThere'
<1> USE DEF LiveInv, LinkedTreeIsThere
<1>1. tree = [kind |-> tree.kind, head |-> tree.head, ref |-> tree.ref]
  BY DEF IInv, TypeOK
<1>2. CASE UNCHANGED <<link, tree>> /\ (OnTrial' => OnTrial)
  BY <1>2
<1>3. CASE BeginCheck \/ Clone \/ Fetch \/ Reset
  <2>1. ~OnTrial'
    BY <1>3 DEF BeginCheck, Clone, Fetch, Reset, GoTo, End, OnTrial
  <2> QED
    BY <1>1, <1>3, <2>1 DEF BeginCheck, Clone, Fetch, Reset, IInv, TypeOK,
       TreeIsReady
<1>4. CASE EndSwitch
  BY <1>4 DEF EndSwitch, TakePlace, IInv, TreeIsReady
<1>5. CASE EndRollback
  <2>1. ~OnTrial'
    BY <1>5 DEF EndRollback, End, OnTrial
  <2> QED
    BY <1>5, <2>1 DEF EndRollback, TakePlace, IInv, SpareIsRight, LinkIsKept
<1>6. CASE Crash
  <2>1. ~OnTrial'
    BY <1>6 DEF Crash, OnTrial
  <2> QED
    BY <1>1, <1>6, <2>1 DEF Crash, CutShort, IInv, TreeIsReady
<1>7. CASE \/ ReadBefore \/ ReadAfter \/ InstallDependencies \/ RunTests
           \/ ProbeStartup \/ BeginSwitch
  BY <1>2, <1>7 DEF ReadBefore, ReadAfter, InstallDependencies, RunTests,
       ProbeStartup, BeginSwitch, MakeSpare, GoTo, End, diskVars, OnTrial,
       CandidateIsKnown
<1>8. CASE WriteMetadata \/ BeginRollback \/ Push \/ Restart
  BY <1>2, <1>8 DEF WriteMetadata, BeginRollback, MakeSpare, GoTo, End, Push,
       Restart, diskVars, checkVars, OnTrial
<1> QED
  BY <1>2, <1>3, <1>4, <1>5, <1>6, <1>7, <1>8 DEF Next, CheckAndUpdate, vars,
     diskVars, checkVars, OnTrial

LEMMA CandidateStaysKnown ==
  ASSUME LiveInv, [Next]_vars
  PROVE  CandidateIsKnown'
<1> USE DEF LiveInv, CandidateIsKnown
<1>1. CASE BeginCheck
  BY <1>1, UpdaterAssumption DEF BeginCheck, CurrentTarget, Places
<1>2. CASE EndSwitch
  BY <1>2 DEF EndSwitch, TakePlace, GoTo, IInv, SpareIsRight
<1>3. CASE \/ Clone \/ ReadBefore \/ Fetch \/ Reset \/ ReadAfter
           \/ InstallDependencies \/ RunTests \/ ProbeStartup
  BY <1>3 DEF Clone, ReadBefore, Fetch, Reset, ReadAfter, GoTo, End,
       InstallDependencies, RunTests, ProbeStartup, diskVars
<1>4. CASE \/ BeginSwitch \/ WriteMetadata \/ BeginRollback \/ EndRollback
           \/ Push \/ Crash \/ Restart
  BY <1>4 DEF BeginSwitch, MakeSpare, WriteMetadata, BeginRollback,
       EndRollback, GoTo, End, Push, Crash, Restart, diskVars, checkVars
<1>5. CASE UNCHANGED vars
  BY <1>5 DEF vars, diskVars, checkVars
<1> QED
  BY <1>1, <1>2, <1>3, <1>4, <1>5 DEF Next, CheckAndUpdate

LEMMA LiveInvariant == Spec => []LiveInv
<1>1. Init => HeadsInOrder /\ LinkedTreeIsThere /\ CandidateIsKnown
  <2> SUFFICES ASSUME Init
               PROVE  HeadsInOrder /\ LinkedTreeIsThere /\ CandidateIsKnown
    OBVIOUS
  <2>1. link # "update"
    BY UpdaterAssumption DEF Init, Places
  <2> QED
    BY <2>1 DEF Init, HeadsInOrder, LinkedTreeIsThere, OnTrial,
         CandidateIsKnown
<1>2. IInv /\ HeadsInOrder /\ LinkedTreeIsThere /\ CandidateIsKnown
        /\ [Next]_vars
      => HeadsInOrder' /\ LinkedTreeIsThere' /\ CandidateIsKnown'
  BY HeadsStayInOrder, LinkedTreeStays, CandidateStaysKnown DEF LiveInv
<1> QED
  BY <1>1, <1>2, InductiveInvariant, PTL DEF Spec, LiveInv

-----------------------------------------------------------------------------
(* The steps of Updater are steps of LiveRevision.                         *)

(* What LiveRevision sees, but for the trial.                              *)
seen == <<branch, sound, Running, LinkedRevision, Torn>>

LEMMA LiveInitially == Init => Live!Init
BY UpdaterAssumption
DEF Init, Live!Init, Running, LinkedRevision, Torn, OnTrial, Places

(* Steps that leave the link and the tree behind it as they are: at most   *)
(* the trial is over.                                                      *)
LEMMA QuietSteps ==
  ASSUME LiveInv, UNCHANGED <<branch, sound, link>>,
         UNCHANGED tree \/ link # "update",
         OnTrial' => OnTrial
  PROVE  [Live!Next]_(Live!vars)
<1>1. UNCHANGED seen
  BY DEF seen, Running, LinkedRevision, Torn
<1>2. OnTrial \in BOOLEAN /\ OnTrial' \in BOOLEAN
  BY DEF OnTrial
<1>3. CASE OnTrial /\ ~OnTrial'
  <2>1. Live!Keep /\ UNCHANGED <<branch, sound>>
    BY <1>1, <1>2, <1>3 DEF Live!Keep, seen
  <2> QED
    BY <2>1 DEF Live!Next, Live!Change
<1>4. CASE OnTrial' = OnTrial
  BY <1>1, <1>4 DEF Live!vars, seen
<1> QED
  BY <1>2, <1>3, <1>4

LEMMA PushIsLive == LiveInv /\ Push => Live!Next
BY DEF Push, diskVars, checkVars, Live!Next, Live!Push, Running,
   LinkedRevision, Torn, OnTrial

(* check_and_update up to the switch moves nothing but a tree in place.    *)
LEMMA UpToSwitch ==
  ASSUME LiveInv,
         \/ BeginCheck \/ Clone \/ ReadBefore \/ Fetch \/ ReadAfter
         \/ InstallDependencies \/ RunTests \/ ProbeStartup \/ BeginSwitch
  PROVE  [Live!Next]_(Live!vars)
<1> USE DEF LiveInv
<1>1. ~OnTrial /\ ~OnTrial'
  <2>1. CASE \/ BeginCheck \/ Clone \/ ReadBefore \/ Fetch \/ ReadAfter
    BY <2>1 DEF BeginCheck, Clone, ReadBefore, Fetch, ReadAfter, GoTo, End,
         OnTrial
  <2>2. CASE \/ InstallDependencies \/ RunTests \/ ProbeStartup
             \/ BeginSwitch
    BY <2>2 DEF InstallDependencies, RunTests, ProbeStartup, BeginSwitch,
         MakeSpare, GoTo, OnTrial, CandidateIsKnown, diskVars
  <2> QED
    BY <2>1, <2>2
<1>2. CASE Fetch
  <2>1. /\ UNCHANGED <<branch, sound, link>>
        /\ tree'.kind = tree.kind /\ tree'.head = tree.head
    BY <1>2 DEF Fetch, remoteVars, IInv, TypeOK
  <2>2. OnTrial' = OnTrial
    BY <1>1 DEF OnTrial
  <2> QED
    BY <2>1, <2>2 DEF Live!vars, Running, LinkedRevision, Torn
<1>3. CASE BeginCheck \/ Clone
  BY <1>1, <1>3, QuietSteps DEF BeginCheck, Clone, remoteVars, IInv,
     TreeIsReady, LinkedTreeIsThere
<1>4. CASE \/ ReadBefore \/ ReadAfter \/ InstallDependencies \/ RunTests
           \/ ProbeStartup \/ BeginSwitch
  BY <1>1, <1>4, QuietSteps DEF ReadBefore, ReadAfter, InstallDependencies,
     RunTests, ProbeStartup, BeginSwitch, MakeSpare, remoteVars, diskVars
<1> QED
  BY <1>2, <1>3, <1>4

(* The reset of a candidate that is live follows the branch in place.      *)
LEMMA ResetFollows ==
  ASSUME LiveInv, Reset
  PROVE  [Live!Next]_(Live!vars)
<1> USE DEF LiveInv
<1>1. /\ ~OnTrial /\ ~OnTrial'
      /\ UNCHANGED <<branch, sound, link>>
  BY DEF Reset, GoTo, End, OnTrial, remoteVars
<1>2. CASE link # "update" \/ UNCHANGED tree
  BY <1>1, <1>2, QuietSteps
<1>3. CASE link = "update" /\ ~UNCHANGED tree
  <2>1. tree'.kind = "clone" /\ tree'.head = tree.ref
    BY <1>3 DEF Reset, IInv, TypeOK
  <2>2. /\ Running = "candidate" /\ Running' = "candidate"
        /\ LinkedRevision = tree.head /\ LinkedRevision' = tree.ref
        /\ Torn' = FALSE
    BY <1>1, <1>3, <2>1 DEF Running, LinkedRevision, Torn
  <2>3. OnTrial' = OnTrial
    BY <1>1 DEF OnTrial
  <2>4. Live!Follow
    BY <1>1, <2>2, <2>3 DEF Live!Follow, Live!InPlace, HeadsInOrder
  <2> QED
    BY <1>1, <2>4 DEF Live!Next, Live!Change
<1> QED
  BY <1>2, <1>3

LEMMA SwitchAdopts ==
  ASSUME LiveInv, EndSwitch
  PROVE  [Live!Next]_(Live!vars)
<1> USE DEF LiveInv
<1>1. /\ UNCHANGED <<branch, sound, tree, previous>>
      /\ tree.kind = "clone" /\ tree.head \in sound
      /\ tree.head <= branch
  <2>1. tree.head \in Nat /\ tree.ref \in Nat /\ branch \in Nat
    BY UpdaterAssumption DEF IInv, TypeOK, Revisions
  <2> QED
    BY <2>1 DEF EndSwitch, TakePlace, GoTo, remoteVars, IInv, TreeIsReady,
       CandidateHasPassed, HeadsInOrder
<1>2. CASE link' = link
  <2>1. ~OnTrial'
    BY <1>2 DEF EndSwitch, GoTo, OnTrial, CandidateIsKnown
  <2> QED
    BY <1>1, <1>2, <2>1, QuietSteps
<1>3. CASE link' # link
  <2>1. link' = "update" /\ link # "update" /\ pc' = "metadata"
    BY <1>3 DEF EndSwitch, TakePlace, GoTo, IInv, SpareIsRight
  <2>2. previous' # "update"
    BY <1>1, <2>1 DEF IInv, LinkIsKept
  <2>3. OnTrial' = TRUE
    BY <2>1, <2>2 DEF OnTrial
  <2>4. /\ Running # "candidate" /\ Running' = "candidate"
        /\ LinkedRevision' = tree.head /\ Torn' = FALSE
    BY <1>1, <2>1 DEF Running, LinkedRevision, Torn
  <2>5. Live!Adopt
    BY <1>1, <2>3, <2>4 DEF Live!Adopt
  <2> QED
    BY <1>1, <2>5 DEF Live!Next, Live!Change
<1> QED
  BY <1>2, <1>3

(* What follows the switch ends the trial, and may take the candidate back.*)
LEMMA RollbackTakesBack ==
  ASSUME LiveInv, EndRollback
  PROVE  [Live!Next]_(Live!vars)
<1> USE DEF LiveInv
<1>1. UNCHANGED <<branch, sound, tree>> /\ ~OnTrial'
  BY DEF EndRollback, TakePlace, End, OnTrial, remoteVars
<1>2. CASE link' = link
  BY <1>1, <1>2, QuietSteps
<1>3. CASE link' # link
  <2>1. link' = previous /\ pc = "restore" /\ previous # None
    BY <1>3 DEF EndRollback, TakePlace, End, IInv, SpareIsRight
  <2>2. link' = "current"
    BY <1>3, <2>1 DEF IInv, LinkIsKept, TypeOK, Places
  <2>3. OnTrial' = FALSE /\ Torn' = FALSE
    BY <1>1, <2>2 DEF OnTrial, Torn
  <2>4. Live!RunInstalled
    BY <2>2, <2>3 DEF Live!RunInstalled, Running, LinkedRevision
  <2>5. CASE link = "update"
    <3>1. OnTrial
      BY <1>3, <2>1, <2>2, <2>5 DEF OnTrial
    <3>2. Torn = FALSE
      BY <3>1 DEF Torn, LinkedTreeIsThere
    <3> QED
      BY <1>1, <2>3, <2>4, <3>1, <3>2 DEF Live!TakeBack, Live!Next,
         Live!Change
  <2>6. CASE link # "update"
    <3>1. Running = "nothing" /\ Torn = FALSE
      BY <1>3, <2>2, <2>6 DEF Running, Torn
    <3> QED
      BY <1>1, <2>3, <2>4, <3>1 DEF Live!Install, Live!Next, Live!Change
  <2> QED
    BY <2>5, <2>6
<1> QED
  BY <1>2, <1>3

LEMMA AfterSwitch ==
  ASSUME LiveInv, WriteMetadata \/ BeginRollback \/ Restart
  PROVE  [Live!Next]_(Live!vars)
<1>1. UNCHANGED <<branch, sound, link, tree>>
  BY DEF WriteMetadata, BeginRollback, MakeSpare, Restart, remoteVars, diskVars
<1>2. OnTrial' => OnTrial
  BY DEF WriteMetadata, BeginRollback, MakeSpare, GoTo, End, Restart, OnTrial,
     diskVars
<1> QED
  BY <1>1, <1>2, QuietSteps

(* The death of the process ends a trial, or tears a live tree.            *)
LEMMA CrashTears ==
  ASSUME LiveInv, Crash
  PROVE  [Live!Next]_(Live!vars)
<1> USE DEF LiveInv
<1>1. UNCHANGED <<branch, sound, link>> /\ ~OnTrial'
  BY DEF Crash, OnTrial, remoteVars
<1>2. CASE link # "update" \/ UNCHANGED tree
  BY <1>1, <1>2, QuietSteps
<1>3. CASE link = "update" /\ ~UNCHANGED tree
  <2>1. /\ pc = "reset"
        /\ tree'.kind = "mixed" /\ tree'.head = tree.head
    BY <1>3 DEF Crash, CutShort, IInv, TypeOK, TreeIsReady, LinkedTreeIsThere
  <2>2. /\ Running = "candidate" /\ Running' = "candidate"
        /\ LinkedRevision' = LinkedRevision
        /\ Torn' = TRUE
    BY <1>1, <1>3, <2>1 DEF Running, LinkedRevision, Torn
  <2>3. ~OnTrial /\ OnTrial' = OnTrial
    BY <1>1, <2>1 DEF OnTrial
  <2>4. Live!Tear
    BY <2>2, <2>3 DEF Live!Tear, Live!InPlace
  <2> QED
    BY <1>1, <2>4 DEF Live!Next, Live!Change
<1> QED
  BY <1>2, <1>3

(* Updater implements LiveRevision: whichever commands and system calls    *)
(* fail, and wherever the process dies, a candidate goes live only sound,  *)
(* is taken back only by the check that made it live, and follows the      *)
(* branch from then on.                                                    *)
THEOREM LiveIsImplemented == Spec => LiveImplemented
<1>1. LiveInv /\ [Next]_vars => [Live!Next]_(Live!vars)
  <2> SUFFICES ASSUME LiveInv, [Next]_vars
               PROVE  [Live!Next]_(Live!vars)
    OBVIOUS
  <2>1. CASE UNCHANGED vars
    BY <2>1 DEF vars, remoteVars, diskVars, checkVars, Live!vars, Running,
       LinkedRevision, Torn, OnTrial
  <2> QED
    BY <2>1, PushIsLive, UpToSwitch, ResetFollows, SwitchAdopts,
       RollbackTakesBack, AfterSwitch, CrashTears
    DEF Next, CheckAndUpdate
<1> QED
  BY <1>1, LiveInitially, LiveInvariant, PTL DEF Spec, LiveImplemented,
     Live!Spec
=============================================================================
