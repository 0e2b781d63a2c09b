---------------------------- MODULE TaskRuntime ----------------------------
(***************************************************************************)
(* The life of Caine's tasks from submission to their last status, across  *)
(* cycles of the Brain, graceful stops, crashes and restarts.  It composes *)
(* the planner and the memory store with the parts of Brain.run_once,      *)
(* run_forever and _shutdown that touch tasks, with Critic, the executor's *)
(* verdict, and StartupManager.                                            *)
(*                                                                         *)
(* The program is one asyncio task.  pc is the await it is about to make:  *)
(* a step of the model runs from one await of a store or handler operation *)
(* to the next, so a crash or a signal can fall between any two of them.   *)
(***************************************************************************)
EXTENDS Planner

CONSTANTS
  Observations,           (* what the observer may report                   *)
  MaxConsecutiveFailures, (* runtime.max_consecutive_failures               *)
  CycleFaults,            (* whether the rest of a cycle may raise          *)
  Crashes,                (* whether the process may die without a stop     *)
  MaxTime,                (* bound: the last instant of the clock           *)
  MaxEpochs               (* bound: how many times the process is started   *)

ASSUME RuntimeAssumption ==
  /\ Observations \subseteq [internet : BOOLEAN, diskFull : BOOLEAN]
  /\ MaxConsecutiveFailures \in Nat
  /\ CycleFaults \in BOOLEAN
  /\ Crashes \in BOOLEAN
  /\ MaxTime \in Nat
  /\ MaxEpochs \in Nat
  /\ None \notin [id : Ids, task : Task]

VARIABLES
  pc,                 (* the next await of the process, or "down"           *)
  current,            (* the popped task: None or [id, task]                *)
  success,            (* ExecutionResult.success of the current task        *)
  failures,           (* Critic._consecutive_failures                       *)
  requested,          (* ShutdownManager.requested                          *)
  clock,              (* the present instant                                *)
  epoch               (* how many times the process has been started        *)

brainVars == <<current, success, failures>>
envVars == <<clock, epoch>>
vars == <<storeVars, plannerVars, pc, brainVars, requested, envVars>>

Stages ==
  {"down", "idle", "plan", "next", "execute", "record", "settle", "repeat",
   "tick", "checkpoint", "error", "finalCheckpoint"}

Init ==
  /\ StoreInit
  /\ PlannerInit
  /\ pc = "down"
  /\ current = None
  /\ success = FALSE
  /\ failures = 0
  /\ requested = FALSE
  /\ clock = 0
  /\ epoch = 0

(* A store operation that raises ends the cycle in run_forever's handler.  *)
GoOn(commit, stage) == pc' = IF commit THEN stage ELSE "error"

(* So does whatever else a cycle runs: the observer, the reasoning, the    *)
(* plugins' ticks and the jobs.  (Handlers do not: the executor catches    *)
(* what they raise.)  FALSE when one of them, or a save of theirs, raises. *)
Returns == IF StoreFaults \/ CycleFaults THEN BOOLEAN ELSE {TRUE}

-----------------------------------------------------------------------------
(* Starting, and losing, the process's memory.                             *)

(* main(): load_checkpoint, then restore.  With an unreadable checkpoint   *)
(* the process exits again having changed nothing, which is no step.       *)
Start ==
  /\ pc = "down"
  /\ epoch < MaxEpochs
  /\ CheckpointReadable
  /\ Restore
  /\ pc' = "idle"
  /\ epoch' = epoch + 1
  /\ UNCHANGED <<storeVars, nextId, original, successor, brainVars,
                 requested, clock>>

LoseMemory ==
  /\ queue' = EmptyBoard
  /\ completed' = {}
  /\ current' = None
  /\ success' = FALSE
  /\ failures' = 0
  /\ requested' = FALSE
  /\ pc' = "down"
  /\ UNCHANGED <<nextId, original, successor, envVars>>

(* The death of the process, or a stop that a plugin cuts off before its   *)
(* checkpoint, by what it raises in on_stop.                               *)
Crash ==
  /\ Crashes
  /\ pc # "down"
  /\ LoseMemory
  /\ UNCHANGED storeVars

-----------------------------------------------------------------------------
(* The handler remembers the error before the loop goes round again; when  *)
(* that save raises too, nothing catches it and the process ends, without  *)
(* a cleanup.                                                              *)
RetryWithoutTest ==      (* Slip: the cycle is repeated inside the handler. *)
  /\ pc = "error"
  /\ pc' = "plan"
  /\ UNCHANGED <<storeVars, plannerVars, brainVars, requested, envVars>>

LogError ==
  /\ pc = "error"
  /\ pc' = "idle"
  /\ UNCHANGED <<storeVars, plannerVars, brainVars, requested, envVars>>

DieInHandler ==
  /\ pc = "error"
  /\ FALSE \in Commits
  /\ LoseMemory
  /\ UNCHANGED storeVars

-----------------------------------------------------------------------------
(* One cycle: run_forever's test of the loop, then run_once up to its      *)
(* decision: an observation, the save of the observed state, and           *)
(* reasoning.decide, which may raise as well as that save.                 *)

BeginCycle ==
  /\ pc = "idle"
  /\ ~requested
  /\ \E returned \in Returns : GoOn(returned, "plan")
  /\ UNCHANGED <<storeVars, plannerVars, brainVars, requested, envVars>>

ShouldPause == failures >= MaxConsecutiveFailures

(* The critic is pausing: no goal, no new task.  The brain's other flag,   *)
(* accepting_new_tasks, is cleared only after the last cycle.              *)
SkipPlanning ==
  /\ pc = "plan"
  /\ ShouldPause
  /\ pc' = "next"
  /\ UNCHANGED <<storeVars, plannerVars, brainVars, requested, envVars>>

(* A goal is chosen and saved; the queue already holds something, so       *)
(* ensure_tasks_for_goal returns, or save_goal itself raised.  (Bound:     *)
(* when no uuid is left, nothing is added to an empty queue either.)       *)
PlanOnly ==
  /\ pc = "plan"
  /\ ~ShouldPause
  /\ \E commit \in Commits :
       /\ commit => Queued # {} \/ nextId \notin Ids
       /\ GoOn(commit, "next")
  /\ UNCHANGED <<storeVars, plannerVars, brainVars, requested, envVars>>

(* A goal is chosen and the queue is empty: a system check is added.       *)
PlanSystemCheck ==
  /\ pc = "plan"
  /\ ~ShouldPause
  /\ Queued = {}
  /\ \E o \in Observations, commit \in Commits :
       /\ AddTask(SystemCheck(GoalPriority(o.internet, o.diskFull), clock),
                  commit)
       /\ GoOn(commit, "next")
  /\ UNCHANGED <<experiences, file, completed, successor, brainVars,
                 requested, envVars>>

NextTask ==
  /\ pc = "next"
  /\ \E i \in Queued, commit \in Commits :
       /\ PopTask(i, clock, commit)
       /\ current' = IF commit THEN [id |-> i, task |-> Started(i)] ELSE None
       /\ GoOn(commit, "execute")
  /\ UNCHANGED <<experiences, file, completed, nextId, original, successor,
                 success, failures, requested, envVars>>

NoTask ==
  /\ pc = "next"
  /\ PopNothing(clock)
  /\ pc' = "tick"
  /\ UNCHANGED <<storeVars, completed, nextId, original, successor,
                 brainVars, requested, envVars>>

(* The handler returns; an exception in it, or the lack of a handler,      *)
(* counts as a failed result.                                              *)
Execute ==
  /\ pc = "execute"
  /\ success' \in BOOLEAN
  /\ pc' = "record"
  /\ UNCHANGED <<storeVars, plannerVars, current, failures,
                 requested, envVars>>

(* Slip: a failure to record the experience is swallowed.                  *)
RecordQuietly ==
  /\ pc = "record"
  /\ failures' = IF success THEN 0 ELSE failures + 1
  /\ \E commit \in Commits : RecordExperience(current.id, success, commit)
  /\ pc' = "settle"
  /\ UNCHANGED <<rows, file, plannerVars, current, success, requested,
                 envVars>>

(* Critic.evaluate, then record_experience.                                *)
Record ==
  /\ pc = "record"
  /\ failures' = IF success THEN 0 ELSE failures + 1
  /\ \E commit \in Commits :
       /\ RecordExperience(current.id, success, commit)
       /\ current' = IF commit THEN current ELSE None
       /\ GoOn(commit, "settle")
  /\ UNCHANGED <<rows, file, plannerVars, success, requested,
                 envVars>>

(* Slip: nothing recurs while a stop is under way.                         *)
SucceedUnlessStopping ==
  /\ pc = "settle"
  /\ success
  /\ \E commit \in Commits :
       LET repeats == commit /\ current.task.repeat # None /\ ~requested
       IN /\ CompleteTask(current.id, current.task, commit)
          /\ current' = IF repeats THEN current ELSE None
          /\ GoOn(commit, IF repeats THEN "repeat" ELSE "tick")
  /\ UNCHANGED <<experiences, file, queue, nextId, original, successor,
                 success, failures, requested, envVars>>

Succeed ==
  /\ pc = "settle"
  /\ success
  /\ \E commit \in Commits :
       LET repeats == commit /\ current.task.repeat # None
       IN /\ CompleteTask(current.id, current.task, commit)
          /\ current' = IF repeats THEN current ELSE None
          /\ GoOn(commit, IF repeats THEN "repeat" ELSE "tick")
  /\ UNCHANGED <<experiences, file, queue, nextId, original, successor,
                 success, failures, requested, envVars>>

Requeue ==
  /\ pc = "settle"
  /\ ~success
  /\ \E commit \in Commits :
       /\ RequeueTask(current.id, current.task, commit)
       /\ GoOn(commit, "tick")
  /\ current' = None
  /\ UNCHANGED <<experiences, file, completed, nextId, original, successor,
                 success, failures, requested, envVars>>

Fail ==
  /\ pc = "settle"
  /\ ~success
  /\ \E commit \in Commits :
       /\ FailTask(current.id, current.task, commit)
       /\ GoOn(commit, "tick")
  /\ current' = None
  /\ UNCHANGED <<experiences, file, plannerVars, success, failures,
                 requested, envVars>>

Repeat ==
  /\ pc = "repeat"
  /\ \E commit \in Commits :
       /\ AddRecurrence(current.id, current.task, clock, commit)
       /\ GoOn(commit, "tick")
  /\ current' = None
  /\ UNCHANGED <<experiences, file, completed, success, failures,
                 requested, envVars>>

-----------------------------------------------------------------------------
(* The end of a cycle: plugins and periodic jobs.                          *)

(* The checkpoint is not due, or a hook or job before it raises; the other *)
(* jobs save their findings, and the bus is drained.                       *)
CheckpointNotDue ==
  /\ pc = "tick"
  /\ \E returned \in Returns : GoOn(returned, "idle")
  /\ UNCHANGED <<storeVars, plannerVars, brainVars, requested, envVars>>

BeginCheckpoint ==
  /\ pc = "tick"
  /\ TruncateCheckpoint
  /\ pc' = "checkpoint"
  /\ UNCHANGED <<rows, experiences, plannerVars, brainVars, requested,
                 envVars>>

(* The whole file is followed by a save of its contents as a memory, and   *)
(* by the jobs that come after the checkpoint's.                           *)
EndCheckpoint ==
  /\ pc = "checkpoint"
  /\ \E written \in Commits, returned \in Returns :
       /\ WriteCheckpoint(queue, written)
       /\ GoOn(written /\ returned, "idle")
  /\ UNCHANGED <<rows, experiences, plannerVars, brainVars, requested,
                 envVars>>

-----------------------------------------------------------------------------
(* The graceful stop: the loop's test fails, and cleanup runs _shutdown.   *)

RequestShutdown ==
  /\ pc # "down"
  /\ ~requested
  /\ requested' = TRUE
  /\ UNCHANGED <<storeVars, plannerVars, pc, brainVars, envVars>>

(* _shutdown: the wait for active tasks is over at once, since the brain's *)
(* own task is the only one that executes any; then the checkpoint.        *)
BeginFinalCheckpoint ==
  /\ pc = "idle"
  /\ requested
  /\ TruncateCheckpoint
  /\ pc' = "finalCheckpoint"
  /\ UNCHANGED <<rows, experiences, plannerVars, brainVars, requested,
                 envVars>>

(* Remembering the stop comes before the checkpoint: when it raises, the   *)
(* process ends without one.                                               *)
AbortShutdown ==
  /\ pc = "idle"
  /\ requested
  /\ FALSE \in Commits
  /\ LoseMemory
  /\ UNCHANGED storeVars

EndFinalCheckpoint ==
  /\ pc = "finalCheckpoint"
  /\ \E written \in Commits : WriteCheckpoint(queue, written)
  /\ LoseMemory
  /\ UNCHANGED <<rows, experiences>>

-----------------------------------------------------------------------------
(* Clients of the planner and the clock.  A task's handler and a plugin's  *)
(* tick are the points of a cycle where code from outside this repository  *)
(* runs and can call the planner.                                          *)

ClientStage == pc \in {"execute", "tick"}

ClientAdd ==
  /\ ClientStage
  /\ \E p \in Profiles, deps \in SUBSET (DOMAIN original), commit \in Commits :
       AddTask(NewTask(p, deps, clock), commit)
  /\ UNCHANGED <<experiences, file, completed, successor, pc, brainVars,
                 requested, envVars>>

ClientCancel ==
  /\ ClientStage
  /\ \E i \in Queued, commit \in Commits : CancelTask(i, commit)
  /\ UNCHANGED <<experiences, file, completed, nextId, original, successor,
                 pc, brainVars, requested, envVars>>

AdvanceClock ==
  /\ clock < MaxTime
  /\ clock' = clock + 1
  /\ UNCHANGED <<storeVars, plannerVars, pc, brainVars, requested, epoch>>

-----------------------------------------------------------------------------
Cycle ==
  \/ BeginCycle \/ SkipPlanning \/ PlanOnly \/ PlanSystemCheck
  \/ NextTask \/ NoTask \/ Record
  \/ Succeed \/ Requeue \/ Fail \/ Repeat
  \/ LogError \/ DieInHandler \/ EndFinalCheckpoint

(* What the brain does when code from outside this repository comes back:  *)
(* a task's handler, the plugins' hooks and the subscribers, or the jobs.  *)
Outside ==
  \/ Execute \/ CheckpointNotDue \/ BeginCheckpoint \/ EndCheckpoint
  \/ BeginFinalCheckpoint \/ AbortShutdown

Environment ==
  \/ Crash \/ RequestShutdown \/ ClientAdd \/ ClientCancel \/ AdvanceClock

Next == Start \/ Cycle \/ Outside \/ Environment

(* The event loop keeps running the one task it has, systemd restarts the  *)
(* service, and time passes.  Nobody owes a signal, a crash or a request,  *)
(* and no handler or hook owes its return: nothing in the code limits the  *)
(* time it takes.                                                          *)
Fairness == WF_vars(Cycle) /\ WF_vars(Start) /\ WF_vars(AdvanceClock)

Spec == Init /\ [][Next]_vars /\ Fairness
-----------------------------------------------------------------------------
(* Properties.                                                             *)

TypeOK ==
  /\ IsBoard(rows, Row)
  /\ experiences \in [Ids -> [ok : Nat, bad : Nat]]
  /\ file.kind \in {"absent", "torn", "whole"}
  /\ IsBoard(file.tasks, Task)
  /\ IsBoard(queue, Task)
  /\ completed \subseteq Ids
  /\ nextId \in Nat
  /\ IsBoard(original, Task)
  /\ IsBoard(successor, Nat)
  /\ pc \in Stages
  /\ current \in Optional([id : Ids, task : Task])
  /\ success \in BOOLEAN
  /\ failures \in Nat
  /\ requested \in BOOLEAN
  /\ clock \in Nat
  /\ epoch \in Nat

Executions(i) == experiences[i].ok + experiences[i].bad

(* However often the process dies, and whatever save fails, each start of  *)
(* the process grants a task at most its own budget of executions again:   *)
(* a checkpoint may be older than the rows, and give back attempts that    *)
(* were used, but it never does so twice (planner.restore, next_task).     *)
ReexecutionBounded ==
  \A i \in DOMAIN original : Executions(i) <= original[i].maxAttempts * epoch

(* A verdict in the table is backed by an execution on record: succeeded   *)
(* by a success, failed by a failure on the last attempt                   *)
(* (Brain.run_once records the experience before it settles the task).     *)
VerdictIsBacked ==
  \A i \in DOMAIN rows :
    /\ rows[i].status = "succeeded" => experiences[i].ok > 0
    /\ rows[i].status = "failed" =>
         experiences[i].bad > 0 /\ rows[i].attempts = rows[i].maxAttempts

(* The dependencies the planner lets a task run on have all succeeded,     *)
(* though the set of completed ids is rebuilt from the table at each start *)
(* and grows before its save does (complete_successfully).                 *)
CompletedDidSucceed ==
  /\ \A i \in completed : experiences[i].ok > 0
  /\ current # None => \A i \in current.task.deps : experiences[i].ok > 0

(* As long as the store does not fail, no task that the table holds as     *)
(* pending is out of the planner's sight, whatever checkpoint the process  *)
(* was started from (planner.restore merges the two).                      *)
PendingRowsAreQueued == pc # "down" => ListTasks("pending") \subseteq Queued

(* Without crashes and store failures a task is executed no more often     *)
(* than its budget allows, across any number of restarts                   *)
(* (requeue_or_fail, and the checkpoint written by _shutdown).             *)
ExecutionsWithinBudget ==
  \A i \in DOMAIN original : Executions(i) <= original[i].maxAttempts

(* The deadline a task was submitted under is over.  next_task marks the   *)
(* task failed in memory only, and the next start takes it from its row,   *)
(* which holds none of its terms.                                          *)
Missed(i) == original[i].deadline # None /\ original[i].deadline < clock

(* Without crashes and store failures every waiting task keeps the terms   *)
(* it was submitted under, though its row does not hold them: after every  *)
(* graceful stop they are in the checkpoint (_task_to_json).  Not so once  *)
(* its deadline is missed.                                                 *)
TermsAreKept ==
  \A i \in Queued :
    \/ Missed(i)
    \/ /\ queue[i].deps = original[i].deps
       /\ queue[i].notBefore = original[i].notBefore
       /\ queue[i].deadline = original[i].deadline
       /\ queue[i].repeat = original[i].repeat

(* Without crashes and store failures a recurring task that succeeded has  *)
(* its next occurrence in the table as soon as the cycle is past           *)
(* complete_successfully, except one that missed its deadline: it may have *)
(* lost its interval before it ran.                                        *)
RecurrenceContinues ==
  \A i \in DOMAIN rows :
    \/ rows[i].status # "succeeded"
    \/ original[i].repeat = None
    \/ Missed(i)
    \/ pc = "repeat" /\ current.id = i
    \/ i \in DOMAIN successor /\ successor[i] \in DOMAIN rows

(* After a graceful stop the checkpoint has exactly the tasks that the     *)
(* table holds as pending, each with the attempts of its row, and no task  *)
(* is left running in the table (_shutdown, planner.restore).  The two     *)
(* differ in the verdict on a missed deadline, which is never saved.       *)
StopLeavesAgreement ==
  pc = "down" /\ epoch > 0 =>
    /\ file.kind = "whole"
    /\ DOMAIN file.tasks = ListTasks("pending")
    /\ ListTasks("running") = {}
    /\ \A i \in DOMAIN file.tasks :
         /\ file.tasks[i].status = "pending" \/ Missed(i)
         /\ RowOf([file.tasks[i] EXCEPT !.status = "pending"]) = rows[i]

(* Without crashes and store failures a task runs only after every task it *)
(* was submitted to depend on has succeeded, or after its deadline, when   *)
(* its dependencies may be lost (_is_runnable).                            *)
DependenciesRespected ==
  current # None =>
    \/ Missed(current.id)
    \/ \A i \in original[current.id].deps : experiences[i].ok > 0

(* Without crashes and store failures the table behaves as TaskLifecycle.  *)
Lifecycle ==
  INSTANCE TaskLifecycle WITH
    Id <- Ids,
    Budget <- {p.maxAttempts : p \in Profiles} \cup {DefaultMaxAttempts},
    task <- [i \in DOMAIN rows |->
               [status |-> rows[i].status, tries |-> rows[i].attempts,
                budget |-> rows[i].maxAttempts]]

LifecycleImplemented == Lifecycle!Spec

(* Bound: a next occurrence cannot be added when no uuid is left, and the  *)
(* model goes no further.                                                  *)
OutOfIds == pc = "repeat" /\ nextId \notin Ids

(* Tasks with a dependency that will never, or may never, have succeeded.  *)
Blocked ==
  LET blocked[i \in Ids] ==
        /\ i \in DOMAIN original
        /\ \E j \in original[i].deps :
             /\ j < i
             /\ \/ rows[j].status \in {"failed", "cancelled"}
                \/ Missed(j)
                \/ blocked[j]
  IN {i \in Ids : blocked[i]}

(* Handlers and hooks come back often enough, and cycles get far enough,   *)
(* that the planner is asked for a task, or the process ends, for ever.    *)
PlannerIsAsked == []<>(pc \in {"next", "down"})


(* No handler, hook or job keeps the brain for ever.                       *)
OutsideReturns ==
  []<>~( \/ pc \in {"execute", "tick", "checkpoint"}
         \/ pc = "idle" /\ requested )

(* A requested shutdown ends the process, whatever saves fail on the way,  *)
(* unless code from outside never comes back (run_forever, cleanup).       *)
ShutdownCompletes ==
  OutsideReturns => (requested ~> pc = "down" \/ OutOfIds)

-----------------------------------------------------------------------------
(* What the program's comments say of it, and the code does not keep.      *)

(* A crash is followed by a restart.  (store.py: "Persist a crash-recovery *)
(* checkpoint outside the source tree.")                                   *)
CrashIsRecovered == (pc = "down" /\ epoch < MaxEpochs) ~> pc # "down"

(* Planning leaves pending work in the queue.  (ensure_tasks_for_goal:     *)
(* "Create tasks for a goal when no pending work exists.")                 *)
PlanningLeavesWork ==
  [][ pc = "plan" /\ pc' = "next" /\ ~ShouldPause /\ nextId \in Ids
        => \E i \in DOMAIN queue' : queue'[i].status = "pending" ]_vars

(* A running process has every task that the table holds as running in its *)
(* hands or in its queue.  (README: "Восстанавливаться после аварий по     *)
(* последней контрольной точке.")                                          *)
RunningRowsAreInHand ==
  pc # "down" =>
    \A i \in ListTasks("running") :
      \/ i \in Queued
      \/ current # None /\ current.id = i
=============================================================================
