------------------------- MODULE TaskRuntimeProofs -------------------------
(***************************************************************************)
(* Proofs about TaskRuntime, for every value of its constants: with and    *)
(* without crashes, with and without store failures.                       *)
(***************************************************************************)
EXTENDS TaskRuntime, TLAPS

-----------------------------------------------------------------------------
(* Facts about boards and about the task records the planner builds.       *)

(* Storing a record under an id keeps a board a board.                     *)
LEMMA PutKeepsBoard ==
  ASSUME NEW S, NEW f, IsBoard(f, S), NEW i \in Ids, NEW x \in S
  PROVE  IsBoard(Put(f, i, x), S)
BY DEF IsBoard, Put

(* So does forgetting some of its ids.                                     *)
LEMMA RestrictKeepsBoard ==
  ASSUME NEW S, NEW f, IsBoard(f, S), NEW I \in SUBSET DOMAIN f
  PROVE  IsBoard(Restrict(f, I), S)
BY DEF IsBoard, Restrict

(* The board that knows no id is a board of anything.                      *)
LEMMA EmptyIsBoard == ASSUME NEW S PROVE IsBoard(EmptyBoard, S)
BY DEF IsBoard, EmptyBoard

(* Changing the status of a task gives a task.                             *)
LEMMA StatusKeepsTask ==
  ASSUME NEW task \in Task, NEW status \in Statuses
  PROVE  [task EXCEPT !.status = status] \in Task
BY DEF Task

(* A client's choices, with known dependencies, make a task.               *)
LEMMA NewTaskIsTask ==
  ASSUME NEW p \in Profile, NEW deps \in SUBSET Ids, NEW now \in Nat
  PROVE  NewTask(p, deps, now) \in Task
BY DEF NewTask, Profile, Task, Statuses

(* The planner's own system check is a task.                               *)
LEMMA SystemCheckIsTask ==
  ASSUME NEW priority \in Nat, NEW now \in Nat
  PROVE  SystemCheck(priority, now) \in Task
BY TasksAssumption, NewTaskIsTask DEF SystemCheck, Profile, Optional

(* The next occurrence of a recurring task is a task.                      *)
LEMMA RecurrenceIsTask ==
  ASSUME NEW task \in Task, task.repeat # None, NEW now \in Nat
  PROVE  Recurrence(task, now) \in Task
BY TasksAssumption, NewTaskIsTask DEF Recurrence, Profile, Optional, Task

(* What save_task keeps of a task is a row.                                *)
LEMMA RowOfIsRow == ASSUME NEW task \in Task PROVE RowOf(task) \in Row
BY DEF RowOf, Row, Task

(* What list_tasks makes of a row is a task.                               *)
LEMMA TaskOfIsTask == ASSUME NEW row \in Row PROVE TaskOf(row) \in Task
BY DEF TaskOf, Row, Task, Optional

-----------------------------------------------------------------------------
(* The inductive invariant.                                                *)

(* Every id in use was given out by add_task, and whatever names a task    *)
(* names one of these; a popped task is out of the queue until it is       *)
(* settled; and a process that runs has been started.                      *)
Known ==
  /\ DOMAIN original = {i \in Ids : i < nextId}
  /\ DOMAIN rows \subseteq DOMAIN original
  /\ DOMAIN file.tasks \subseteq DOMAIN original
  /\ Queued \subseteq DOMAIN original
  /\ current # None => current.id \in DOMAIN original \ Queued
  /\ pc \in {"execute", "record", "settle", "repeat"} <=> current # None
  /\ pc = "repeat" => current.task.repeat # None
  /\ pc # "down" => epoch > 0
  /\ \A i \in Ids \ DOMAIN original : Executions(i) = 0

(* Rows, checkpoint and queue agree with the task as it was submitted      *)
(* about its budget, and hold it as pending only while some of it is left. *)
Solvent(board) ==
  \A i \in DOMAIN board :
    /\ board[i].maxAttempts = original[i].maxAttempts
    /\ board[i].status = "pending" => board[i].attempts < board[i].maxAttempts

Budgets ==
  /\ Solvent(rows)
  /\ Solvent(file.tasks)
  /\ Solvent(queue)
  /\ current # None =>
       /\ current.task.maxAttempts = original[current.id].maxAttempts
       /\ current.task.attempts <= current.task.maxAttempts

(* What this start of the process may still execute: a waiting task its    *)
(* budget less its attempts, the popped one that and, until its execution  *)
(* is on record, the attempt under way.                                    *)
WaitingWithin ==
  \A i \in Queued :
    Executions(i) + original[i].maxAttempts
      <= original[i].maxAttempts * epoch + queue[i].attempts

PoppedWithin ==
  current # None =>
    Executions(current.id) + original[current.id].maxAttempts
        + (IF pc \in {"execute", "record"} THEN 1 ELSE 0)
      <= original[current.id].maxAttempts * epoch + current.task.attempts

Allowance ==
  /\ ReexecutionBounded
  /\ WaitingWithin
  /\ PoppedWithin

(* The record of the experience comes before the verdict.                  *)
Verdicts ==
  /\ VerdictIsBacked
  /\ CompletedDidSucceed
  /\ pc = "settle" =>
       IF success THEN experiences[current.id].ok > 0
                  ELSE experiences[current.id].bad > 0

IInv == TypeOK /\ Known /\ Budgets /\ Allowance /\ Verdicts

-----------------------------------------------------------------------------
(* Types are preserved.  First the operations of the store and planner.    *)

(* save_task keeps the type of the table.                                  *)
LEMMA SaveKeepsRows ==
  ASSUME IsBoard(rows, Row), NEW i \in Ids, NEW task \in Task, NEW commit,
         SaveTask(i, task, commit)
  PROVE  IsBoard(rows', Row)
BY RowOfIsRow, PutKeepsBoard DEF SaveTask

(* add_task keeps the types of all that it changes.                        *)
LEMMA AddKeepsTypes ==
  ASSUME TypeOK, NEW task \in Task, NEW commit, AddTask(task, commit)
  PROVE  /\ IsBoard(queue', Task) /\ IsBoard(original', Task)
         /\ IsBoard(rows', Row) /\ nextId' \in Nat
BY SaveKeepsRows, PutKeepsBoard DEF AddTask, TypeOK

(* restore builds its queue from tasks.                                    *)
LEMMA RestoredIsBoard ==
  ASSUME NEW saved, IsBoard(saved, Task), IsBoard(rows, Row)
  PROVE  IsBoard(Restored(saved), Task)
BY TaskOfIsTask DEF IsBoard, Restored, ListTasks

(* Marking expired tasks changes no id and no type.                        *)
LEMMA ExpiredIsBoard ==
  ASSUME IsBoard(queue, Task), NEW passed, NEW now
  PROVE  /\ IsBoard(WithExpired(passed, now), Task)
         /\ DOMAIN WithExpired(passed, now) = Queued
BY StatusKeepsTask DEF IsBoard, WithExpired, Queued, Statuses

(* A popped task, one attempt further, is a task.                          *)
LEMMA StartedIsTask ==
  ASSUME IsBoard(queue, Task), NEW i \in Queued PROVE Started(i) \in Task
<1>1. ASSUME NEW task \in Task
      PROVE  [task EXCEPT !.status = "running", !.attempts = @ + 1] \in Task
  <2>1. task.attempts + 1 \in Nat
    BY DEF Task
  <2>2. ASSUME NEW n \in Nat
        PROVE  [task EXCEPT !.status = "running", !.attempts = n] \in Task
    BY DEF Task, Statuses
  <2> QED BY <2>1, <2>2
<1> QED BY <1>1 DEF IsBoard, Queued, Started

(* A process that ends leaves initial values behind.                       *)
LEMMA LoseMemoryKeepsTypes ==
  ASSUME TypeOK, LoseMemory
  PROVE  /\ IsBoard(queue', Task) /\ completed' \subseteq Ids
         /\ nextId' \in Nat /\ IsBoard(original', Task)
         /\ IsBoard(successor', Nat)
         /\ pc' \in Stages /\ current' \in Optional([id : Ids, task : Task])
         /\ success' \in BOOLEAN /\ failures' \in Nat
         /\ requested' \in BOOLEAN /\ clock' \in Nat /\ epoch' \in Nat
BY EmptyIsBoard DEF LoseMemory, TypeOK, Stages, Optional, envVars

(* From next_task to the verdict there is a popped task.                   *)
LEMMA PoppedIsTask ==
  ASSUME TypeOK, Known, pc \in {"execute", "record", "settle", "repeat"}
  PROVE  current # None /\ current.id \in Ids /\ current.task \in Task
BY DEF TypeOK, Known, Optional

(* Every step keeps the types.                                             *)
LEMMA TypeStep ==
  ASSUME TypeOK, Known, [Next]_vars
  PROVE  TypeOK'
<1> USE DEF storeVars, plannerVars, brainVars, envVars
<1>1. CASE Start
  <2>1. IsBoard(Restored(file.tasks), Task)
    BY RestoredIsBoard DEF TypeOK
  <2> QED BY <1>1, <2>1
        DEF Start, Restore, LoadCheckpoint, ListTasks, TypeOK, Stages, IsBoard
<1>2. CASE Crash \/ DieInHandler \/ AbortShutdown
  BY <1>2, LoseMemoryKeepsTypes
     DEF Crash, DieInHandler, AbortShutdown, TypeOK
<1>3. CASE LogError \/ BeginCycle \/ SkipPlanning
  BY <1>3 DEF LogError, BeginCycle, SkipPlanning, GoOn, TypeOK, Stages
<1>4. CASE PlanOnly \/ CheckpointNotDue
  BY <1>4 DEF PlanOnly, CheckpointNotDue, GoOn, TypeOK, Stages
<1>5. CASE RequestShutdown
  BY <1>5 DEF RequestShutdown, TypeOK
<1>6. CASE AdvanceClock
  BY <1>6 DEF AdvanceClock, TypeOK
<1>7. CASE PlanSystemCheck
  <2>1. \A internet, diskFull : GoalPriority(internet, diskFull) \in Nat
    BY DEF GoalPriority
  <2> QED BY <1>7, <2>1, SystemCheckIsTask, AddKeepsTypes
        DEF PlanSystemCheck, GoOn, TypeOK, Stages
<1>8. CASE NextTask
  <2> PICK i \in Queued, commit \in Commits :
        /\ PopTask(i, clock, commit)
        /\ current' = IF commit THEN [id |-> i, task |-> Started(i)] ELSE None
        /\ GoOn(commit, "execute")
    BY <1>8 DEF NextTask
  <2>1. i \in Ids /\ Started(i) \in Task
    BY StartedIsTask DEF TypeOK, IsBoard, Queued
  <2>2. IsBoard(queue', Task)
    BY ExpiredIsBoard, RestrictKeepsBoard DEF PopTask, TypeOK
  <2>3. IsBoard(rows', Row)
    BY <2>1, SaveKeepsRows DEF PopTask, TypeOK
  <2> QED BY <1>8, <2>1, <2>2, <2>3
        DEF NextTask, GoOn, TypeOK, Stages, Optional
<1>9. CASE NoTask
  BY <1>9, ExpiredIsBoard DEF NoTask, PopNothing, TypeOK, Stages
<1>10. CASE Execute
  BY <1>10 DEF Execute, TypeOK, Stages
<1>11. CASE Record
  <2>1. ASSUME NEW i \in Ids, NEW b \in BOOLEAN, NEW commit \in Commits,
               RecordExperience(i, b, commit)
        PROVE  experiences' \in [Ids -> [ok : Nat, bad : Nat]]
    BY <2>1 DEF RecordExperience, TypeOK
  <2> QED BY <1>11, <2>1, PoppedIsTask
        DEF Record, GoOn, TypeOK, Stages, Optional
<1>12. CASE Succeed
  <2>1. [current.task EXCEPT !.status = "succeeded"] \in Task
    BY <1>12, PoppedIsTask, StatusKeepsTask DEF Succeed, Statuses
  <2>2. IsBoard(rows', Row)
    BY <1>12, <2>1, PoppedIsTask, SaveKeepsRows
       DEF Succeed, CompleteTask, TypeOK
  <2> QED BY <1>12, <2>2, PoppedIsTask
        DEF Succeed, CompleteTask, GoOn, TypeOK, Stages, Optional
<1>13. CASE Requeue
  <2>1. [current.task EXCEPT !.status = "pending"] \in Task
    BY <1>13, PoppedIsTask, StatusKeepsTask DEF Requeue, Statuses
  <2>2. IsBoard(rows', Row) /\ IsBoard(queue', Task)
    BY <1>13, <2>1, PoppedIsTask, SaveKeepsRows, PutKeepsBoard
       DEF Requeue, RequeueTask, TypeOK
  <2> QED BY <1>13, <2>2 DEF Requeue, GoOn, TypeOK, Stages, Optional
<1>14. CASE Fail
  <2>1. [current.task EXCEPT !.status = "failed"] \in Task
    BY <1>14, PoppedIsTask, StatusKeepsTask DEF Fail, Statuses
  <2>2. IsBoard(rows', Row)
    BY <1>14, <2>1, PoppedIsTask, SaveKeepsRows DEF Fail, FailTask, TypeOK
  <2> QED BY <1>14, <2>2 DEF Fail, GoOn, TypeOK, Stages, Optional
<1>15. CASE Repeat
  <2> PICK commit \in Commits :
        /\ AddRecurrence(current.id, current.task, clock, commit)
        /\ GoOn(commit, "tick")
    BY <1>15 DEF Repeat
  <2>1. Recurrence(current.task, clock) \in Task
    BY <1>15, PoppedIsTask, RecurrenceIsTask DEF Repeat, Known, TypeOK
  <2>2. IsBoard(successor', Nat)
    BY <1>15, PoppedIsTask, PutKeepsBoard DEF Repeat, AddRecurrence, TypeOK
  <2> QED BY <1>15, <2>1, <2>2, AddKeepsTypes
        DEF Repeat, AddRecurrence, GoOn, TypeOK, Stages, Optional
<1>16. CASE BeginCheckpoint \/ BeginFinalCheckpoint
  BY <1>16, EmptyIsBoard DEF BeginCheckpoint, BeginFinalCheckpoint,
     TruncateCheckpoint, TypeOK, Stages
<1>17. CASE EndCheckpoint
  BY <1>17 DEF EndCheckpoint, WriteCheckpoint, GoOn, TypeOK, Stages
<1>18. CASE EndFinalCheckpoint
  BY <1>18, LoseMemoryKeepsTypes
     DEF EndFinalCheckpoint, WriteCheckpoint, TypeOK
<1>19. CASE ClientAdd
  <2>1. ASSUME NEW p \in Profiles, NEW deps \in SUBSET (DOMAIN original)
        PROVE  NewTask(p, deps, clock) \in Task
    BY TasksAssumption, NewTaskIsTask DEF TypeOK, IsBoard
  <2> QED BY <1>19, <2>1, AddKeepsTypes DEF ClientAdd, TypeOK
<1>20. CASE ClientCancel
  <2> PICK i \in Queued, commit \in Commits : CancelTask(i, commit)
    BY <1>20 DEF ClientCancel
  <2> DEFINE cancelled == [queue[i] EXCEPT !.status = "cancelled"]
  <2>1. i \in Ids /\ cancelled \in Task
    BY StatusKeepsTask DEF TypeOK, IsBoard, Queued, Statuses
  <2>2. IsBoard(rows', Row)
    BY <2>1, SaveKeepsRows DEF CancelTask, TypeOK
  <2>3. IsBoard(queue', Task)
    <3>1. queue' = Restrict(queue, Queued \ {i})
          \/ queue' = [queue EXCEPT ![i] = cancelled]
      BY DEF CancelTask
    <3>2. CASE queue' = [queue EXCEPT ![i] = cancelled]
      BY <2>1, <3>2 DEF IsBoard, TypeOK
    <3> QED BY <3>1, <3>2, RestrictKeepsBoard DEF Queued, TypeOK
  <2> QED BY <1>20, <2>2, <2>3 DEF ClientCancel, TypeOK
<1>21. CASE UNCHANGED vars
  BY <1>21 DEF vars, TypeOK
<1> QED
  BY <1>1, <1>2, <1>3, <1>4, <1>5, <1>6, <1>7, <1>8, <1>9, <1>10, <1>11,
     <1>12, <1>13, <1>14, <1>15, <1>16, <1>17, <1>18, <1>19, <1>20, <1>21
  DEF Next, Cycle, Outside, Environment

-----------------------------------------------------------------------------
(* Who knows which ids.                                                    *)

(* The ids known after storing, forgetting, and at the start.              *)
LEMMA BoardDomains ==
  /\ \A f, i, x : DOMAIN Put(f, i, x) = DOMAIN f \cup {i}
  /\ \A f, I : DOMAIN Restrict(f, I) = I
  /\ DOMAIN EmptyBoard = {}
BY DEF Put, Restrict, EmptyBoard

(* save_task adds no id but the one it saves.                              *)
LEMMA SaveDomain ==
  ASSUME NEW i, NEW task, NEW commit, SaveTask(i, task, commit)
  PROVE  DOMAIN rows' \subseteq DOMAIN rows \cup {i}
BY DEF SaveTask, Put

(* add_task uses the next fresh id and no other.                           *)
LEMMA AddDomains ==
  ASSUME TypeOK, Known, NEW task, NEW commit, AddTask(task, commit)
  PROVE  /\ nextId \in Ids \ DOMAIN original
         /\ DOMAIN original' = DOMAIN original \cup {nextId}
         /\ DOMAIN original' = {i \in Ids : i < nextId'}
         /\ Queued' = Queued \cup {nextId}
         /\ DOMAIN rows' \subseteq DOMAIN rows \cup {nextId}
<1>1. \A i \in Ids : i < nextId + 1 <=> i < nextId \/ i = nextId
  BY DEF TypeOK, Ids
<1>2. DOMAIN original' = DOMAIN original \cup {nextId}
      /\ Queued' = Queued \cup {nextId}
  BY BoardDomains DEF AddTask, Queued
<1>3. DOMAIN rows' \subseteq DOMAIN rows \cup {nextId}
  BY SaveDomain DEF AddTask
<1>4. nextId \in Ids /\ nextId' = nextId + 1
  BY DEF AddTask
<1>5. nextId \notin DOMAIN original
  BY DEF Known, TypeOK
<1>6. DOMAIN original' = {i \in Ids : i < nextId'}
  BY <1>1, <1>2, <1>4 DEF Known
<1> QED BY <1>2, <1>3, <1>4, <1>5, <1>6

(* Losing memory loses no id.                                              *)
LEMMA LoseMemoryKeepsKnown ==
  ASSUME Known, LoseMemory, UNCHANGED <<rows, experiences>>,
         DOMAIN file.tasks' \subseteq DOMAIN original
  PROVE  Known'
BY BoardDomains DEF LoseMemory, Known, Queued, Executions, envVars

(* Every step keeps Known.                                                 *)
LEMMA KnownStep ==
  ASSUME TypeOK, Known, [Next]_vars
  PROVE  Known'
<1> USE DEF storeVars, plannerVars, brainVars, envVars
<1>1. CASE Start
  <2>1. Queued' \subseteq DOMAIN original
    BY <1>1 DEF Start, Restore, Restored, LoadCheckpoint, ListTasks, Known,
                Queued
  <2>2. epoch' > 0
    BY <1>1 DEF Start, TypeOK
  <2> QED BY <1>1, <2>1, <2>2 DEF Start, Known, Queued, Executions
<1>2. CASE Crash \/ DieInHandler \/ AbortShutdown
  BY <1>2, LoseMemoryKeepsKnown
     DEF Crash, DieInHandler, AbortShutdown, Known
<1>3. CASE LogError \/ BeginCycle \/ SkipPlanning
  BY <1>3 DEF LogError, BeginCycle, SkipPlanning, GoOn, Known, Queued,
              Executions
<1>4. CASE PlanOnly \/ CheckpointNotDue
  BY <1>4 DEF PlanOnly, CheckpointNotDue, GoOn, Known, Queued, Executions
<1>5. CASE RequestShutdown \/ AdvanceClock
  BY <1>5 DEF RequestShutdown, AdvanceClock, Known, Queued, Executions
<1>6. CASE PlanSystemCheck
  BY <1>6, AddDomains DEF PlanSystemCheck, GoOn, Known, Executions
<1>7. CASE NextTask
  <2> PICK i \in Queued, commit \in Commits :
        /\ PopTask(i, clock, commit)
        /\ current' = IF commit THEN [id |-> i, task |-> Started(i)] ELSE None
        /\ GoOn(commit, "execute")
    BY <1>7 DEF NextTask
  <2>1. Queued' = Queued \ {i} /\ DOMAIN rows' \subseteq DOMAIN rows \cup {i}
    BY BoardDomains, SaveDomain DEF PopTask, Queued
  <2>2. commit \in BOOLEAN /\ i \in Ids /\ Started(i) \in Task
    BY StartedIsTask DEF Commits, Queued, TypeOK, IsBoard
  <2>3. [id |-> i, task |-> Started(i)] # None
    BY <2>2, RuntimeAssumption
  <2>4. CASE commit
    BY <1>7, <2>1, <2>3, <2>4 DEF NextTask, GoOn, Known, Queued, Executions
  <2>5. CASE ~commit
    BY <1>7, <2>1, <2>5 DEF NextTask, GoOn, Known, Queued, Executions
  <2> QED BY <2>2, <2>4, <2>5
<1>8. CASE NoTask
  BY <1>8, ExpiredIsBoard
     DEF NoTask, PopNothing, Known, Queued, Executions, TypeOK
<1>9. CASE Execute
  BY <1>9 DEF Execute, Known, Queued, Executions
<1>10. CASE Record
  <2>1. ASSUME NEW i \in Ids, i # current.id
        PROVE  Executions(i)' = Executions(i)
    BY <1>10, <2>1, PoppedIsTask
       DEF Record, RecordExperience, Executions, TypeOK
  <2> QED BY <1>10, <2>1 DEF Record, GoOn, Known, Queued
<1>11. CASE Succeed
  BY <1>11, SaveDomain
     DEF Succeed, CompleteTask, GoOn, Known, Queued, Executions
<1>12. CASE Requeue
  <2>1. /\ Queued' \subseteq Queued \cup {current.id}
        /\ DOMAIN rows' \subseteq DOMAIN rows \cup {current.id}
    <3> DEFINE again == [current.task EXCEPT !.status = "pending"]
    <3> PICK commit \in Commits : /\ queue' = Put(queue, current.id, again)
                                 /\ SaveTask(current.id, again, commit)
      BY <1>12 DEF Requeue, RequeueTask
    <3> HIDE DEF again
    <3>1. DOMAIN rows' \subseteq DOMAIN rows \cup {current.id}
      BY SaveDomain
    <3>2. DOMAIN queue' = DOMAIN queue \cup {current.id}
      BY BoardDomains
    <3> QED BY <3>1, <3>2 DEF Queued
  <2> QED BY <1>12, <2>1 DEF Requeue, GoOn, Known, Queued, Executions
<1>13. CASE Fail
  BY <1>13, SaveDomain DEF Fail, FailTask, GoOn, Known, Queued, Executions
<1>14. CASE Repeat
  BY <1>14, AddDomains
     DEF Repeat, AddRecurrence, GoOn, Known, Queued, Executions
<1>15. CASE BeginCheckpoint \/ BeginFinalCheckpoint
  <2>1. DOMAIN file'.tasks = {}
    BY <1>15, BoardDomains
       DEF BeginCheckpoint, BeginFinalCheckpoint, TruncateCheckpoint
  <2> QED BY <1>15, <2>1 DEF BeginCheckpoint, BeginFinalCheckpoint, Known,
                             Queued, Executions
<1>16. CASE EndCheckpoint
  BY <1>16 DEF EndCheckpoint, WriteCheckpoint, GoOn, Known, Queued, Executions
<1>17. CASE EndFinalCheckpoint
  BY <1>17, LoseMemoryKeepsKnown
     DEF EndFinalCheckpoint, WriteCheckpoint, Known, Queued
<1>18. CASE ClientAdd
  BY <1>18, AddDomains DEF ClientAdd, Known, Executions
<1>19. CASE ClientCancel
  <2> PICK i \in Queued, commit \in Commits : CancelTask(i, commit)
    BY <1>19 DEF ClientCancel
  <2>1. /\ Queued' \subseteq Queued
        /\ DOMAIN rows' \subseteq DOMAIN rows \cup {i}
    BY BoardDomains, SaveDomain DEF CancelTask, Queued
  <2> QED BY <1>19, <2>1 DEF ClientCancel, Known, Queued, Executions
<1>20. CASE UNCHANGED vars
  BY <1>20 DEF vars, Known, Queued, Executions
<1> QED
  BY <1>1, <1>2, <1>3, <1>4, <1>5, <1>6, <1>7, <1>8, <1>9, <1>10, <1>11,
     <1>12, <1>13, <1>14, <1>15, <1>16, <1>17, <1>18, <1>19, <1>20
  DEF Next, Cycle, Outside, Environment
-----------------------------------------------------------------------------
(* Budgets are preserved.                                                  *)

(* Changing the status of a task changes nothing else of it.               *)
LEMMA WithStatus ==
  ASSUME NEW task \in Task, NEW status
  PROVE  /\ [task EXCEPT !.status = status].status = status
         /\ [task EXCEPT !.status = status].attempts = task.attempts
         /\ [task EXCEPT !.status = status].maxAttempts = task.maxAttempts
         /\ [task EXCEPT !.status = status].deps = task.deps
BY DEF Task

(* What popping a task changes of it.                                      *)
LEMMA StartedFields ==
  ASSUME IsBoard(queue, Task), NEW i \in Queued
  PROVE  /\ Started(i).status = "running"
         /\ Started(i).maxAttempts = queue[i].maxAttempts
         /\ Started(i).attempts = queue[i].attempts + 1
         /\ Started(i).deps = queue[i].deps
BY DEF IsBoard, Queued, Started, Task

(* Marking expired tasks leaves their counters alone.                      *)
LEMMA ExpiredFields ==
  ASSUME IsBoard(queue, Task), NEW passed, NEW now, NEW i \in Queued
  PROVE  LET e == WithExpired(passed, now)
         IN /\ e[i].maxAttempts = queue[i].maxAttempts
            /\ e[i].attempts = queue[i].attempts
            /\ e[i].status = "pending" => queue[i].status = "pending"
BY WithStatus DEF IsBoard, Queued, WithExpired

(* save_task keeps the table solvent when the task is.                     *)
LEMMA SaveKeepsSolvent ==
  ASSUME Solvent(rows), original' = original,
         NEW i, NEW task, NEW commit \in BOOLEAN, SaveTask(i, task, commit),
         task.maxAttempts = original[i].maxAttempts,
         task.status = "pending" => task.attempts < task.maxAttempts
  PROVE  Solvent(rows)'
BY DEF SaveTask, Put, RowOf, Solvent

(* add_task keeps every board solvent.                                     *)
LEMMA AddKeepsSolvent ==
  ASSUME TypeOK, Known, Solvent(rows), Solvent(file.tasks), Solvent(queue),
         NEW task \in Task, task.status = "pending", task.attempts = 0,
         NEW commit \in BOOLEAN, AddTask(task, commit), file' = file
  PROVE  /\ Solvent(rows)' /\ Solvent(file.tasks)' /\ Solvent(queue)'
         /\ \A i \in DOMAIN original : original'[i] = original[i]
<1>1. \A i \in DOMAIN original : i # nextId /\ original'[i] = original[i]
  BY AddDomains DEF AddTask, Put
<1>2. original'[nextId] = task /\ task.attempts < task.maxAttempts
  BY DEF AddTask, Put, Task
<1>3. Solvent(file.tasks)'
  BY <1>1 DEF Solvent, Known
<1>4. Solvent(queue)'
  BY <1>1, <1>2 DEF Solvent, Known, AddTask, Put, Queued
<1>5. Solvent(rows)'
  <2>1. CASE rows' = rows
    BY <1>1, <2>1 DEF Solvent, Known
  <2>2. CASE rows' = Put(rows, nextId, RowOf(task))
    BY <1>1, <1>2, <2>2 DEF Solvent, Known, RowOf, Put
  <2> QED BY <2>1, <2>2 DEF AddTask, SaveTask
<1> QED BY <1>1, <1>3, <1>4, <1>5

(* A task as its callers build it is pending and untried.                  *)
LEMMA FreshFields ==
  /\ \A p, deps, now : /\ NewTask(p, deps, now).status = "pending"
                       /\ NewTask(p, deps, now).attempts = 0
  /\ \A priority, now : /\ SystemCheck(priority, now).status = "pending"
                        /\ SystemCheck(priority, now).attempts = 0
  /\ \A task, now : /\ Recurrence(task, now).status = "pending"
                    /\ Recurrence(task, now).attempts = 0
BY DEF NewTask, SystemCheck, Recurrence

(* Whoever calls add_task gives it a fresh task.                           *)
Adding == PlanSystemCheck \/ Repeat \/ ClientAdd

(* Whoever adds a task adds a fresh one.                                   *)
LEMMA AddedIsFresh ==
  ASSUME TypeOK, Known, Adding
  PROVE  \E task \in Task, commit \in Commits :
           /\ AddTask(task, commit)
           /\ task.status = "pending" /\ task.attempts = 0
<1>1. CASE PlanSystemCheck
  <2>1. \A internet, diskFull : GoalPriority(internet, diskFull) \in Nat
    BY DEF GoalPriority
  <2> QED BY <1>1, <2>1, SystemCheckIsTask, FreshFields
        DEF PlanSystemCheck, TypeOK
<1>2. CASE Repeat
  BY <1>2, PoppedIsTask, RecurrenceIsTask, FreshFields
     DEF Repeat, AddRecurrence, TypeOK, Known
<1>3. CASE ClientAdd
  BY <1>3, TasksAssumption, NewTaskIsTask, FreshFields
     DEF ClientAdd, TypeOK, IsBoard
<1> QED BY <1>1, <1>2, <1>3 DEF Adding

(* Losing memory keeps what is on disk solvent.                            *)
LEMMA LoseMemoryKeepsBudgets ==
  ASSUME Budgets, LoseMemory, rows' = rows, Solvent(file.tasks)'
  PROVE  Budgets'
BY BoardDomains DEF LoseMemory, Budgets, Solvent

(* A save takes effect or does not.                                        *)
LEMMA CommitsBoolean == Commits \subseteq BOOLEAN
BY DEF Commits

(* Every step keeps Budgets.                                               *)
LEMMA BudgetsStep ==
  ASSUME TypeOK, Known, Budgets, [Next]_vars
  PROVE  Budgets'
<1> USE CommitsBoolean DEF storeVars, plannerVars, brainVars, envVars
<1>1. CASE Start
  <2>1. Solvent(queue)'
    BY <1>1 DEF Start, Restore, Restored, LoadCheckpoint, ListTasks, TaskOf,
                Budgets, Solvent
  <2> QED BY <1>1, <2>1 DEF Start, Budgets, Solvent
<1>2. CASE Crash \/ DieInHandler \/ AbortShutdown
  BY <1>2, LoseMemoryKeepsBudgets
     DEF Crash, DieInHandler, AbortShutdown, LoseMemory, Budgets, Solvent
<1>3. CASE LogError \/ BeginCycle \/ SkipPlanning \/ PlanOnly
           \/ CheckpointNotDue \/ RequestShutdown \/ AdvanceClock \/ Execute
  BY <1>3 DEF LogError, BeginCycle, SkipPlanning, PlanOnly, CheckpointNotDue,
              RequestShutdown, AdvanceClock, Execute, Budgets, Solvent
<1>4. CASE Adding
  <2> PICK task \in Task, commit \in Commits :
        AddTask(task, commit) /\ task.status = "pending" /\ task.attempts = 0
    BY <1>4, AddedIsFresh
  <2>1. file' = file /\ (current' = current \/ current' = None)
    BY <1>4 DEF Adding, PlanSystemCheck, Repeat, ClientAdd
  <2> QED BY <2>1, AddKeepsSolvent DEF Budgets, Known
<1>5. CASE NextTask
  <2> PICK i \in Queued, commit \in Commits :
        /\ PopTask(i, clock, commit)
        /\ current' = IF commit THEN [id |-> i, task |-> Started(i)] ELSE None
        /\ GoOn(commit, "execute")
    BY <1>5 DEF NextTask
  <2>1. /\ Started(i).status = "running"
        /\ Started(i).maxAttempts = queue[i].maxAttempts
        /\ Started(i).attempts = queue[i].attempts + 1
    BY StartedFields DEF TypeOK
  <2>2. queue[i].status = "pending"
    BY DEF PopTask, First, IsRunnable, Runnable, Due
  <2>3. Solvent(queue)'
    BY <1>5, ExpiredFields
       DEF NextTask, PopTask, Restrict, Budgets, Solvent, TypeOK, Queued
  <2>4. Solvent(rows)'
    BY <1>5, <2>1, SaveKeepsSolvent
       DEF NextTask, PopTask, Budgets, Solvent, Queued
  <2>5. commit => /\ current'.id = i
                  /\ current'.task.maxAttempts = original[i].maxAttempts
                  /\ current'.task.attempts <= current'.task.maxAttempts
    <3>1. /\ queue[i].maxAttempts = original[i].maxAttempts
          /\ queue[i].attempts < queue[i].maxAttempts
      BY <2>2 DEF Budgets, Solvent, Queued
    <3>2. queue[i] \in Task
      BY DEF TypeOK, IsBoard, Queued
    <3>3. queue[i].attempts \in Nat /\ queue[i].maxAttempts \in Nat
      BY <3>2 DEF Task
    <3> QED BY <2>1, <3>1, <3>3
  <2> QED BY <1>5, <2>3, <2>4, <2>5 DEF NextTask, Budgets, Solvent
<1>6. CASE NoTask
  BY <1>6, ExpiredFields
     DEF NoTask, PopNothing, WithExpired, Budgets, Solvent, Queued, TypeOK
<1>7. CASE Record
  BY <1>7 DEF Record, Budgets, Solvent
<1>8. CASE Succeed
  <2> DEFINE done == [current.task EXCEPT !.status = "succeeded"]
  <2> PICK commit \in Commits : SaveTask(current.id, done, commit)
    BY <1>8 DEF Succeed, CompleteTask
  <2>1. /\ done.status # "pending"
        /\ done.maxAttempts = original[current.id].maxAttempts
    BY <1>8, PoppedIsTask, WithStatus DEF Succeed, Budgets
  <2> HIDE DEF done
  <2>2. original' = original /\ Solvent(rows)
    BY <1>8 DEF Succeed, Budgets
  <2>3. Solvent(rows)'
    BY <2>1, <2>2, SaveKeepsSolvent
  <2> QED BY <1>8, <2>3 DEF Succeed, Budgets, Solvent
<1>9. CASE Requeue
  <2> DEFINE again == [current.task EXCEPT !.status = "pending"]
  <2> PICK commit \in Commits :
        /\ current.task.attempts < current.task.maxAttempts
        /\ queue' = Put(queue, current.id, again)
        /\ SaveTask(current.id, again, commit)
    BY <1>9 DEF Requeue, RequeueTask
  <2>1. /\ again.maxAttempts = original[current.id].maxAttempts
        /\ again.attempts < again.maxAttempts
    BY <1>9, PoppedIsTask, WithStatus DEF Requeue, Budgets
  <2> HIDE DEF again
  <2>2. Solvent(rows)'
    <3>1. original' = original /\ Solvent(rows)
      BY <1>9 DEF Requeue, Budgets
    <3> QED BY <2>1, <3>1, SaveKeepsSolvent
  <2>3. Solvent(queue)'
    BY <1>9, <2>1 DEF Requeue, Budgets, Solvent, Put
  <2> QED BY <1>9, <2>2, <2>3 DEF Requeue, Budgets, Solvent
<1>10. CASE Fail
  <2> DEFINE failed == [current.task EXCEPT !.status = "failed"]
  <2> PICK commit \in Commits : SaveTask(current.id, failed, commit)
    BY <1>10 DEF Fail, FailTask
  <2>1. /\ failed.status # "pending"
        /\ failed.maxAttempts = original[current.id].maxAttempts
    BY <1>10, PoppedIsTask, WithStatus DEF Fail, Budgets
  <2> HIDE DEF failed
  <2>2. original' = original /\ Solvent(rows)
    BY <1>10 DEF Fail, Budgets
  <2>3. Solvent(rows)'
    BY <2>1, <2>2, SaveKeepsSolvent
  <2> QED BY <1>10, <2>3 DEF Fail, Budgets, Solvent
<1>11. CASE BeginCheckpoint \/ BeginFinalCheckpoint
  <2>1. Solvent(file.tasks)'
    BY <1>11, BoardDomains
       DEF BeginCheckpoint, BeginFinalCheckpoint, TruncateCheckpoint, Solvent
  <2> QED BY <1>11, <2>1
        DEF BeginCheckpoint, BeginFinalCheckpoint, Budgets, Solvent
<1>12. CASE EndCheckpoint
  BY <1>12 DEF EndCheckpoint, WriteCheckpoint, Budgets, Solvent
<1>13. CASE EndFinalCheckpoint
  <2>1. /\ file'.tasks = queue \/ file'.tasks = file.tasks
        /\ original' = original
    BY <1>13 DEF EndFinalCheckpoint, WriteCheckpoint, LoseMemory
  <2>2. Solvent(file.tasks)'
    BY <2>1 DEF Budgets, Solvent
  <2> QED BY <1>13, <2>2, LoseMemoryKeepsBudgets DEF EndFinalCheckpoint
<1>14. CASE ClientCancel
  <2> PICK i \in Queued, commit \in Commits : CancelTask(i, commit)
    BY <1>14 DEF ClientCancel
  <2> DEFINE cancelled == [queue[i] EXCEPT !.status = "cancelled"]
  <2>1. /\ cancelled.status = "cancelled"
        /\ cancelled.maxAttempts = original[i].maxAttempts
    BY WithStatus DEF TypeOK, IsBoard, Queued, Budgets, Solvent
  <2>2. /\ SaveTask(i, cancelled, commit)
        /\ queue' = IF commit THEN Restrict(queue, Queued \ {i})
                              ELSE [queue EXCEPT ![i] = cancelled]
    BY DEF CancelTask
  <2> HIDE DEF cancelled
  <2>3. Solvent(rows)'
    BY <1>14, <2>1, <2>2, SaveKeepsSolvent DEF ClientCancel, Budgets
  <2>4. Solvent(queue)'
    BY <1>14, <2>1, <2>2 DEF ClientCancel, Budgets, Solvent, Restrict, Queued
  <2> QED BY <1>14, <2>3, <2>4 DEF ClientCancel, Budgets, Solvent
<1>15. CASE UNCHANGED vars
  BY <1>15 DEF vars, Budgets, Solvent
<1> QED
  BY <1>1, <1>2, <1>3, <1>4, <1>5, <1>6, <1>7, <1>8, <1>9, <1>10, <1>11,
     <1>12, <1>13, <1>14, <1>15
  DEF Next, Cycle, Outside, Environment, Adding

-----------------------------------------------------------------------------
(* The allowance is preserved.                                             *)

(* One more start grants one more budget.                                  *)
LEMMA OneMoreEpoch ==
  ASSUME NEW m \in Nat, NEW e \in Nat
  PROVE  m * (e + 1) = m * e + m
BY SMT

(* After a start, some budget has been granted.                            *)
LEMMA SomeEpoch ==
  ASSUME NEW m \in Nat, NEW e \in Nat, e > 0
  PROVE  m <= m * e
<1> PICK d \in Nat : e = d + 1
  BY SMT
<1> QED BY OneMoreEpoch, SMT

(* The counters that the allowance adds up are natural numbers.            *)
LEMMA NumbersAreNat ==
  ASSUME TypeOK
  PROVE  /\ \A i \in Ids : /\ experiences[i].ok \in Nat
                           /\ experiences[i].bad \in Nat
                           /\ Executions(i) \in Nat
         /\ \A i \in DOMAIN original :
             i \in Ids /\ original[i].maxAttempts \in Nat
         /\ \A i \in Queued : i \in Ids /\ queue[i].attempts \in Nat
         /\ current # None => /\ current.id \in Ids
                              /\ current.task.attempts \in Nat
         /\ epoch \in Nat
<1>1. \A i \in Ids : experiences[i] \in [ok : Nat, bad : Nat]
  BY DEF TypeOK
<1>2. \A i \in DOMAIN original : i \in Ids /\ original[i] \in Task
  BY DEF TypeOK, IsBoard
<1>3. \A i \in Queued : i \in Ids /\ queue[i] \in Task
  BY DEF TypeOK, IsBoard, Queued
<1>4. current # None => current.id \in Ids /\ current.task \in Task
  BY DEF TypeOK, Optional
<1> QED BY <1>1, <1>2, <1>3, <1>4 DEF TypeOK, Task, Executions

(* add_task grants the new task no more than its budget.                   *)
LEMMA AddKeepsAllowance ==
  ASSUME TypeOK, Known, Allowance, epoch > 0,
         NEW task \in Task, task.attempts = 0, NEW commit,
         AddTask(task, commit), UNCHANGED <<experiences, epoch>>
  PROVE  /\ ReexecutionBounded'
         /\ \A i \in Queued' :
              Executions(i)' + original'[i].maxAttempts
                <= original'[i].maxAttempts * epoch + queue'[i].attempts
         /\ \A i \in DOMAIN original : original'[i] = original[i]
<1>1. \A i \in DOMAIN original :
        i # nextId /\ i \in DOMAIN original' /\ original'[i] = original[i]
  BY AddDomains DEF AddTask, Put
<1>2. /\ original'[nextId] = task /\ queue'[nextId] = task
      /\ task.maxAttempts \in Nat
  BY DEF AddTask, Put, Task
<1>3. \A i : Executions(i)' = Executions(i)
  BY DEF Executions
<1>4. Executions(nextId) = 0
  BY AddDomains DEF Known
<1>5. task.maxAttempts <= task.maxAttempts * epoch
  BY <1>2, SomeEpoch DEF TypeOK
<1>6. \A i \in DOMAIN original' : i \in DOMAIN original \/ i = nextId
  <2>1. DOMAIN original' = DOMAIN original \cup {nextId}
    BY AddDomains
  <2> QED BY <2>1
<1>7. \A i \in Queued' :
        \/ i = nextId
        \/ i \in Queued /\ i \in DOMAIN original /\ queue'[i] = queue[i]
  BY AddDomains DEF AddTask, Put, Known, Queued
<1>8. task.maxAttempts * epoch \in Nat
  BY <1>2 DEF TypeOK
<1>9. ReexecutionBounded'
  <2> SUFFICES ASSUME NEW i \in DOMAIN original'
               PROVE  Executions(i)' <= original'[i].maxAttempts * epoch
    BY DEF ReexecutionBounded
  <2>1. CASE i = nextId
    BY <2>1, <1>2, <1>3, <1>4, <1>8
  <2>2. CASE i # nextId
    BY <2>2, <1>1, <1>3, <1>6
       DEF Allowance, WaitingWithin, PoppedWithin, ReexecutionBounded
  <2> QED BY <2>1, <2>2
<1>10. ASSUME NEW i \in Queued'
       PROVE  Executions(i)' + original'[i].maxAttempts
                <= original'[i].maxAttempts * epoch + queue'[i].attempts
  <2>1. CASE i = nextId
    BY <2>1, <1>2, <1>3, <1>4, <1>5, <1>8
  <2>2. CASE i # nextId
    BY <2>2, <1>1, <1>3, <1>7 DEF Allowance, WaitingWithin, PoppedWithin
  <2> QED BY <2>1, <2>2
<1> QED BY <1>1, <1>9, <1>10

(* Losing memory gives the allowance of this start away.                   *)
LEMMA LoseMemoryKeepsAllowance ==
  ASSUME Allowance, LoseMemory, UNCHANGED experiences
  PROVE  Allowance'
BY BoardDomains
DEF LoseMemory, Allowance, WaitingWithin, PoppedWithin, ReexecutionBounded,
    Executions, Queued, envVars

(* Every step keeps the allowance: an execution is taken from it before it *)
(* is counted.                                                             *)
LEMMA AllowanceStep ==
  ASSUME TypeOK, Known, Budgets, Allowance, [Next]_vars
  PROVE  Allowance'
<1> USE DEF storeVars, plannerVars, brainVars, envVars,
            Allowance, ReexecutionBounded, WaitingWithin, PoppedWithin
<1>1. CASE Start
  <2>1. /\ original' = original /\ epoch' = epoch + 1 /\ current' = None
        /\ \A i : Executions(i)' = Executions(i)
    BY <1>1 DEF Start, Known, Executions
  <2>2. ASSUME NEW i \in DOMAIN original
        PROVE  /\ original[i].maxAttempts \in Nat
               /\ original[i].maxAttempts * epoch \in Nat
               /\ original'[i].maxAttempts * epoch'
                    = original[i].maxAttempts * epoch + original[i].maxAttempts
    BY <2>1, NumbersAreNat, OneMoreEpoch, SMTT(30)
  <2>3. \A i \in Queued' : i \in DOMAIN original /\ queue'[i].attempts \in Nat
    <3>1. IsBoard(queue', Task)
      BY TypeStep DEF TypeOK
    <3>2. Queued' \subseteq DOMAIN original
      BY KnownStep, <2>1 DEF Known
    <3> QED
      BY <3>1, <3>2 DEF IsBoard, Task, Queued
  <2>4. ReexecutionBounded'
    BY <2>1, <2>2, NumbersAreNat DEF TypeOK, IsBoard
  <2>5. ASSUME NEW i \in Queued'
        PROVE  Executions(i)' + original'[i].maxAttempts
                 <= original'[i].maxAttempts * epoch' + queue'[i].attempts
    BY <2>1, <2>2, <2>3, NumbersAreNat
  <2> QED BY <2>1, <2>4, <2>5
<1>2. CASE Crash \/ DieInHandler \/ AbortShutdown \/ EndFinalCheckpoint
  BY <1>2, LoseMemoryKeepsAllowance
     DEF Crash, DieInHandler, AbortShutdown, EndFinalCheckpoint
<1>3. CASE LogError \/ BeginCycle \/ SkipPlanning \/ PlanOnly
  BY <1>3 DEF LogError, BeginCycle, SkipPlanning, PlanOnly, GoOn, Known,
              Executions, Queued
<1>4. CASE CheckpointNotDue \/ RequestShutdown \/ AdvanceClock
  BY <1>4 DEF CheckpointNotDue, RequestShutdown, AdvanceClock, GoOn, Known,
              Executions, Queued
<1>5. CASE BeginCheckpoint \/ BeginFinalCheckpoint \/ EndCheckpoint
  BY <1>5 DEF BeginCheckpoint, BeginFinalCheckpoint, EndCheckpoint, Known,
              Executions, Queued
<1>6. CASE Execute
  BY <1>6 DEF Execute, Executions, Queued
<1>7. CASE NextTask
  <2> PICK i \in Queued, commit \in Commits :
        /\ PopTask(i, clock, commit)
        /\ current' = IF commit THEN [id |-> i, task |-> Started(i)] ELSE None
        /\ GoOn(commit, "execute")
    BY <1>7 DEF NextTask
  <2>1. /\ original' = original /\ epoch' = epoch
        /\ \A j : Executions(j)' = Executions(j)
    BY <1>7 DEF NextTask, Executions
  <2>2. \A j \in Queued' :
          j \in Queued /\ queue'[j].attempts = queue[j].attempts
    BY ExpiredFields DEF PopTask, Restrict, TypeOK, Queued
  <2>3. /\ i \in Ids /\ i \in DOMAIN original /\ queue[i].attempts \in Nat
        /\ original[i].maxAttempts * epoch \in Nat
    BY NumbersAreNat DEF Known
  <2>4. current' # None =>
          /\ current'.id = i /\ current'.task.attempts = queue[i].attempts + 1
          /\ pc' = "execute"
    BY StartedFields DEF GoOn, TypeOK
  <2>5. ReexecutionBounded'
    BY <2>1
  <2>6. \A j \in Queued' :
          Executions(j)' + original'[j].maxAttempts
            <= original'[j].maxAttempts * epoch' + queue'[j].attempts
    BY <2>1, <2>2
  <2>7. current' # None =>
          Executions(i)' + original'[i].maxAttempts + 1
            <= original'[i].maxAttempts * epoch' + current'.task.attempts
    BY <2>1, <2>3, <2>4, NumbersAreNat
  <2> QED BY <2>4, <2>5, <2>6, <2>7
<1>8. CASE NoTask
  BY <1>8, ExpiredFields, ExpiredIsBoard
     DEF NoTask, PopNothing, Known, Executions,
         Queued, TypeOK
<1>9. CASE Record
  <2> PICK c \in Ids : c = current.id
    BY <1>9, PoppedIsTask DEF Record
  <2>1. /\ original' = original /\ epoch' = epoch /\ queue' = queue
        /\ c \in Ids /\ c \in DOMAIN original /\ c \notin Queued
        /\ current # None /\ (current' = current \/ current' = None)
        /\ current' # None => pc' = "settle"
    BY <1>9, PoppedIsTask DEF Record, GoOn, Known
  <2>2. /\ Executions(c)' <= Executions(c) + 1
        /\ Executions(c)' \in Nat
        /\ \A j \in Ids \ {c} : Executions(j)' = Executions(j)
    <3> PICK commit \in Commits : RecordExperience(c, success, commit)
      BY <1>9 DEF Record
    <3>1. experiences[c].ok \in Nat /\ experiences[c].bad \in Nat
      BY <2>1, NumbersAreNat
    <3>2. \A j \in Ids \ {c} : experiences'[j] = experiences[j]
      BY DEF RecordExperience, TypeOK
    <3>3. experiences[c] \in [ok : Nat, bad : Nat]
      BY <2>1 DEF TypeOK
    <3>4. \/ experiences'[c] = experiences[c]
          \/ experiences'[c].ok = experiences[c].ok + 1
             /\ experiences'[c].bad = experiences[c].bad
          \/ experiences'[c].ok = experiences[c].ok
             /\ experiences'[c].bad = experiences[c].bad + 1
      BY <2>1, <3>3 DEF RecordExperience, TypeOK
    <3> QED BY <3>1, <3>2, <3>4 DEF Executions
  <2>3. Executions(c) + original[c].maxAttempts + 1
          <= original[c].maxAttempts * epoch + current.task.attempts
    BY <1>9, <2>1 DEF Record
  <2>4. current.task.attempts <= original[c].maxAttempts
    BY <2>1 DEF Budgets
  <2>5. original[c].maxAttempts * epoch \in Nat
    BY <2>1, NumbersAreNat
  <2>6. Executions(c)' <= original[c].maxAttempts * epoch
    BY <2>1, <2>2, <2>3, <2>4, <2>5, NumbersAreNat
  <2>7. ReexecutionBounded'
    <3> SUFFICES ASSUME NEW j \in DOMAIN original
                 PROVE  Executions(j)' <= original[j].maxAttempts * epoch
      BY <2>1
    <3>1. CASE j = c
      BY <3>1, <2>6
    <3>2. CASE j # c
      BY <3>2, <2>2, NumbersAreNat
    <3> QED BY <3>1, <3>2
  <2>8. \A j \in Queued' :
          Executions(j)' + original'[j].maxAttempts
            <= original'[j].maxAttempts * epoch' + queue'[j].attempts
    BY <2>1, <2>2, NumbersAreNat DEF Queued
  <2>9. Executions(c)' + original[c].maxAttempts
          <= original[c].maxAttempts * epoch + current.task.attempts
    BY <2>1, <2>2, <2>3, <2>5, NumbersAreNat
  <2>10. PoppedWithin'
    <3> SUFFICES ASSUME current' = current, pc' = "settle" PROVE PoppedWithin'
      BY <2>1
    <3>1. Executions(current.id)' = Executions(c)'
      BY <2>1 DEF Executions
    <3>2. original[c].maxAttempts \in Nat
      BY <2>1, NumbersAreNat
    <3>3. Executions(c)' + original[c].maxAttempts + 0
            <= original[c].maxAttempts * epoch + current.task.attempts
      BY <2>2, <2>9, <3>2
    <3> QED BY <2>1, <3>1, <3>3
  <2> QED BY <2>7, <2>8, <2>10
<1>10. CASE Succeed \/ Fail
  BY <1>10 DEF Succeed, CompleteTask, Fail, FailTask, GoOn, Known, Executions,
               Queued
<1>11. CASE Requeue
  <2> DEFINE again == [current.task EXCEPT !.status = "pending"]
  <2>1. /\ original' = original /\ epoch' = epoch /\ current' = None
        /\ queue' = Put(queue, current.id, again)
        /\ current # None /\ pc = "settle" /\ current.id \in DOMAIN original
        /\ \A j : Executions(j)' = Executions(j)
    BY <1>11 DEF Requeue, RequeueTask, Known, Executions
  <2>2. again.attempts = current.task.attempts
    BY <1>11, PoppedIsTask, WithStatus DEF Requeue
  <2> HIDE DEF again
  <2>3. ReexecutionBounded'
    BY <2>1
  <2>4. Executions(current.id) + original[current.id].maxAttempts
          <= original[current.id].maxAttempts * epoch + again.attempts
    BY <2>1, <2>2, NumbersAreNat
  <2>5. ASSUME NEW j \in Queued'
        PROVE  Executions(j)' + original'[j].maxAttempts
                 <= original'[j].maxAttempts * epoch' + queue'[j].attempts
    <3>1. \/ j = current.id /\ queue'[j] = again
          \/ j \in Queued /\ queue'[j] = queue[j]
      BY <2>1 DEF Put, Queued
    <3> QED BY <2>1, <2>4, <3>1
  <2> QED BY <2>1, <2>3, <2>5
<1>12. CASE Adding
  <2> PICK task \in Task, commit \in Commits :
        AddTask(task, commit) /\ task.attempts = 0
    BY <1>12, AddedIsFresh
  <2>1. UNCHANGED <<experiences, epoch>> /\ epoch > 0
    BY <1>12 DEF Adding, PlanSystemCheck, Repeat, ClientAdd, ClientStage, Known
  <2>2. ReexecutionBounded' /\ WaitingWithin'
    BY <2>1, AddKeepsAllowance
  <2>3. CASE ClientAdd
    <3>1. current' = current /\ pc' = pc
      BY <2>3 DEF ClientAdd
    <3>2. \A i : Executions(i)' = Executions(i)
      BY <2>1 DEF Executions
    <3>3. current # None => original'[current.id] = original[current.id]
      BY <2>1, AddKeepsAllowance DEF Known
    <3>4. PoppedWithin'
      BY <2>1, <3>1, <3>2, <3>3
    <3> QED BY <2>2, <3>4
  <2>4. CASE PlanSystemCheck \/ Repeat
    <3>1. current' = None
      BY <2>4 DEF PlanSystemCheck, Repeat, Known
    <3> QED BY <2>2, <3>1
  <2> QED BY <1>12, <2>3, <2>4 DEF Adding
<1>13. CASE ClientCancel
  <2> PICK i \in Queued, commit \in Commits : CancelTask(i, commit)
    BY <1>13 DEF ClientCancel
  <2> DEFINE cancelled == [queue[i] EXCEPT !.status = "cancelled"]
  <2>1. cancelled.attempts = queue[i].attempts
    BY WithStatus DEF TypeOK, IsBoard, Queued
  <2>2. queue' = IF commit THEN Restrict(queue, Queued \ {i})
                           ELSE [queue EXCEPT ![i] = cancelled]
    BY DEF CancelTask
  <2> HIDE DEF cancelled
  <2>3. \A j \in Queued' :
          j \in Queued /\ queue'[j].attempts = queue[j].attempts
    BY <2>1, <2>2 DEF Restrict, Queued
  <2> QED BY <1>13, <2>3
        DEF ClientCancel, Executions
<1>14. CASE UNCHANGED vars
  BY <1>14 DEF vars, Executions, Queued
<1> QED
  BY <1>1, <1>2, <1>3, <1>4, <1>5, <1>6, <1>7, <1>8, <1>9, <1>10, <1>11,
     <1>12, <1>13, <1>14
  DEF Next, Cycle, Outside, Environment, Adding

-----------------------------------------------------------------------------
(* Verdicts stay backed.                                                   *)

(* save_task keeps verdicts backed when the saved one is.                  *)
LEMMA SaveKeepsBacked ==
  ASSUME VerdictIsBacked, experiences' = experiences,
         NEW i, NEW task, NEW commit \in BOOLEAN, SaveTask(i, task, commit),
         task.status = "succeeded" => experiences[i].ok > 0,
         task.status = "failed" => /\ experiences[i].bad > 0
                                   /\ task.attempts = task.maxAttempts
  PROVE  VerdictIsBacked'
BY DEF SaveTask, Put, RowOf, VerdictIsBacked

(* Experiences are never taken back.                                       *)
LEMMA RecordGrows ==
  ASSUME TypeOK, NEW c \in Ids, NEW b \in BOOLEAN, NEW commit \in BOOLEAN,
         RecordExperience(c, b, commit)
  PROVE  /\ \A i \in Ids : /\ experiences[i].ok > 0 => experiences'[i].ok > 0
                           /\ experiences[i].bad > 0 => experiences'[i].bad > 0
         /\ commit => IF b THEN experiences'[c].ok > 0
                           ELSE experiences'[c].bad > 0
<1>1. \A i \in Ids : /\ experiences[i].ok \in Nat /\ experiences[i].bad \in Nat
                     /\ experiences[i] \in [ok : Nat, bad : Nat]
  BY NumbersAreNat DEF TypeOK
<1>2. \A i \in Ids \ {c} : experiences'[i] = experiences[i]
  BY DEF RecordExperience, TypeOK
<1>3. CASE experiences' = experiences
  <2>1. ~commit \/ experiences'[c] # experiences[c]
    <3> SUFFICES ASSUME commit PROVE experiences'[c] # experiences[c]
      OBVIOUS
    <3>1. IF b THEN experiences'[c].ok = experiences[c].ok + 1
               ELSE experiences'[c].bad = experiences[c].bad + 1
      BY <1>1 DEF RecordExperience, TypeOK
    <3> QED BY <1>1, <3>1
  <2> QED BY <1>3, <2>1
<1>4. CASE b /\ experiences' # experiences
  <2>1. /\ experiences'[c].ok = experiences[c].ok + 1
        /\ experiences'[c].bad = experiences[c].bad
    BY <1>1, <1>4 DEF RecordExperience, TypeOK
  <2> QED BY <1>1, <1>2, <1>4, <2>1
<1>5. CASE ~b /\ experiences' # experiences
  <2>1. /\ experiences'[c].bad = experiences[c].bad + 1
        /\ experiences'[c].ok = experiences[c].ok
    BY <1>1, <1>5 DEF RecordExperience, TypeOK
  <2> QED BY <1>1, <1>2, <1>5, <2>1
<1> QED BY <1>3, <1>4, <1>5

(* add_task gives no verdict.                                              *)
LEMMA AddKeepsVerdicts ==
  ASSUME Verdicts, NEW task, task.status = "pending", NEW commit \in BOOLEAN,
         AddTask(task, commit), UNCHANGED <<experiences, completed>>,
         current' = current \/ current' = None, pc' # "settle"
  PROVE  Verdicts'
<1>1. VerdictIsBacked'
  BY SaveKeepsBacked DEF AddTask, Verdicts
<1> QED BY <1>1 DEF Verdicts, CompletedDidSucceed

(* Losing memory keeps the verdicts that are on disk.                      *)
LEMMA LoseMemoryKeepsVerdicts ==
  ASSUME Verdicts, LoseMemory, UNCHANGED <<rows, experiences>>
  PROVE  Verdicts'
BY DEF LoseMemory, Verdicts, VerdictIsBacked, CompletedDidSucceed

(* Every step keeps Verdicts.                                              *)
LEMMA VerdictsStep ==
  ASSUME TypeOK, Known, Budgets, Verdicts, [Next]_vars
  PROVE  Verdicts'
<1> USE CommitsBoolean DEF storeVars, plannerVars, brainVars, envVars
<1>1. CASE Start
  BY <1>1 DEF Start, Restore, ListTasks, Known, Verdicts, VerdictIsBacked,
              CompletedDidSucceed
<1>2. CASE Crash \/ DieInHandler \/ AbortShutdown \/ EndFinalCheckpoint
  BY <1>2, LoseMemoryKeepsVerdicts
     DEF Crash, DieInHandler, AbortShutdown, EndFinalCheckpoint
<1>3. CASE LogError \/ BeginCycle \/ SkipPlanning \/ PlanOnly
           \/ CheckpointNotDue \/ RequestShutdown \/ AdvanceClock
  BY <1>3 DEF LogError, BeginCycle, SkipPlanning, PlanOnly, CheckpointNotDue,
              RequestShutdown, AdvanceClock, GoOn, Verdicts, VerdictIsBacked,
              CompletedDidSucceed
<1>4. CASE BeginCheckpoint \/ BeginFinalCheckpoint \/ EndCheckpoint
  BY <1>4 DEF BeginCheckpoint, BeginFinalCheckpoint, EndCheckpoint, GoOn,
              Verdicts, VerdictIsBacked, CompletedDidSucceed
<1>5. CASE NoTask \/ Execute
  BY <1>5 DEF NoTask, Execute, Verdicts, VerdictIsBacked, CompletedDidSucceed
<1>6. CASE NextTask
  <2> PICK i \in Queued, commit \in Commits :
        /\ PopTask(i, clock, commit)
        /\ current' = IF commit THEN [id |-> i, task |-> Started(i)] ELSE None
        /\ GoOn(commit, "execute")
    BY <1>6 DEF NextTask
  <2>1. VerdictIsBacked'
    <3>1. Started(i).status = "running" /\ experiences' = experiences
      BY <1>6, StartedFields DEF NextTask, TypeOK
    <3>2. SaveTask(i, Started(i), commit)
      BY DEF PopTask
    <3> QED BY <3>1, <3>2, SaveKeepsBacked DEF Verdicts
  <2>2. current' # None => current'.task.deps \subseteq completed
    BY StartedFields DEF PopTask, First, IsRunnable, Runnable, TypeOK
  <2> QED BY <1>6, <2>1, <2>2
        DEF NextTask, GoOn, Verdicts, CompletedDidSucceed
<1>7. CASE Record
  <2> PICK commit \in Commits :
        /\ RecordExperience(current.id, success, commit)
        /\ current' = IF commit THEN current ELSE None
        /\ GoOn(commit, "settle")
    BY <1>7 DEF Record
  <2>1. current # None /\ current.id \in Ids /\ current.task \in Task
    BY <1>7, PoppedIsTask DEF Record
  <2>2. /\ \A i \in Ids : /\ experiences[i].ok > 0 => experiences'[i].ok > 0
                          /\ experiences[i].bad > 0 => experiences'[i].bad > 0
        /\ commit => IF success THEN experiences'[current.id].ok > 0
                                ELSE experiences'[current.id].bad > 0
    BY <2>1, RecordGrows DEF TypeOK
  <2>3. VerdictIsBacked'
    BY <1>7, <2>2 DEF Record, Verdicts, VerdictIsBacked, TypeOK, IsBoard
  <2>4. CompletedDidSucceed'
    BY <1>7, <2>1, <2>2 DEF Record, Verdicts, CompletedDidSucceed, TypeOK, Task
  <2> QED BY <1>7, <2>2, <2>3, <2>4 DEF Record, GoOn, Verdicts
<1>8. CASE Succeed
  <2> DEFINE done == [current.task EXCEPT !.status = "succeeded"]
  <2> PICK commit \in Commits :
        /\ SaveTask(current.id, done, commit)
        /\ completed' = completed \cup {current.id}
    BY <1>8 DEF Succeed, CompleteTask
  <2>1. done.status = "succeeded" /\ experiences[current.id].ok > 0
    BY <1>8, PoppedIsTask, WithStatus DEF Succeed, Verdicts
  <2> HIDE DEF done
  <2>2. VerdictIsBacked'
    BY <1>8, <2>1, SaveKeepsBacked DEF Succeed, Verdicts
  <2> QED BY <1>8, <2>1, <2>2 DEF Succeed, GoOn, Verdicts, CompletedDidSucceed
<1>9. CASE Requeue
  <2> DEFINE again == [current.task EXCEPT !.status = "pending"]
  <2> PICK commit \in Commits : SaveTask(current.id, again, commit)
    BY <1>9 DEF Requeue, RequeueTask
  <2>1. again.status = "pending"
    BY <1>9, PoppedIsTask, WithStatus DEF Requeue
  <2> HIDE DEF again
  <2>2. VerdictIsBacked'
    BY <1>9, <2>1, SaveKeepsBacked DEF Requeue, Verdicts
  <2> QED BY <1>9, <2>2 DEF Requeue, GoOn, Verdicts, CompletedDidSucceed
<1>10. CASE Fail
  <2> DEFINE failed == [current.task EXCEPT !.status = "failed"]
  <2> PICK commit \in Commits :
        /\ SaveTask(current.id, failed, commit)
        /\ current.task.attempts >= current.task.maxAttempts
    BY <1>10 DEF Fail, FailTask
  <2>1. /\ current # None /\ current.task \in Task
        /\ experiences[current.id].bad > 0
    BY <1>10, PoppedIsTask DEF Fail, Verdicts
  <2>2. current.task.attempts = current.task.maxAttempts
    BY <2>1 DEF Budgets, Task
  <2>3. failed.status = "failed" /\ failed.attempts = failed.maxAttempts
    BY <2>1, <2>2, WithStatus
  <2> HIDE DEF failed
  <2>4. VerdictIsBacked'
    BY <1>10, <2>1, <2>3, SaveKeepsBacked DEF Fail, Verdicts
  <2> QED BY <1>10, <2>4 DEF Fail, GoOn, Verdicts, CompletedDidSucceed
<1>11. CASE Adding
  <2> PICK task \in Task, commit \in Commits :
        AddTask(task, commit) /\ task.status = "pending"
    BY <1>11, AddedIsFresh
  <2>1. /\ UNCHANGED <<experiences, completed>> /\ pc' # "settle"
        /\ current' = current \/ current' = None
    BY <1>11
       DEF Adding, PlanSystemCheck, Repeat, ClientAdd, ClientStage, GoOn, Known
  <2> QED BY <2>1, AddKeepsVerdicts
<1>12. CASE ClientCancel
  <2> PICK i \in Queued, commit \in Commits : CancelTask(i, commit)
    BY <1>12 DEF ClientCancel
  <2>1. [queue[i] EXCEPT !.status = "cancelled"].status = "cancelled"
    BY WithStatus DEF TypeOK, IsBoard, Queued
  <2>2. VerdictIsBacked'
    BY <1>12, <2>1, SaveKeepsBacked DEF ClientCancel, CancelTask, Verdicts
  <2> QED BY <1>12, <2>2
        DEF ClientCancel, ClientStage, Verdicts, CompletedDidSucceed
<1>13. CASE UNCHANGED vars
  BY <1>13 DEF vars, Verdicts, VerdictIsBacked, CompletedDidSucceed
<1> QED
  BY <1>1, <1>2, <1>3, <1>4, <1>5, <1>6, <1>7, <1>8, <1>9, <1>10, <1>11,
     <1>12, <1>13
  DEF Next, Cycle, Outside, Environment, Adding

-----------------------------------------------------------------------------
(* The theorems.                                                           *)

(* The inductive invariant holds at first.                                 *)
LEMMA InitEstablishes == Init => IInv
<1> SUFFICES ASSUME Init PROVE IInv
  OBVIOUS
<1> USE DEF Init, StoreInit, PlannerInit
<1>1. DOMAIN EmptyBoard = {}
  BY BoardDomains
<1>2. TypeOK
  BY EmptyIsBoard DEF TypeOK, Stages, Optional
<1>3. Known
  BY <1>1 DEF Known, Queued, Executions, Ids
<1>4. Budgets
  BY <1>1 DEF Budgets, Solvent
<1>5. Allowance
  BY <1>1 DEF Allowance, ReexecutionBounded, WaitingWithin, PoppedWithin,
              Queued
<1>6. Verdicts
  BY <1>1 DEF Verdicts, VerdictIsBacked, CompletedDidSucceed
<1> QED BY <1>2, <1>3, <1>4, <1>5, <1>6 DEF IInv

(* The inductive invariant is one: it holds in every reachable state of    *)
(* TaskRuntime, of the store, the planner and the cycle that uses both.    *)
THEOREM InductiveInvariant == Spec => []IInv
<1>1. IInv /\ [Next]_vars => IInv'
  BY TypeStep, KnownStep, BudgetsStep, AllowanceStep, VerdictsStep DEF IInv
<1> QED BY InitEstablishes, <1>1, PTL DEF Spec

(* Every variable keeps its type.                                          *)
THEOREM TypeCorrect == Spec => []TypeOK
<1>1. IInv => TypeOK
  BY DEF IInv
<1> QED BY InductiveInvariant, <1>1, PTL

(* No start of the process grants a task more than its own budget of       *)
(* executions, whatever crashes and store failures came before.            *)
THEOREM ReexecutionIsBounded == Spec => []ReexecutionBounded
<1>1. IInv => ReexecutionBounded
  BY DEF IInv, Allowance
<1> QED BY InductiveInvariant, <1>1, PTL

(* A succeeded or failed row is backed by an experience on record.         *)
THEOREM VerdictsAreBacked == Spec => []VerdictIsBacked
<1>1. IInv => VerdictIsBacked
  BY DEF IInv, Verdicts
<1> QED BY InductiveInvariant, <1>1, PTL

(* Whatever the planner counts as completed, and whatever a running task   *)
(* depends on, has a success on record.                                    *)
THEOREM CompletionIsReal == Spec => []CompletedDidSucceed
<1>1. IInv => CompletedDidSucceed
  BY DEF IInv, Verdicts
<1> QED BY InductiveInvariant, <1>1, PTL
=============================================================================
