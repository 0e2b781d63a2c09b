--------------------------- MODULE GracefulProofs ---------------------------
(***************************************************************************)
(* Proofs about TaskRuntime for every value of its constants under which   *)
(* the store does not fail: with crashes, that no pending row is lost; in  *)
(* graceful lives, that the table is a TaskLifecycle and the invariants of *)
(* the run Clean hold.                                                     *)
(***************************************************************************)
EXTENDS TaskRuntimeProofs

(* What makes a life graceful: the process ends by a stop only, and the    *)
(* store does not fail.                                                    *)
Graceful == StoreFaults = FALSE /\ Crashes = FALSE

(* Without store failures every save takes effect.                         *)
LEMMA AllCommit == ASSUME StoreFaults = FALSE PROVE Commits = {TRUE}
BY DEF Commits

-----------------------------------------------------------------------------
(* No pending row is lost, crashes or not.                                 *)

(* What the table holds as pending, a running process has in its queue.    *)
LEMMA PendingStep ==
  ASSUME StoreFaults = FALSE, TypeOK, Known, PendingRowsAreQueued,
         [Next]_vars
  PROVE  PendingRowsAreQueued'
<1> USE AllCommit
    DEF storeVars, plannerVars, brainVars, envVars, PendingRowsAreQueued,
        ListTasks, Queued
<1>1. CASE Start
  BY <1>1 DEF Start, Restore, Restored
<1>2. CASE Crash \/ EndFinalCheckpoint \/ DieInHandler \/ AbortShutdown
  BY <1>2 DEF Crash, EndFinalCheckpoint, DieInHandler, AbortShutdown,
              LoseMemory
<1>3. CASE \/ LogError \/ BeginCycle \/ SkipPlanning \/ PlanOnly \/ Execute
           \/ Record \/ CheckpointNotDue \/ BeginCheckpoint \/ EndCheckpoint
           \/ RequestShutdown \/ BeginFinalCheckpoint \/ AdvanceClock
  BY <1>3 DEF LogError, BeginCycle, SkipPlanning, PlanOnly, Execute, Record,
              CheckpointNotDue, BeginCheckpoint, EndCheckpoint,
              RequestShutdown, BeginFinalCheckpoint, AdvanceClock, GoOn
<1>4. CASE PlanSystemCheck \/ Repeat \/ ClientAdd
  <2>1. pc # "down"
    BY <1>4 DEF PlanSystemCheck, Repeat, ClientAdd, ClientStage
  <2>2. PICK task : AddTask(task, TRUE)
    BY <1>4 DEF PlanSystemCheck, Repeat, ClientAdd, AddRecurrence
  <2>3. /\ rows' = Put(rows, nextId, RowOf(task))
        /\ queue' = Put(queue, nextId, task)
    BY <2>2 DEF AddTask, SaveTask
  <2> QED
    BY <2>1, <2>3 DEF Put
<1>5. CASE NextTask
  <2>1. PICK i \in Queued : PopTask(i, clock, TRUE)
    BY <1>5 DEF NextTask
  <2>2. rows' = Put(rows, i, RowOf(Started(i))) /\ DOMAIN queue' = Queued \ {i}
    BY <2>1, BoardDomains DEF PopTask, SaveTask
  <2>3. RowOf(Started(i)).status # "pending"
    BY StartedFields DEF RowOf, TypeOK
  <2> QED
    BY <1>5, <2>2, <2>3 DEF NextTask, Put
<1>6. CASE NoTask
  BY <1>6 DEF NoTask, PopNothing, WithExpired
<1>7. CASE Succeed \/ Fail
  <2>1. PICK status \in {"succeeded", "failed"} :
          SaveTask(current.id, [current.task EXCEPT !.status = status], TRUE)
    BY <1>7 DEF Succeed, CompleteTask, Fail, FailTask
  <2> DEFINE task == [current.task EXCEPT !.status = status]
  <2>2. rows' = Put(rows, current.id, RowOf(task))
    BY <2>1 DEF SaveTask
  <2>3. RowOf(task).status # "pending"
    BY <1>7, PoppedIsTask, WithStatus DEF Succeed, Fail, RowOf
  <2>4. queue' = queue /\ pc # "down"
    BY <1>7 DEF Succeed, Fail
  <2> QED
    BY <2>2, <2>3, <2>4 DEF Put
<1>8. CASE Requeue
  <2>1. PICK task : /\ queue' = Put(queue, current.id, task)
                    /\ SaveTask(current.id, task, TRUE)
    BY <1>8 DEF Requeue, RequeueTask
  <2>2. rows' = Put(rows, current.id, RowOf(task)) /\ pc # "down"
    BY <1>8, <2>1 DEF Requeue, SaveTask
  <2> QED
    BY <2>1, <2>2 DEF Put
<1>9. CASE ClientCancel
  <2>1. PICK i \in Queued : CancelTask(i, TRUE)
    BY <1>9 DEF ClientCancel
  <2> DEFINE task == [queue[i] EXCEPT !.status = "cancelled"]
  <2>2. /\ rows' = Put(rows, i, RowOf(task))
        /\ DOMAIN queue' = Queued \ {i}
        /\ pc # "down"
    BY <1>9, <2>1, BoardDomains
       DEF ClientCancel, ClientStage, CancelTask, SaveTask
  <2>3. RowOf(task).status # "pending"
    BY WithStatus DEF RowOf, TypeOK, IsBoard
  <2> QED
    BY <2>2, <2>3 DEF Put
<1>10. CASE UNCHANGED vars
  BY <1>10 DEF vars
<1> QED
  BY <1>1, <1>2, <1>3, <1>4, <1>5, <1>6, <1>7, <1>8, <1>9, <1>10
  DEF Next, Cycle, Outside, Environment

(* As long as the store does not fail, every pending row is in the queue   *)
(* of the process that runs, whatever crashes came before and however old  *)
(* the checkpoint was that it started from.                                *)
THEOREM PendingRowsAreKept ==
  ASSUME StoreFaults = FALSE PROVE Spec => []PendingRowsAreQueued
<1>1. Init => PendingRowsAreQueued
  BY DEF Init, PendingRowsAreQueued
<1>2. IInv /\ PendingRowsAreQueued /\ [Next]_vars => PendingRowsAreQueued'
  BY PendingStep DEF IInv
<1> QED
  BY InductiveInvariant, <1>1, <1>2, PTL DEF Spec

-----------------------------------------------------------------------------
(* The inductive invariant of graceful lives.                              *)

(* The brain has a task in its hand that the table holds as running.       *)
InHand == pc \in {"execute", "record", "settle"}

(* A queued task waits, or missed its deadline and is still held to wait   *)
(* by the table.                                                           *)
Waits(task) ==
  \/ task.status = "pending"
  \/ task.status = "failed" /\ task.deadline # None

Waiting(task) == RowOf([task EXCEPT !.status = "pending"])

(* The table says what the queue and the brain's hand hold, and tells what *)
(* else there is apart.                                                    *)
TableIsComplete == DOMAIN rows = DOMAIN original

QueueIsSaved ==
  \A i \in Queued : Waits(queue[i]) /\ rows[i] = Waiting(queue[i])

HandIsSaved ==
  InHand => /\ current.task.status = "running"
            /\ rows[current.id] = RowOf(current.task)

RowsAreKnown ==
  \A i \in DOMAIN rows :
    /\ rows[i].status = "pending" => pc = "down" \/ i \in Queued
    /\ rows[i].status = "running" => InHand /\ current.id = i

RowsMirrorMemory ==
  TableIsComplete /\ QueueIsSaved /\ HandIsSaved /\ RowsAreKnown

(* Between two processes the checkpoint has what is pending.               *)
FileHasAll ==
  pc = "down" =>
    /\ epoch > 0 => file.kind = "whole"
    /\ DOMAIN file.tasks = ListTasks("pending")
    /\ \A i \in DOMAIN file.tasks :
         Waits(file.tasks[i]) /\ rows[i] = Waiting(file.tasks[i])

(* Each attempt is an execution, on record or about to be.                 *)
UnderWay(i) ==
  IF pc \in {"execute", "record"} /\ current.id = i THEN 1 ELSE 0

AttemptsAreExecutions ==
  \A i \in DOMAIN rows :
    /\ rows[i].attempts <= rows[i].maxAttempts
    /\ Executions(i) + UnderWay(i) = rows[i].attempts

GInv == RowsMirrorMemory /\ FileHasAll /\ AttemptsAreExecutions

(* Queue, hand and checkpoint have the terms of submission, and what the   *)
(* first and the last hold is waiting; but for a missed deadline.          *)
SameTerms(i, task) ==
  /\ task.deps = original[i].deps
  /\ task.notBefore = original[i].notBefore
  /\ task.deadline = original[i].deadline
  /\ task.repeat = original[i].repeat

AsSubmitted(i, task) == SameTerms(i, task) /\ task.status = "pending"

QueueHasTerms == \A i \in Queued : AsSubmitted(i, queue[i]) \/ Missed(i)

HandHasTerms ==
  current # None => SameTerms(current.id, current.task) \/ Missed(current.id)

FileHasTerms ==
  pc = "down" =>
    \A i \in DOMAIN file.tasks : AsSubmitted(i, file.tasks[i]) \/ Missed(i)

TInv ==
  QueueHasTerms /\ HandHasTerms /\ FileHasTerms /\ RecurrenceContinues

-----------------------------------------------------------------------------
(* The shapes of a graceful step, by what it changes of tables and tasks.  *)

taskVars == <<rows, experiences, queue, original, successor, current>>

(* Nothing: the brain goes on, or a checkpoint is begun or ended.          *)
Quiet ==
  /\ UNCHANGED taskVars
  /\ UNCHANGED epoch
  /\ \/ pc' = pc /\ file' = file
     \/ pc = "execute" /\ pc' = "record"
     \/ pc \notin {"down", "execute", "record", "settle", "repeat"}
        /\ pc' \notin {"down", "execute", "record", "settle", "repeat"}

(* A fresh task of these terms is saved, queued and given the next id.     *)
Gains(task) ==
  /\ task \in Task
  /\ task.status = "pending"
  /\ task.attempts = 0
  /\ task.maxAttempts \in {p.maxAttempts : p \in Profiles}
                            \cup {DefaultMaxAttempts}
  /\ AddTask(task, TRUE)
  /\ UNCHANGED experiences

Adds ==
  /\ \E task : Gains(task)
  /\ UNCHANGED <<successor, current>>
  /\ pc' # "down"
  /\ \/ pc' = pc
     \/ pc = "plan" /\ pc' = "next"

Repeats ==
  /\ pc = "repeat"
  /\ \E task : Gains(task)
  /\ successor' = Put(successor, current.id, nextId)
  /\ current' = None
  /\ pc' = "tick"

(* A task stays in the queue, or its deadline is found to be over.         *)
Overdue(task) == [task EXCEPT !.status = "failed"]

Passes(i) ==
  \/ queue'[i] = queue[i]
  \/ /\ queue[i].deadline # None
     /\ queue[i].deadline < clock
     /\ queue'[i] = Overdue(queue[i])

Expires ==
  /\ pc = "next"
  /\ Queued' = Queued
  /\ \A i \in Queued : Passes(i)
  /\ pc' = "tick"
  /\ UNCHANGED <<rows, experiences, original, successor, current>>

Pops(i) ==
  /\ pc = "next"
  /\ i \in Queued
  /\ queue[i].status = "pending"
  /\ Queued' = Queued \ {i}
  /\ \A j \in Queued' : Passes(j)
  /\ rows' = Put(rows, i, RowOf(Started(i)))
  /\ current' = [id |-> i, task |-> Started(i)]
  /\ pc' = "execute"
  /\ UNCHANGED <<experiences, original, successor>>

Records ==
  /\ pc = "record"
  /\ RecordExperience(current.id, success, TRUE)
  /\ pc' = "settle"
  /\ UNCHANGED <<rows, queue, original, successor, current>>

(* The task in hand is saved with a new status, its last one or not.       *)
Settled(status) == [current.task EXCEPT !.status = status]

Settles(status) ==
  /\ pc = "settle"
  /\ rows' = Put(rows, current.id, RowOf(Settled(status)))
  /\ UNCHANGED <<experiences, original, successor>>

Ends(status) ==
  /\ Settles(status)
  /\ queue' = queue
  /\ current' = None
  /\ pc' = "tick"

SucceedsOnce == Ends("succeeded") /\ current.task.repeat = None

SucceedsAgain ==
  /\ Settles("succeeded")
  /\ UNCHANGED <<queue, current>>
  /\ pc' = "repeat"

Fails ==
  /\ Ends("failed")
  /\ current.task.attempts >= current.task.maxAttempts

Requeues ==
  /\ Settles("pending")
  /\ current.task.attempts < current.task.maxAttempts
  /\ queue' = Put(queue, current.id, Settled("pending"))
  /\ current' = None
  /\ pc' = "tick"

Cancelled(i) == [queue[i] EXCEPT !.status = "cancelled"]

Cancels(i) ==
  /\ i \in Queued
  /\ rows' = Put(rows, i, RowOf(Cancelled(i)))
  /\ queue' = Restrict(queue, Queued \ {i})
  /\ pc # "down"
  /\ UNCHANGED <<pc, experiences, original, successor, current>>

Stops ==
  /\ pc = "finalCheckpoint"
  /\ file' = [kind |-> "whole", tasks |-> queue]
  /\ queue' = EmptyBoard
  /\ current' = None
  /\ pc' = "down"
  /\ UNCHANGED <<rows, experiences, original, successor>>

Starts ==
  /\ pc = "down"
  /\ queue' = Restored(file.tasks)
  /\ pc' = "idle"
  /\ UNCHANGED <<rows, experiences, original, successor, current>>

(* What next_task does to the tasks it passes.                             *)
LEMMA PassedTasks ==
  ASSUME NEW passed, NEW i \in Queued, NEW after,
         after = WithExpired(passed, clock)[i]
  PROVE  \/ after = queue[i]
         \/ /\ queue[i].deadline # None
            /\ queue[i].deadline < clock
            /\ after = Overdue(queue[i])
BY DEF WithExpired, MissedDeadline, Overdue

(* What the planner and its clients add is fresh.                          *)
LEMMA AddedGains ==
  ASSUME Graceful, TypeOK, Known, Adding
  PROVE  \E task : Gains(task)
<1> USE AllCommit DEF Graceful, Gains
<1>1. CASE PlanSystemCheck
  <2>1. \A internet, diskFull : GoalPriority(internet, diskFull) \in Nat
    BY DEF GoalPriority
  <2>2. PICK priority \in Nat : AddTask(SystemCheck(priority, clock), TRUE)
    BY <1>1, <2>1 DEF PlanSystemCheck
  <2> DEFINE task == SystemCheck(priority, clock)
  <2>3. task \in Task /\ task.status = "pending" /\ task.attempts = 0
    BY SystemCheckIsTask, FreshFields DEF TypeOK
  <2>4. task.maxAttempts = DefaultMaxAttempts
    BY DEF SystemCheck, NewTask
  <2> HIDE DEF task
  <2> QED
    BY <1>1, <2>2, <2>3, <2>4 DEF PlanSystemCheck, task
<1>2. CASE Repeat
  <2> DEFINE task == Recurrence(current.task, clock)
  <2>1. AddTask(task, TRUE) /\ UNCHANGED experiences
    BY <1>2 DEF Repeat, AddRecurrence
  <2>2. task \in Task /\ task.status = "pending" /\ task.attempts = 0
    BY <1>2, PoppedIsTask, RecurrenceIsTask, FreshFields
       DEF Repeat, Known, TypeOK
  <2>3. task.maxAttempts = DefaultMaxAttempts
    BY DEF Recurrence, NewTask
  <2> HIDE DEF task
  <2> QED
    BY <2>1, <2>2, <2>3
<1>3. CASE ClientAdd
  <2>1. PICK p \in Profiles, deps \in SUBSET (DOMAIN original) :
          AddTask(NewTask(p, deps, clock), TRUE)
    BY <1>3 DEF ClientAdd
  <2> DEFINE task == NewTask(p, deps, clock)
  <2>2. task \in Task /\ task.status = "pending" /\ task.attempts = 0
    BY TasksAssumption, NewTaskIsTask, FreshFields DEF TypeOK, IsBoard
  <2>3. task.maxAttempts = p.maxAttempts
    BY DEF NewTask
  <2>4. AddTask(task, TRUE) /\ UNCHANGED experiences
    BY <1>3, <2>1 DEF ClientAdd
  <2> HIDE DEF task
  <2> QED
    BY <2>2, <2>3, <2>4
<1> QED
  BY <1>1, <1>2, <1>3 DEF Adding

(* Every graceful step has one of the shapes.                              *)
LEMMA GracefulShapes ==
  ASSUME Graceful, TypeOK, Known, GInv, [Next]_vars
  PROVE  \/ Quiet \/ Adds \/ Repeats \/ Records \/ SucceedsOnce
         \/ SucceedsAgain \/ Fails \/ Requeues \/ Stops \/ Starts \/ Expires
         \/ \E i \in Queued : Pops(i) \/ Cancels(i)
<1> USE AllCommit
    DEF Graceful, storeVars, plannerVars, brainVars, envVars, taskVars
<1>1. CASE Start
  BY <1>1 DEF Start, Restore, LoadCheckpoint, Starts
<1>2. CASE \/ BeginCycle \/ SkipPlanning \/ PlanOnly \/ Execute
           \/ CheckpointNotDue \/ BeginCheckpoint \/ EndCheckpoint
           \/ RequestShutdown \/ BeginFinalCheckpoint \/ AdvanceClock
  BY <1>2 DEF BeginCycle, SkipPlanning, PlanOnly, Execute, CheckpointNotDue,
              BeginCheckpoint, EndCheckpoint, RequestShutdown,
              BeginFinalCheckpoint, AdvanceClock, GoOn, Quiet
<1>3. CASE LogError
  BY <1>3 DEF LogError, Quiet
<1>4. CASE Crash \/ DieInHandler \/ AbortShutdown
  BY <1>4 DEF Crash, DieInHandler, AbortShutdown
<1>5. CASE NoTask
  <2>1. queue' = WithExpired(Queued, clock)
    BY <1>5 DEF NoTask, PopNothing
  <2>2. Queued' = Queued
    BY <2>1, ExpiredIsBoard DEF TypeOK, Queued
  <2>3. \A i \in Queued : Passes(i)
    BY <2>1, PassedTasks DEF Passes
  <2> QED
    BY <1>5, <2>2, <2>3 DEF NoTask, Expires
<1>6. CASE NextTask
  <2> PICK i \in Queued, commit \in Commits :
        /\ PopTask(i, clock, commit)
        /\ current' = IF commit THEN [id |-> i, task |-> Started(i)] ELSE None
        /\ GoOn(commit, "execute")
    BY <1>6 DEF NextTask
  <2> commit = TRUE
    OBVIOUS
  <2>1. /\ PopTask(i, clock, TRUE)
        /\ current' = [id |-> i, task |-> Started(i)]
        /\ pc' = "execute"
    BY DEF GoOn
  <2>2. PICK passed :
          queue' = Restrict(WithExpired(passed, clock), Queued \ {i})
    BY <2>1 DEF PopTask
  <2>3. Queued' = Queued \ {i}
    BY <2>2, BoardDomains DEF Queued
  <2>4. \A j \in Queued' : queue'[j] = WithExpired(passed, clock)[j]
    BY <2>2, <2>3 DEF Restrict
  <2>5. \A j \in Queued' : Passes(j)
    BY <2>3, <2>4, PassedTasks DEF Passes
  <2>6. rows' = Put(rows, i, RowOf(Started(i)))
    BY <2>1 DEF PopTask, SaveTask
  <2>7. queue[i].status = "pending"
    BY <2>1 DEF PopTask, First, IsRunnable, Runnable, Due
  <2> QED
    BY <1>6, <2>1, <2>3, <2>5, <2>6, <2>7 DEF NextTask, GoOn, Pops
<1>7. CASE Record
  <2> PICK commit \in Commits :
        /\ RecordExperience(current.id, success, commit)
        /\ current' = IF commit THEN current ELSE None
        /\ GoOn(commit, "settle")
    BY <1>7 DEF Record
  <2> commit = TRUE
    OBVIOUS
  <2> QED
    BY <1>7 DEF Record, GoOn, Records
<1>8. CASE Succeed
  <2> DEFINE repeats == current.task.repeat # None
  <2> PICK commit \in Commits :
        /\ CompleteTask(current.id, current.task, commit)
        /\ current' = IF commit /\ repeats THEN current ELSE None
        /\ GoOn(commit, IF commit /\ repeats THEN "repeat" ELSE "tick")
    BY <1>8 DEF Succeed
  <2> commit = TRUE
    OBVIOUS
  <2>1. Settles("succeeded")
    BY <1>8 DEF Succeed, CompleteTask, SaveTask, Settles, Settled
  <2> QED
    BY <1>8, <2>1 DEF Succeed, GoOn, SucceedsOnce, SucceedsAgain, Ends
<1>9. CASE Requeue
  <2>1. RequeueTask(current.id, current.task, TRUE) /\ GoOn(TRUE, "tick")
    BY <1>9 DEF Requeue
  <2> QED
    BY <1>9, <2>1 DEF Requeue, RequeueTask, SaveTask, GoOn, Requeues, Settles,
                      Settled
<1>10. CASE Fail
  <2>1. FailTask(current.id, current.task, TRUE) /\ GoOn(TRUE, "tick")
    BY <1>10 DEF Fail
  <2> QED
    BY <1>10, <2>1 DEF Fail, FailTask, SaveTask, GoOn, Fails, Ends, Settles,
                       Settled
<1>11. CASE Repeat
  <2>1. /\ AddRecurrence(current.id, current.task, clock, TRUE)
        /\ GoOn(TRUE, "tick")
    BY <1>11 DEF Repeat
  <2> QED
    BY <1>11, <2>1, AddedGains DEF Repeat, AddRecurrence, GoOn, Adding, Repeats
<1>12. CASE PlanSystemCheck \/ ClientAdd
  BY <1>12, AddedGains
     DEF PlanSystemCheck, ClientAdd, ClientStage, GoOn, Adding, Adds
<1>13. CASE ClientCancel
  <2>1. PICK i \in Queued : CancelTask(i, TRUE)
    BY <1>13 DEF ClientCancel
  <2> QED
    BY <1>13, <2>1 DEF ClientCancel, ClientStage, CancelTask, SaveTask,
                       Cancels, Cancelled
<1>14. CASE EndFinalCheckpoint
  <2>1. WriteCheckpoint(queue, TRUE)
    BY <1>14 DEF EndFinalCheckpoint
  <2> QED
    BY <1>14, <2>1 DEF EndFinalCheckpoint, WriteCheckpoint, LoseMemory, Stops
<1>15. CASE UNCHANGED vars
  BY <1>15 DEF vars, Quiet
<1> QED
  BY <1>1, <1>2, <1>3, <1>4, <1>5, <1>6, <1>7, <1>8, <1>9, <1>10, <1>11,
     <1>12, <1>13, <1>14, <1>15
  DEF Next, Cycle, Outside, Environment

-----------------------------------------------------------------------------
(* What the shapes do to the boards, entry by entry.                       *)

(* A new status leaves everything else of a row as it was.                 *)
LEMMA StatusInRow ==
  ASSUME NEW task \in Task, NEW status
  PROVE  LET after == RowOf([task EXCEPT !.status = status])
         IN /\ after.status = status
            /\ after.attempts = task.attempts
            /\ after.maxAttempts = task.maxAttempts
            /\ RowOf(task).attempts = task.attempts
            /\ RowOf(task).maxAttempts = task.maxAttempts
BY WithStatus DEF RowOf

(* Whatever memory says of its status, a row that waits says the rest.     *)
LEMMA WaitingRow ==
  ASSUME NEW task \in Task
  PROVE  /\ Waiting(task).status = "pending"
         /\ Waiting(task).attempts = task.attempts
         /\ Waiting(task).maxAttempts = task.maxAttempts
         /\ task.status = "pending" => Waiting(task) = RowOf(task)
         /\ \A status :
              Waiting([task EXCEPT !.status = status]) = Waiting(task)
<1>1. /\ Waiting(task).status = "pending"
      /\ Waiting(task).attempts = task.attempts
      /\ Waiting(task).maxAttempts = task.maxAttempts
  BY StatusInRow DEF Waiting
<1>2. task.status = "pending" => Waiting(task) = RowOf(task)
  BY DEF Waiting, RowOf, Task
<1>3. ASSUME NEW status
      PROVE  Waiting([task EXCEPT !.status = status]) = Waiting(task)
  BY DEF Waiting, RowOf, Task
<1> QED
  BY <1>1, <1>2, <1>3

(* A row that waits, read back and saved again, is the same row.           *)
LEMMA ReadBack ==
  ASSUME NEW row \in Row, row.status = "pending"
  PROVE  Waits(TaskOf(row)) /\ Waiting(TaskOf(row)) = row
BY DEF Waits, Waiting, TaskOf, RowOf, Row

(* A task that is passed waits as before, for the table.                   *)
LEMMA PassedWaits ==
  ASSUME TypeOK, QueueIsSaved, NEW i \in Queued, Passes(i)
  PROVE  Waits(queue'[i]) /\ Waiting(queue'[i]) = Waiting(queue[i])
<1>1. queue[i] \in Task
  BY DEF TypeOK, IsBoard, Queued
<1>2. CASE queue'[i] = queue[i]
  BY <1>2 DEF QueueIsSaved
<1>3. CASE queue[i].deadline # None /\ queue'[i] = Overdue(queue[i])
  <2>1. queue'[i].status = "failed" /\ queue'[i].deadline = queue[i].deadline
    BY <1>1, <1>3 DEF Overdue, Task
  <2> QED
    BY <1>1, <1>3, <2>1, WaitingRow DEF Waits, Overdue
<1> QED
  BY <1>2, <1>3 DEF Passes

(* A new status leaves the terms alone.                                    *)
LEMMA StatusKeepsTerms ==
  ASSUME NEW task \in Task, NEW i, SameTerms(i, task), NEW status
  PROVE  SameTerms(i, [task EXCEPT !.status = status])
BY DEF Task, SameTerms

(* So does a pop, which counts one attempt more.                           *)
LEMMA StartedKeepsTerms ==
  ASSUME IsBoard(queue, Task), NEW i \in Queued, SameTerms(i, queue[i])
  PROVE  SameTerms(i, Started(i))
BY DEF IsBoard, Queued, Task, SameTerms, Started

(* The three boards after a task was added.                                *)
LEMMA GainedEntries ==
  ASSUME TypeOK, Known, RowsMirrorMemory, NEW task, Gains(task)
  PROVE  /\ nextId \in Ids
         /\ nextId \notin DOMAIN original
         /\ nextId \notin Queued
         /\ DOMAIN rows' = DOMAIN rows \cup {nextId}
         /\ DOMAIN original' = DOMAIN original \cup {nextId}
         /\ Queued' = Queued \cup {nextId}
         /\ rows'[nextId] = RowOf(task)
         /\ original'[nextId] = task
         /\ queue'[nextId] = task
         /\ \A i \in DOMAIN rows : rows'[i] = rows[i]
         /\ \A i \in DOMAIN original : original'[i] = original[i]
         /\ \A i \in Queued : queue'[i] = queue[i]
<1>1. AddTask(task, TRUE)
  BY DEF Gains
<1>2. nextId \in Ids \ DOMAIN original
  BY <1>1, AddDomains
<1>3. /\ rows' = Put(rows, nextId, RowOf(task))
      /\ original' = Put(original, nextId, task)
      /\ queue' = Put(queue, nextId, task)
  BY <1>1 DEF AddTask, SaveTask
<1>4. nextId \notin Queued /\ nextId \notin DOMAIN rows
  BY <1>2 DEF Known
<1>5. /\ DOMAIN rows' = DOMAIN rows \cup {nextId}
      /\ rows'[nextId] = RowOf(task)
      /\ \A i \in DOMAIN rows : rows'[i] = rows[i]
  BY <1>3, <1>4 DEF Put
<1>6. /\ DOMAIN original' = DOMAIN original \cup {nextId}
      /\ original'[nextId] = task
      /\ \A i \in DOMAIN original : original'[i] = original[i]
  BY <1>2, <1>3 DEF Put
<1>7. /\ Queued' = Queued \cup {nextId}
      /\ queue'[nextId] = task
      /\ \A i \in Queued : queue'[i] = queue[i]
  BY <1>3, <1>4 DEF Put, Queued
<1> QED
  BY <1>2, <1>4, <1>5, <1>6, <1>7

(* The task in hand is out of the queue and running in the table.          *)
LEMMA HandIsRunning ==
  ASSUME TypeOK, Known, RowsMirrorMemory, InHand
  PROVE  /\ current # None
         /\ current.id \in Ids
         /\ current.id \in DOMAIN original
         /\ current.id \in DOMAIN rows
         /\ current.id \notin Queued
         /\ current.task \in Task
         /\ rows[current.id] = RowOf(current.task)
         /\ rows[current.id].status = "running"
<1>1. current # None /\ current.id \in Ids /\ current.task \in Task
  BY PoppedIsTask DEF InHand
<1> QED
  BY <1>1 DEF RowsMirrorMemory, TableIsComplete, HandIsSaved, Known, RowOf

(* The boards after the task in hand was settled.                          *)
LEMMA SettledEntries ==
  ASSUME TypeOK, Known, RowsMirrorMemory, NEW status, Settles(status)
  PROVE  /\ DOMAIN rows' = DOMAIN rows
         /\ rows'[current.id] = RowOf(Settled(status))
         /\ rows'[current.id].status = status
         /\ rows'[current.id].attempts = rows[current.id].attempts
         /\ rows'[current.id].maxAttempts = rows[current.id].maxAttempts
         /\ Settled(status).status = status
         /\ \A i \in DOMAIN rows \ {current.id} : rows'[i] = rows[i]
<1>1. InHand /\ rows' = Put(rows, current.id, RowOf(Settled(status)))
  BY DEF Settles, InHand
<1>2. /\ current.id \in DOMAIN rows /\ current.task \in Task
      /\ rows[current.id] = RowOf(current.task)
  BY <1>1, HandIsRunning
<1>3. /\ DOMAIN rows' = DOMAIN rows
      /\ rows'[current.id] = RowOf(Settled(status))
      /\ \A i \in DOMAIN rows \ {current.id} : rows'[i] = rows[i]
  BY <1>1, <1>2 DEF Put
<1> QED
  BY <1>2, <1>3, StatusInRow, WithStatus DEF Settled

(* The boards after a waiting task was popped.                             *)
LEMMA PoppedEntries ==
  ASSUME TypeOK, Known, RowsMirrorMemory, NEW i \in Queued, Pops(i)
  PROVE  /\ i \in DOMAIN rows
         /\ DOMAIN rows' = DOMAIN rows
         /\ rows'[i] = RowOf(Started(i))
         /\ rows'[i].status = "running"
         /\ rows'[i].attempts = rows[i].attempts + 1
         /\ rows'[i].maxAttempts = rows[i].maxAttempts
         /\ \A j \in DOMAIN rows \ {i} : rows'[j] = rows[j]
         /\ rows[i].status = "pending"
<1>1. /\ i \in DOMAIN rows /\ rows[i] = Waiting(queue[i])
      /\ queue[i] \in Task
  BY DEF Known, RowsMirrorMemory, TableIsComplete, QueueIsSaved, TypeOK,
         IsBoard, Queued
<1>2. /\ DOMAIN rows' = DOMAIN rows
      /\ rows'[i] = RowOf(Started(i))
      /\ \A j \in DOMAIN rows \ {i} : rows'[j] = rows[j]
  BY <1>1 DEF Pops, Put
<1>3. /\ RowOf(Started(i)).status = "running"
      /\ RowOf(Started(i)).attempts = queue[i].attempts + 1
      /\ RowOf(Started(i)).maxAttempts = queue[i].maxAttempts
  BY StartedFields DEF RowOf, TypeOK
<1>4. /\ rows[i].status = "pending"
      /\ rows[i].attempts = queue[i].attempts
      /\ rows[i].maxAttempts = queue[i].maxAttempts
  BY <1>1, WaitingRow
<1> QED
  BY <1>1, <1>2, <1>3, <1>4

(* The boards after a waiting task was cancelled.                          *)
LEMMA CancelledEntries ==
  ASSUME TypeOK, Known, RowsMirrorMemory, NEW i \in Queued, Cancels(i)
  PROVE  /\ i \in DOMAIN rows
         /\ DOMAIN rows' = DOMAIN rows
         /\ rows'[i].status = "cancelled"
         /\ rows'[i].attempts = rows[i].attempts
         /\ rows'[i].maxAttempts = rows[i].maxAttempts
         /\ \A j \in DOMAIN rows \ {i} : rows'[j] = rows[j]
         /\ Queued' = Queued \ {i}
         /\ \A j \in Queued' : queue'[j] = queue[j]
         /\ rows[i].status = "pending"
<1>1. /\ i \in DOMAIN rows /\ rows[i] = Waiting(queue[i])
      /\ queue[i] \in Task
  BY DEF Known, RowsMirrorMemory, TableIsComplete, QueueIsSaved, TypeOK,
         IsBoard, Queued
<1>2. /\ DOMAIN rows' = DOMAIN rows
      /\ rows'[i] = RowOf(Cancelled(i))
      /\ \A j \in DOMAIN rows \ {i} : rows'[j] = rows[j]
  BY <1>1 DEF Cancels, Put
<1>3. /\ Queued' = Queued \ {i}
      /\ \A j \in Queued' : queue'[j] = queue[j]
  BY DEF Restrict, Cancels, Queued
<1>4. /\ rows[i].status = "pending"
      /\ rows[i].attempts = queue[i].attempts
      /\ rows[i].maxAttempts = queue[i].maxAttempts
  BY <1>1, WaitingRow
<1> QED
  BY <1>1, <1>2, <1>3, <1>4, StatusInRow, SMTT(30) DEF Cancelled

(* The queue after a start has what the table holds as pending.            *)
LEMMA RestoredEntries ==
  ASSUME TypeOK, FileHasAll, Starts
  PROVE  /\ Queued' = ListTasks("pending")
         /\ Queued' = DOMAIN file.tasks
         /\ \A i \in Queued' : Waits(queue'[i]) /\ rows[i] = Waiting(queue'[i])
         /\ \A i \in Queued' : file.tasks[i].status = "pending"
                              => queue'[i] = file.tasks[i]
<1>1. /\ DOMAIN file.tasks = ListTasks("pending")
      /\ \A i \in DOMAIN file.tasks :
           Waits(file.tasks[i]) /\ rows[i] = Waiting(file.tasks[i])
  BY DEF Starts, FileHasAll
<1>2. /\ Queued' = ListTasks("pending")
      /\ \A i \in Queued' :
           queue'[i] = IF file.tasks[i].status = "pending"
                       THEN file.tasks[i] ELSE TaskOf(rows[i])
  BY <1>1 DEF Starts, Restored, Queued
<1>3. \A i \in ListTasks("pending") :
        rows[i] \in Row /\ rows[i].status = "pending"
  BY DEF ListTasks, TypeOK, IsBoard
<1> QED
  BY <1>1, <1>2, <1>3, ReadBack

-----------------------------------------------------------------------------
(* The table mirrors memory.                                               *)
LEMMA MirrorStep ==
  ASSUME Graceful, TypeOK, Known, GInv, [Next]_vars
  PROVE  RowsMirrorMemory'
<1> USE DEF GInv, RowsMirrorMemory
<1>1. CASE Quiet
  BY <1>1 DEF Quiet, taskVars, InHand, Queued, TableIsComplete, QueueIsSaved,
              HandIsSaved, RowsAreKnown
<1>2. CASE Adds \/ Repeats
  <2>1. PICK task : Gains(task)
    BY <1>2 DEF Adds, Repeats
  <2>2. /\ pc' # "down" /\ pc # "down"
        /\ (InHand' <=> InHand)
        /\ InHand => current' = current
    BY <1>2 DEF Adds, Repeats, InHand, TableIsComplete
  <2>3. RowOf(task).status = "pending" /\ task.status = "pending"
    BY <2>1 DEF Gains, RowOf
  <2>4. TableIsComplete'
    BY <2>1, <2>2, GainedEntries DEF TableIsComplete
  <2>5. QueueIsSaved'
    <3>1. /\ Queued' = Queued \cup {nextId}
          /\ queue'[nextId] = task /\ rows'[nextId] = RowOf(task)
          /\ \A i \in Queued : queue'[i] = queue[i] /\ rows'[i] = rows[i]
      BY <2>1, GainedEntries DEF TableIsComplete, Known
    <3>2. Waits(task) /\ RowOf(task) = Waiting(task)
      BY <2>1, <2>3, WaitingRow DEF Gains, Waits
    <3> QED
      BY <3>1, <3>2 DEF QueueIsSaved
  <2>6. HandIsSaved'
    BY <2>1, <2>2, GainedEntries, HandIsRunning DEF HandIsSaved
  <2>7. RowsAreKnown'
    BY <2>1, <2>2, <2>3, GainedEntries DEF RowsAreKnown
  <2> QED
    BY <2>4, <2>5, <2>6, <2>7
<1>3. CASE Records
  BY <1>3 DEF Records, InHand, Queued, TableIsComplete, QueueIsSaved,
              HandIsSaved, RowsAreKnown
<1>4. CASE SucceedsOnce \/ SucceedsAgain \/ Fails
  <2>1. PICK status \in {"succeeded", "failed"} : Settles(status)
    BY <1>4 DEF SucceedsOnce, SucceedsAgain, Fails, Ends
  <2>2. /\ InHand /\ ~InHand' /\ queue' = queue /\ original' = original
        /\ pc # "down"
    BY <1>4 DEF SucceedsOnce, SucceedsAgain, Fails, Ends, Settles, InHand
  <2>3. /\ DOMAIN rows' = DOMAIN rows
        /\ rows'[current.id].status = status
        /\ \A i \in DOMAIN rows \ {current.id} : rows'[i] = rows[i]
    BY <2>1, <2>2, SettledEntries
  <2>4. TableIsComplete'
    BY <2>2, <2>3 DEF TableIsComplete
  <2>5. QueueIsSaved'
    BY <2>2, <2>3, HandIsRunning
       DEF QueueIsSaved, TableIsComplete, Queued, Known
  <2>6. HandIsSaved'
    BY <2>2 DEF HandIsSaved
  <2>7. RowsAreKnown'
    BY <2>2, <2>3 DEF RowsAreKnown, Queued
  <2> QED
    BY <2>4, <2>5, <2>6, <2>7
<1>5. CASE Requeues
  <2>1. /\ InHand /\ ~InHand' /\ pc # "down"
        /\ original' = original /\ Settles("pending")
        /\ queue' = Put(queue, current.id, Settled("pending"))
    BY <1>5 DEF Requeues, Settles, InHand
  <2>2. /\ DOMAIN rows' = DOMAIN rows
        /\ rows'[current.id] = RowOf(Settled("pending"))
        /\ rows'[current.id].status = "pending"
        /\ Settled("pending").status = "pending"
        /\ \A i \in DOMAIN rows \ {current.id} : rows'[i] = rows[i]
    BY <2>1, SettledEntries
  <2>3. /\ Queued' = Queued \cup {current.id}
        /\ queue'[current.id] = Settled("pending")
        /\ \A i \in Queued : queue'[i] = queue[i] /\ i # current.id
    BY <2>1, HandIsRunning DEF Put, Queued
  <2>4. TableIsComplete'
    BY <2>1, <2>2 DEF TableIsComplete
  <2>5. QueueIsSaved'
    <3>1. current.task \in Task
      BY <2>1, HandIsRunning
    <3>2. Waits(Settled("pending"))
      BY <2>2 DEF Waits
    <3>3. RowOf(Settled("pending")) = Waiting(Settled("pending"))
      BY <3>1, WaitingRow DEF Settled, Waiting
    <3> QED
      BY <2>2, <2>3, <3>2, <3>3 DEF QueueIsSaved, TableIsComplete, Known
  <2>6. HandIsSaved'
    BY <2>1 DEF HandIsSaved
  <2>7. RowsAreKnown'
    BY <2>1, <2>2, <2>3 DEF RowsAreKnown
  <2> QED
    BY <2>4, <2>5, <2>6, <2>7
<1>6. CASE Stops
  BY <1>6, BoardDomains DEF Stops, InHand, Queued, TableIsComplete,
     QueueIsSaved, HandIsSaved, RowsAreKnown
<1>7. CASE Starts
  <2>1. /\ pc = "down" /\ pc' = "idle"
        /\ UNCHANGED <<rows, original>>
    BY <1>7 DEF Starts
  <2>2. /\ Queued' = ListTasks("pending")
        /\ \A i \in Queued' : Waits(queue'[i]) /\ rows[i] = Waiting(queue'[i])
    BY <1>7, RestoredEntries
  <2>3. QueueIsSaved'
    BY <2>1, <2>2 DEF QueueIsSaved
  <2> QED
    BY <2>1, <2>2, <2>3 DEF InHand, ListTasks, TableIsComplete, HandIsSaved,
       RowsAreKnown
<1>8. CASE \E i \in Queued : Pops(i)
  <2> PICK i \in Queued : Pops(i)
    BY <1>8
  <2>1. /\ current'.id = i /\ current'.task = Started(i)
        /\ InHand' /\ ~InHand /\ pc # "down"
        /\ original' = original
    BY DEF Pops, InHand
  <2>2. RowOf(Started(i)).status = "running" /\ Started(i).status = "running"
    BY StartedFields DEF RowOf, TypeOK
  <2>3. /\ DOMAIN rows' = DOMAIN rows
        /\ rows'[i] = RowOf(Started(i))
        /\ \A j \in DOMAIN rows \ {i} : rows'[j] = rows[j]
    BY PoppedEntries
  <2>4. TableIsComplete'
    BY <2>1, <2>3 DEF TableIsComplete
  <2>5. QueueIsSaved'
    <3>1. Queued' = Queued \ {i} /\ \A j \in Queued' : Passes(j)
      BY DEF Pops
    <3>2. \A j \in Queued' : /\ Waits(queue'[j])
                             /\ Waiting(queue'[j]) = Waiting(queue[j])
      BY <3>1, PassedWaits
    <3> QED
      BY <2>3, <3>1, <3>2 DEF QueueIsSaved, Known, TableIsComplete
  <2>6. HandIsSaved'
    BY <2>1, <2>2, <2>3 DEF HandIsSaved
  <2>7. RowsAreKnown'
    BY <2>1, <2>2, <2>3 DEF RowsAreKnown, Pops
  <2> QED
    BY <2>4, <2>5, <2>6, <2>7
<1>9. CASE \E i \in Queued : Cancels(i)
  <2> PICK i \in Queued : Cancels(i)
    BY <1>9
  <2>1. /\ current' = current /\ original' = original /\ pc' = pc
        /\ pc # "down" /\ (InHand' <=> InHand)
    BY DEF Cancels, InHand
  <2>2. /\ DOMAIN rows' = DOMAIN rows
        /\ rows'[i].status = "cancelled"
        /\ \A j \in DOMAIN rows \ {i} : rows'[j] = rows[j]
        /\ Queued' = Queued \ {i}
        /\ \A j \in Queued' : queue'[j] = queue[j]
    BY CancelledEntries
  <2>3. InHand => current.id # i
    BY HandIsRunning
  <2>4. TableIsComplete'
    BY <2>1, <2>2 DEF TableIsComplete
  <2>5. QueueIsSaved'
    BY <2>2 DEF QueueIsSaved, Known, TableIsComplete
  <2>6. HandIsSaved'
    BY <2>1, <2>2, <2>3, HandIsRunning DEF HandIsSaved
  <2>7. RowsAreKnown'
    BY <2>1, <2>2 DEF RowsAreKnown
  <2> QED
    BY <2>4, <2>5, <2>6, <2>7
<1>10. CASE Expires
  <2>1. /\ pc = "next" /\ pc' = "tick"
        /\ UNCHANGED <<rows, original, current>>
        /\ Queued' = Queued /\ \A i \in Queued : Passes(i)
    BY <1>10 DEF Expires
  <2>2. QueueIsSaved'
    BY <2>1, PassedWaits DEF QueueIsSaved
  <2> QED
    BY <2>1, <2>2 DEF InHand, TableIsComplete, HandIsSaved, RowsAreKnown
<1> QED
  BY <1>1, <1>2, <1>3, <1>4, <1>5, <1>6, <1>7, <1>8, <1>9, <1>10,
     GracefulShapes

-----------------------------------------------------------------------------
(* The checkpoint of a stop has all that is pending.                       *)
LEMMA FileStep ==
  ASSUME Graceful, TypeOK, Known, GInv, [Next]_vars
  PROVE  FileHasAll'
<1> USE DEF GInv, FileHasAll
<1>1. CASE Quiet
  BY <1>1 DEF Quiet, taskVars, ListTasks
<1>2. CASE Stops
  <2>1. /\ file'.kind = "whole" /\ file'.tasks = queue
        /\ rows' = rows
    BY <1>2 DEF Stops
  <2>2. Queued = ListTasks("pending")
    <3>1. ASSUME NEW i \in Queued PROVE i \in ListTasks("pending")
      <4>1. rows[i] = Waiting(queue[i]) /\ queue[i] \in Task
        BY DEF RowsMirrorMemory, QueueIsSaved, TypeOK, IsBoard, Queued
      <4>2. rows[i].status = "pending"
        BY <4>1, WaitingRow
      <4> QED
        BY <4>2 DEF RowsMirrorMemory, TableIsComplete, Known, ListTasks
    <3>2. ASSUME NEW i \in ListTasks("pending") PROVE i \in Queued
      BY <1>2 DEF Stops, RowsMirrorMemory, RowsAreKnown, ListTasks
    <3> QED
      BY <3>1, <3>2
  <2>3. \A i \in Queued : Waits(queue[i]) /\ rows[i] = Waiting(queue[i])
    BY DEF RowsMirrorMemory, QueueIsSaved
  <2> QED
    BY <2>1, <2>2, <2>3 DEF Queued, ListTasks
<1>3. CASE \/ Adds \/ Repeats \/ Records \/ SucceedsOnce \/ SucceedsAgain
           \/ Fails \/ Requeues \/ Starts \/ Expires
           \/ \E i \in Queued : Pops(i) \/ Cancels(i)
  <2>1. pc' # "down"
    BY <1>3 DEF Adds, Repeats, Records, SucceedsOnce, SucceedsAgain, Fails,
                Requeues, Starts, Expires, Ends, Pops, Cancels
  <2> QED
    BY <2>1
<1> QED
  BY <1>1, <1>2, <1>3, GracefulShapes

-----------------------------------------------------------------------------
(* Attempts stay executions.                                               *)
LEMMA AttemptsStep ==
  ASSUME Graceful, TypeOK, Known, Budgets, GInv, [Next]_vars
  PROVE  AttemptsAreExecutions'
<1> USE DEF GInv
<1>1. CASE Quiet \/ Starts \/ Stops \/ Expires
  <2>1. /\ UNCHANGED <<rows, experiences>>
        /\ \A i : UnderWay(i)' = UnderWay(i)
    BY <1>1 DEF Quiet, taskVars, Starts, Stops, Expires, UnderWay
  <2> QED
    BY <2>1 DEF AttemptsAreExecutions, Executions
<1>2. CASE Adds \/ Repeats
  <2>1. PICK task : Gains(task)
    BY <1>2 DEF Adds, Repeats
  <2>2. /\ nextId \in Ids /\ nextId \notin DOMAIN original
        /\ DOMAIN rows' = DOMAIN rows \cup {nextId}
        /\ rows'[nextId] = RowOf(task)
        /\ \A i \in DOMAIN rows : rows'[i] = rows[i]
    BY <2>1, GainedEntries
  <2>3. /\ task.attempts = 0 /\ task.maxAttempts \in Nat \ {0}
        /\ \A i : Executions(i)' = Executions(i)
    BY <2>1 DEF Gains, Task, Executions
  <2>4. rows'[nextId].attempts = 0 /\ rows'[nextId].maxAttempts > 0
    BY <2>2, <2>3 DEF RowOf
  <2>5. Executions(nextId) = 0
    BY <2>2 DEF Known
  <2>6. \A i : UnderWay(i)' = UnderWay(i)
    BY <1>2 DEF Adds, Repeats, UnderWay
  <2>7. UnderWay(nextId) = 0
    BY <2>2 DEF UnderWay, Known
  <2>8. ASSUME NEW i \in DOMAIN rows'
        PROVE  /\ rows'[i].attempts <= rows'[i].maxAttempts
               /\ Executions(i)' + UnderWay(i)' = rows'[i].attempts
    <3>1. CASE i = nextId
      <4>1. /\ Executions(i)' = 0 /\ UnderWay(i)' = 0
            /\ rows'[i].attempts = 0
            /\ rows'[i].maxAttempts \in Nat
        BY <2>2, <2>3, <2>4, <2>5, <2>6, <2>7, <3>1 DEF RowOf
      <4> QED
        BY <4>1
    <3>2. CASE i \in DOMAIN rows
      BY <2>2, <2>3, <2>6, <3>2 DEF AttemptsAreExecutions
    <3> QED
      BY <2>2, <3>1, <3>2
  <2> QED
    BY <2>8 DEF AttemptsAreExecutions
<1>3. CASE Records
  <2> PICK c : c = current.id
    OBVIOUS
  <2>1. /\ InHand /\ rows' = rows
        /\ \A i : UnderWay(i)' = 0
        /\ UnderWay(c) = 1
        /\ \A i : i # c => UnderWay(i) = 0
    BY <1>3 DEF Records, InHand, UnderWay
  <2>2. c \in Ids
    BY <2>1, HandIsRunning
  <2>3. \A i \in Ids \ {c} : Executions(i)' = Executions(i)
    BY <1>3, <2>2 DEF Records, RecordExperience, Executions, TypeOK
  <2>4. Executions(c)' = Executions(c) + 1
    BY <1>3, <2>2, NumbersAreNat
       DEF Records, RecordExperience, Executions, TypeOK
  <2>5. /\ DOMAIN rows \subseteq Ids
        /\ \A i \in DOMAIN rows : Executions(i) \in Nat
    BY NumbersAreNat DEF TypeOK, IsBoard
  <2>6. ASSUME NEW i \in DOMAIN rows
        PROVE  Executions(i)' + UnderWay(i)' = Executions(i) + UnderWay(i)
    <3>1. CASE i = c
      <4>1. UnderWay(i)' = 0 /\ UnderWay(i) = 1
        BY <2>1, <3>1
      <4>2. Executions(i)' = Executions(i) + 1 /\ Executions(i) \in Nat
        BY <2>4, <2>5, <3>1
      <4> QED
        BY <4>1, <4>2
    <3>2. CASE i # c
      <4>1. UnderWay(i)' = UnderWay(i)
        BY <2>1, <3>2
      <4> QED
        BY <2>3, <2>5, <3>2, <4>1
    <3> QED
      BY <3>1, <3>2
  <2> QED
    BY <2>1, <2>6 DEF AttemptsAreExecutions
<1>4. CASE SucceedsOnce \/ SucceedsAgain \/ Fails \/ Requeues
  <2>1. PICK status : Settles(status)
    BY <1>4 DEF SucceedsOnce, SucceedsAgain, Fails, Requeues, Ends
  <2>2. /\ DOMAIN rows' = DOMAIN rows
        /\ rows'[current.id].attempts = rows[current.id].attempts
        /\ rows'[current.id].maxAttempts = rows[current.id].maxAttempts
        /\ \A i \in DOMAIN rows \ {current.id} : rows'[i] = rows[i]
    BY <2>1, SettledEntries
  <2>3. /\ \A i : Executions(i)' = Executions(i)
        /\ \A i : UnderWay(i)' = UnderWay(i)
    BY <1>4, <2>1 DEF SucceedsOnce, SucceedsAgain, Fails, Requeues, Ends,
                      Settles, Executions, UnderWay
  <2> QED
    BY <2>2, <2>3 DEF AttemptsAreExecutions
<1>5. CASE \E i \in Queued : Pops(i)
  <2> PICK i \in Queued : Pops(i)
    BY <1>5
  <2>1. /\ i \in DOMAIN rows
        /\ DOMAIN rows' = DOMAIN rows
        /\ rows'[i].attempts = rows[i].attempts + 1
        /\ rows'[i].maxAttempts = rows[i].maxAttempts
        /\ \A j \in DOMAIN rows \ {i} : rows'[j] = rows[j]
    BY PoppedEntries
  <2>2. rows[i].status = "pending"
    BY PoppedEntries
  <2>3. rows[i].attempts < rows[i].maxAttempts
    BY <2>1, <2>2 DEF Budgets, Solvent
  <2>4. /\ \A j : Executions(j)' = Executions(j)
        /\ \A j : UnderWay(j) = 0
        /\ \A j : j # i => UnderWay(j)' = 0
        /\ UnderWay(i)' = 1
    BY DEF Pops, Executions, UnderWay
  <2>5. i \in Ids /\ rows[i] \in Row
    BY <2>1 DEF TypeOK, IsBoard
  <2>6. /\ Executions(i) \in Nat
        /\ rows[i].attempts \in Nat /\ rows[i].maxAttempts \in Nat
    BY <2>5, NumbersAreNat DEF Row
  <2> QED
    BY <2>1, <2>3, <2>4, <2>6 DEF AttemptsAreExecutions
<1>6. CASE \E i \in Queued : Cancels(i)
  <2> PICK i \in Queued : Cancels(i)
    BY <1>6
  <2>1. /\ DOMAIN rows' = DOMAIN rows
        /\ rows'[i].attempts = rows[i].attempts
        /\ rows'[i].maxAttempts = rows[i].maxAttempts
        /\ \A j \in DOMAIN rows \ {i} : rows'[j] = rows[j]
    BY CancelledEntries
  <2>2. /\ \A j : Executions(j)' = Executions(j)
        /\ \A j : UnderWay(j)' = UnderWay(j)
    BY DEF Cancels, Executions, UnderWay
  <2> QED
    BY <2>1, <2>2 DEF AttemptsAreExecutions
<1> QED
  BY <1>1, <1>2, <1>3, <1>4, <1>5, <1>6, GracefulShapes

-----------------------------------------------------------------------------
(* The theorems about graceful lives.                                      *)

(* The invariant of graceful lives holds in every reachable state.         *)
THEOREM GracefulInvariant ==
  ASSUME Graceful PROVE Spec => []GInv
<1>1. Init => GInv
  BY BoardDomains
  DEF Init, StoreInit, PlannerInit, GInv, RowsMirrorMemory, TableIsComplete,
      QueueIsSaved, HandIsSaved, RowsAreKnown, InHand, FileHasAll, ListTasks,
      AttemptsAreExecutions, Queued
<1>2. IInv /\ GInv /\ [Next]_vars => GInv'
  BY MirrorStep, FileStep, AttemptsStep
  DEF IInv, GInv
<1> QED
  BY InductiveInvariant, <1>1, <1>2, PTL DEF Spec

(* In a graceful life no task is executed more often than its budget       *)
(* allows, whatever the number of stops and starts.                        *)
THEOREM BudgetsAreKept ==
  ASSUME Graceful PROVE Spec => []ExecutionsWithinBudget
<1>1. IInv /\ GInv => ExecutionsWithinBudget
  <2> SUFFICES ASSUME IInv, GInv, NEW i \in DOMAIN original
               PROVE  Executions(i) <= original[i].maxAttempts
    BY DEF ExecutionsWithinBudget
  <2>1. i \in DOMAIN rows
    BY DEF GInv, RowsMirrorMemory, TableIsComplete
  <2>2. /\ rows[i].attempts <= rows[i].maxAttempts
        /\ rows[i].maxAttempts = original[i].maxAttempts
        /\ Executions(i) + UnderWay(i) = rows[i].attempts
    BY <2>1 DEF IInv, Budgets, Solvent, GInv, AttemptsAreExecutions
  <2>3. Executions(i) \in Nat /\ original[i].maxAttempts \in Nat
    BY NumbersAreNat DEF IInv
  <2>4. UnderWay(i) \in Nat
    BY DEF UnderWay
  <2> QED
    BY <2>2, <2>3, <2>4
<1> QED
  BY InductiveInvariant, GracefulInvariant, <1>1, PTL

-----------------------------------------------------------------------------
(* The table of a graceful life behaves as TaskLifecycle.                  *)

(* What TaskLifecycle sees of a row.                                       *)
View(row) ==
  [status |-> row.status, tries |-> row.attempts, budget |-> row.maxAttempts]

Table == [i \in DOMAIN rows |-> View(rows[i])]

(* A row that changes its status only is a move of TaskLifecycle.          *)
LEMMA RowMoves ==
  ASSUME NEW i \in DOMAIN rows, NEW from, NEW to,
         rows[i].status = from,
         DOMAIN rows' = DOMAIN rows,
         rows'[i].status = to,
         rows'[i].attempts = rows[i].attempts,
         rows'[i].maxAttempts = rows[i].maxAttempts,
         \A j \in DOMAIN rows \ {i} : rows'[j] = rows[j]
  PROVE  Lifecycle!Move(i, from, to)
<1>1. View(rows'[i]) = [View(rows[i]) EXCEPT !.status = to]
  BY DEF View
<1>2. Table' = [Table EXCEPT ![i].status = to]
  BY <1>1 DEF Table
<1>3. Table[i].status = from
  BY DEF Table, View
<1> QED
  BY <1>2, <1>3 DEF Lifecycle!Move, Table, View

(* A try changes two fields of what TaskLifecycle sees of a row.           *)
LEMMA TriedView ==
  ASSUME NEW row, NEW later, later.status = "running",
         later.attempts = row.attempts + 1,
         later.maxAttempts = row.maxAttempts
  PROVE  View(later)
           = [View(row) EXCEPT !.status = "running", !.tries = @ + 1]
<1> DEFINE after == [x \in DOMAIN View(row) |->
                       IF x = "tries" THEN View(row).tries + 1
                       ELSE IF x = "status" THEN "running"
                       ELSE View(row)[x]]
<1>1. [View(row) EXCEPT !.status = "running", !.tries = @ + 1] = after
  OBVIOUS
<1>2. after = View(later)
  BY DEF View
<1> QED
  BY <1>1, <1>2

(* Each shape moves at most one row, and as TaskLifecycle allows.          *)
LEMMA LifecycleStep ==
  ASSUME Graceful, TypeOK, Known, Budgets, GInv, [Next]_vars
  PROVE  Lifecycle!Next \/ UNCHANGED Table
<1> USE DEF GInv
<1>1. CASE Quiet \/ Records \/ Starts \/ Stops \/ Expires
  BY <1>1 DEF Quiet, taskVars, Records, Starts, Stops, Expires, Table
<1>2. CASE Adds \/ Repeats
  <2>1. PICK task : Gains(task)
    BY <1>2 DEF Adds, Repeats
  <2>2. /\ nextId \in Ids /\ nextId \notin DOMAIN rows
        /\ DOMAIN rows' = DOMAIN rows \cup {nextId}
        /\ rows'[nextId] = RowOf(task)
        /\ \A i \in DOMAIN rows : rows'[i] = rows[i]
    BY <2>1, GainedEntries DEF Known
  <2>3. View(rows'[nextId]) =
          [status |-> "pending", tries |-> 0, budget |-> task.maxAttempts]
    BY <2>1, <2>2 DEF Gains, RowOf, View
  <2>4. Table' = [j \in DOMAIN Table \cup {nextId} |->
                    IF j = nextId
                    THEN [status |-> "pending", tries |-> 0,
                          budget |-> task.maxAttempts]
                    ELSE Table[j]]
    BY <2>2, <2>3 DEF Table
  <2>5. Lifecycle!Submit(nextId, task.maxAttempts)
    BY <2>2, <2>4 DEF Lifecycle!Submit, Lifecycle!Known, Table, View
  <2> QED
    BY <2>1, <2>2, <2>5 DEF Lifecycle!Next, Gains
<1>3. CASE SucceedsOnce \/ SucceedsAgain \/ Fails \/ Requeues
  <2>1. PICK status :
          /\ Settles(status)
          /\ \/ status = "succeeded"
             \/ /\ status = "failed"
                /\ current.task.attempts >= current.task.maxAttempts
             \/ /\ status = "pending"
                /\ current.task.attempts < current.task.maxAttempts
    BY <1>3 DEF SucceedsOnce, SucceedsAgain, Fails, Requeues, Ends
  <2> DEFINE c == current.id
  <2>2. /\ c \in DOMAIN rows
        /\ rows[c].status = "running"
        /\ current.task \in Task
        /\ rows[c].attempts = current.task.attempts
        /\ rows[c].maxAttempts = current.task.maxAttempts
    <3>1. InHand
      BY <2>1 DEF Settles, InHand
    <3> QED
      BY <3>1, HandIsRunning, StatusInRow
  <2>3. Lifecycle!Move(c, "running", status)
    BY <2>1, <2>2, SettledEntries, RowMoves
  <2>4. /\ Table[c].tries = rows[c].attempts
        /\ Table[c].budget = rows[c].maxAttempts
        /\ c \in DOMAIN Table
    BY <2>2 DEF Table, View
  <2>5. rows[c].attempts <= rows[c].maxAttempts
    BY <2>2 DEF AttemptsAreExecutions
  <2>6. rows[c].attempts \in Nat /\ rows[c].maxAttempts \in Nat
    BY <2>2 DEF Task
  <2>7. CASE status = "succeeded"
    BY <2>3, <2>4, <2>7
    DEF Lifecycle!Succeed, Lifecycle!Next, Lifecycle!Known, Table, View
  <2>8. CASE status = "failed"
    <3>1. Table[c].tries = Table[c].budget
      BY <2>1, <2>2, <2>4, <2>5, <2>6, <2>8
    <3> QED
      BY <2>3, <2>4, <2>8, <3>1
      DEF Lifecycle!GiveUp, Lifecycle!Next, Lifecycle!Known, Table, View
  <2>9. CASE status = "pending"
    <3>1. Table[c].tries < Table[c].budget
      BY <2>1, <2>2, <2>4, <2>9
    <3> QED
      BY <2>3, <2>4, <2>9, <3>1
      DEF Lifecycle!Retry, Lifecycle!Next, Lifecycle!Known, Table, View
  <2> QED
    BY <2>1, <2>7, <2>8, <2>9
<1>4. CASE \E i \in Queued : Pops(i)
  <2> PICK i \in Queued : Pops(i)
    BY <1>4
  <2>1. /\ i \in DOMAIN rows
        /\ DOMAIN rows' = DOMAIN rows
        /\ rows'[i].status = "running"
        /\ rows'[i].attempts = rows[i].attempts + 1
        /\ rows'[i].maxAttempts = rows[i].maxAttempts
        /\ \A j \in DOMAIN rows \ {i} : rows'[j] = rows[j]
    BY PoppedEntries
  <2>2. rows[i].status = "pending"
    BY PoppedEntries
  <2>3. rows[i].attempts < rows[i].maxAttempts
    BY <2>1, <2>2 DEF Budgets, Solvent
  <2>4. View(rows'[i]) = [View(rows[i]) EXCEPT !.status = "running",
                                               !.tries = @ + 1]
    BY <2>1, TriedView
  <2>5. Table' = [Table EXCEPT ![i].status = "running", ![i].tries = @ + 1]
    BY <2>1, <2>4 DEF Table
  <2>6. /\ Table[i].status = "pending"
        /\ Table[i].tries < Table[i].budget
        /\ i \in DOMAIN Table
    BY <2>1, <2>2, <2>3 DEF Table, View
  <2>7. Lifecycle!Try(i)
    BY <2>5, <2>6 DEF Lifecycle!Try, Table, View
  <2> QED
    BY <2>6, <2>7 DEF Lifecycle!Next, Lifecycle!Known, Table, View
<1>5. CASE \E i \in Queued : Cancels(i)
  <2> PICK i \in Queued : Cancels(i)
    BY <1>5
  <2>1. rows[i].status = "pending" /\ i \in DOMAIN rows
    BY CancelledEntries
  <2>2. Lifecycle!Move(i, "pending", "cancelled")
    BY <2>1, CancelledEntries, RowMoves
  <2> QED
    BY <2>1, <2>2 DEF Lifecycle!Withdraw, Lifecycle!Next, Lifecycle!Known
<1> QED
  BY <1>1, <1>2, <1>3, <1>4, <1>5, GracefulShapes

(* The table of a graceful life is a TaskLifecycle: its rows are submitted *)
(* once, wait, are tried within their budget and, once finished, stay so.  *)
THEOREM TableIsALifecycle ==
  ASSUME Graceful PROVE Spec => LifecycleImplemented
<1>1. Init => Lifecycle!Init
  BY BoardDomains DEF Init, StoreInit, Lifecycle!Init
<1>2. IInv /\ GInv /\ [Next]_vars => Lifecycle!Next \/ UNCHANGED Table
  BY LifecycleStep DEF IInv
<1> QED
  BY InductiveInvariant, GracefulInvariant, <1>1, <1>2, PTL
  DEF Spec, LifecycleImplemented, Lifecycle!Spec, Table, View

-----------------------------------------------------------------------------
(* Terms are kept.                                                         *)

(* A deadline that was missed stays missed.                                *)
LEMMA ClockGrows ==
  ASSUME TypeOK, [Next]_vars
  PROVE  clock' = clock \/ clock' = clock + 1
BY DEF Next, Cycle, Outside, Environment, vars, envVars, Start, LoseMemory,
       Crash, LogError, DieInHandler, BeginCycle, SkipPlanning, PlanOnly,
       PlanSystemCheck, NextTask, NoTask, Execute, Record, Succeed, Requeue,
       Fail, Repeat, CheckpointNotDue, BeginCheckpoint, EndCheckpoint,
       RequestShutdown, BeginFinalCheckpoint, AbortShutdown,
       EndFinalCheckpoint, ClientAdd, ClientCancel, AdvanceClock

LEMMA OriginalsStay ==
  ASSUME Graceful, TypeOK, Known, GInv, [Next]_vars
  PROVE  \A i \in DOMAIN original : original'[i] = original[i]
<1>1. CASE \E task : Gains(task)
  BY <1>1, GainedEntries DEF GInv
<1>2. CASE original' = original
  BY <1>2
<1> QED
  BY <1>1, <1>2, GracefulShapes
  DEF Quiet, taskVars, Adds, Repeats, Records, SucceedsOnce, SucceedsAgain,
      Fails, Requeues, Stops, Starts, Expires, Ends, Settles, Pops, Cancels

LEMMA MissedStays ==
  ASSUME Graceful, TypeOK, Known, GInv, [Next]_vars,
         NEW i \in DOMAIN original, Missed(i)
  PROVE  Missed(i)'
<1>1. original'[i] = original[i]
  BY OriginalsStay
<1>2. original[i].deadline \in Nat /\ clock \in Nat
  BY TasksAssumption DEF TypeOK, IsBoard, Task, Optional, Missed
<1> QED
  BY <1>1, <1>2, ClockGrows DEF Missed

(* A task that is passed is as it was, or its deadline is over.            *)
LEMMA PassedTerms ==
  ASSUME QueueHasTerms, NEW i \in Queued, Passes(i)
  PROVE  AsSubmitted(i, queue'[i]) \/ Missed(i)
BY DEF QueueHasTerms, AsSubmitted, SameTerms, Passes, Missed

(* What the checkpoint holds waits, or its deadline is over.               *)
LEMMA FileWaits ==
  ASSUME FileHasAll, FileHasTerms, pc = "down", NEW i \in DOMAIN file.tasks
  PROVE  /\ file.tasks[i].status = "pending" \/ Missed(i)
         /\ RowOf([file.tasks[i] EXCEPT !.status = "pending"]) = rows[i]
BY DEF FileHasAll, FileHasTerms, AsSubmitted, Waiting

(* The tasks of the queue keep their terms.                                *)
LEMMA QueueTermsStep ==
  ASSUME Graceful, TypeOK, Known, GInv, TInv, [Next]_vars
  PROVE  QueueHasTerms'
<1> USE DEF GInv, TInv
<1>1. /\ \A i \in DOMAIN original : original'[i] = original[i]
      /\ \A i \in DOMAIN original : Missed(i) => Missed(i)'
      /\ Queued \subseteq DOMAIN original
  BY OriginalsStay, MissedStays DEF Known
<1>2. ASSUME \A i \in Queued' : i \in Queued /\ queue'[i] = queue[i]
      PROVE  QueueHasTerms'
  BY <1>1, <1>2 DEF QueueHasTerms, AsSubmitted, SameTerms
<1>3. ASSUME \A i \in Queued' : i \in Queued /\ Passes(i)
      PROVE  QueueHasTerms'
  <2>1. \A i \in Queued' : /\ i \in DOMAIN original
                           /\ AsSubmitted(i, queue'[i]) \/ Missed(i)
    BY <1>1, <1>3, PassedTerms
  <2> QED
    BY <1>1, <2>1 DEF QueueHasTerms, AsSubmitted, SameTerms
<1>4. CASE \/ Quiet \/ Records \/ SucceedsOnce \/ SucceedsAgain \/ Fails
           \/ Stops \/ \E i \in Queued : Cancels(i)
  <2>1. \A i \in Queued' : i \in Queued /\ queue'[i] = queue[i]
    BY <1>4, CancelledEntries, BoardDomains
       DEF Quiet, taskVars, Records, SucceedsOnce, SucceedsAgain, Fails,
           Ends, Settles, Stops, Queued
  <2> QED
    BY <1>2, <2>1
<1>5. CASE Adds \/ Repeats
  <2>1. PICK task : Gains(task)
    BY <1>5 DEF Adds, Repeats
  <2>2. /\ Queued' = Queued \cup {nextId}
        /\ original'[nextId] = task /\ queue'[nextId] = task
        /\ task.status = "pending"
        /\ \A i \in Queued : queue'[i] = queue[i]
    BY <2>1, GainedEntries DEF Gains
  <2> QED
    BY <1>1, <2>2 DEF QueueHasTerms, AsSubmitted, SameTerms
<1>6. CASE Requeues
  <2>1. /\ queue' = Put(queue, current.id, Settled("pending"))
        /\ InHand
    BY <1>6 DEF Requeues, Settles, InHand
  <2>2. /\ current # None /\ current.task \in Task
        /\ current.id \in DOMAIN original
    BY <2>1, HandIsRunning
  <2>3. \/ AsSubmitted(current.id, Settled("pending"))
        \/ Missed(current.id)
    BY <2>2, StatusKeepsTerms, WithStatus
       DEF HandHasTerms, AsSubmitted, Settled
  <2>4. /\ Queued' = Queued \cup {current.id}
        /\ queue'[current.id] = Settled("pending")
        /\ \A i \in Queued : i # current.id => queue'[i] = queue[i]
    BY <2>1 DEF Put, Queued
  <2> HIDE DEF Settled
  <2> QED
    BY <1>1, <2>2, <2>3, <2>4 DEF QueueHasTerms, AsSubmitted, SameTerms
<1>7. CASE Starts
  <2>1. pc = "down" /\ original' = original
    BY <1>7 DEF Starts
  <2>2. ASSUME NEW i \in Queued'
        PROVE  /\ i \in DOMAIN original
               /\ AsSubmitted(i, queue'[i]) \/ Missed(i)
    <3>1. /\ i \in DOMAIN file.tasks
          /\ file.tasks[i].status = "pending" => queue'[i] = file.tasks[i]
      BY <1>7, RestoredEntries
    <3> QED
      BY <2>1, <3>1, FileWaits DEF FileHasTerms, Known
  <2> QED
    BY <1>1, <2>2 DEF QueueHasTerms, AsSubmitted, SameTerms
<1>8. CASE Expires \/ \E i \in Queued : Pops(i)
  <2>1. \A i \in Queued' : i \in Queued /\ Passes(i)
    BY <1>8 DEF Expires, Pops
  <2> QED
    BY <1>3, <2>1
<1> QED
  BY <1>4, <1>5, <1>6, <1>7, <1>8, GracefulShapes

(* So does the task in hand.                                               *)
LEMMA HandTermsStep ==
  ASSUME Graceful, TypeOK, Known, GInv, TInv, [Next]_vars
  PROVE  HandHasTerms'
<1> USE DEF GInv, TInv
<1>1. /\ \A i \in DOMAIN original : original'[i] = original[i]
      /\ \A i \in DOMAIN original : Missed(i) => Missed(i)'
      /\ Queued \subseteq DOMAIN original
      /\ current # None => current.id \in DOMAIN original
  BY OriginalsStay, MissedStays DEF Known
<1>2. CASE current' = current \/ current' = None
  BY <1>1, <1>2 DEF HandHasTerms, SameTerms
<1>3. CASE \E i \in Queued : Pops(i)
  <2> PICK i \in Queued : Pops(i)
    BY <1>3
  <2>1. current'.id = i /\ current'.task = Started(i)
    BY DEF Pops
  <2>2. SameTerms(i, Started(i)) \/ Missed(i)
    BY StartedKeepsTerms DEF QueueHasTerms, AsSubmitted, TypeOK
  <2> QED
    BY <1>1, <2>1, <2>2 DEF HandHasTerms, SameTerms
<1> QED
  BY <1>2, <1>3, GracefulShapes
  DEF Quiet, taskVars, Adds, Repeats, Records, SucceedsOnce, SucceedsAgain,
      Fails, Requeues, Stops, Starts, Expires, Ends, Cancels

(* The checkpoint of a stop has the terms of all that is pending.          *)
LEMMA FileTermsStep ==
  ASSUME Graceful, TypeOK, Known, GInv, TInv, [Next]_vars
  PROVE  FileHasTerms'
<1> USE DEF GInv, TInv
<1>1. /\ \A i \in DOMAIN original : original'[i] = original[i]
      /\ \A i \in DOMAIN original : Missed(i) => Missed(i)'
      /\ Queued \subseteq DOMAIN original
      /\ DOMAIN file.tasks \subseteq DOMAIN original
  BY OriginalsStay, MissedStays DEF Known
<1>2. CASE Quiet
  <2>1. pc' = "down" => pc = "down" /\ file' = file
    BY <1>2 DEF Quiet
  <2> QED
    BY <1>1, <2>1 DEF FileHasTerms, AsSubmitted, SameTerms
<1>3. CASE Stops
  <2>1. file'.tasks = queue
    BY <1>3 DEF Stops
  <2> QED
    BY <1>1, <2>1
    DEF FileHasTerms, QueueHasTerms, AsSubmitted, SameTerms, Queued
<1>4. CASE \/ Adds \/ Repeats \/ Records \/ SucceedsOnce \/ SucceedsAgain
           \/ Fails \/ Requeues \/ Starts \/ Expires
           \/ \E i \in Queued : Pops(i) \/ Cancels(i)
  <2>1. pc' # "down"
    BY <1>4 DEF Adds, Repeats, Records, SucceedsOnce, SucceedsAgain, Fails,
                Requeues, Starts, Expires, Ends, Pops, Cancels
  <2> QED
    BY <2>1 DEF FileHasTerms
<1> QED
  BY <1>2, <1>3, <1>4, GracefulShapes

-----------------------------------------------------------------------------
(* Recurrence continues.                                                   *)
LEMMA RecurrenceStep ==
  ASSUME Graceful, TypeOK, Known, GInv, TInv, [Next]_vars
  PROVE  RecurrenceContinues'
<1> USE DEF GInv, TInv
<1>1. /\ \A i \in DOMAIN rows : original'[i] = original[i]
      /\ \A i \in DOMAIN rows : Missed(i) => Missed(i)'
  BY OriginalsStay, MissedStays DEF Known
<1>2. CASE Quiet \/ Records \/ Starts \/ Stops \/ Expires
  <2>1. /\ UNCHANGED <<rows, successor>>
        /\ pc = "repeat" => pc' = "repeat" /\ current' = current
    BY <1>2 DEF Quiet, taskVars, Records, Starts, Stops, Expires
  <2> QED
    BY <1>1, <2>1 DEF RecurrenceContinues
<1>3. CASE Adds \/ Repeats
  <2>1. PICK task : Gains(task)
    BY <1>3 DEF Adds, Repeats
  <2>2. /\ DOMAIN rows' = DOMAIN rows \cup {nextId}
        /\ rows'[nextId] = RowOf(task)
        /\ \A i \in DOMAIN rows : rows'[i] = rows[i]
    BY <2>1, GainedEntries
  <2>3. rows'[nextId].status # "succeeded"
    BY <2>1, <2>2 DEF Gains, RowOf
  <2>4. CASE Adds
    <3>1. /\ UNCHANGED <<successor, current>>
          /\ pc = "repeat" => pc' = "repeat"
      BY <2>4 DEF Adds
    <3> QED
      BY <1>1, <2>2, <2>3, <3>1 DEF RecurrenceContinues
  <2>5. CASE Repeats
    <3>1. successor' = Put(successor, current.id, nextId)
      BY <2>5 DEF Repeats
    <3>2. /\ DOMAIN successor' = DOMAIN successor \cup {current.id}
          /\ successor'[current.id] = nextId
          /\ \A i \in DOMAIN successor :
               successor'[i] = successor[i] \/ successor'[i] = nextId
      BY <3>1 DEF Put
    <3> QED
      BY <1>1, <2>2, <2>3, <3>2 DEF RecurrenceContinues
  <2> QED
    BY <1>3, <2>4, <2>5
<1>4. CASE SucceedsOnce \/ SucceedsAgain \/ Fails \/ Requeues
  <2>1. PICK status : /\ Settles(status)
                      /\ \/ status # "succeeded"
                         \/ current.task.repeat = None
                         \/ pc' = "repeat" /\ current' = current
    BY <1>4 DEF SucceedsOnce, SucceedsAgain, Fails, Requeues, Ends
  <2>2. /\ DOMAIN rows' = DOMAIN rows
        /\ rows'[current.id].status = status
        /\ \A i \in DOMAIN rows \ {current.id} : rows'[i] = rows[i]
    BY <2>1, SettledEntries
  <2>3. /\ UNCHANGED successor /\ pc = "settle"
        /\ \/ original[current.id].repeat = current.task.repeat
           \/ Missed(current.id)
    BY <2>1, HandIsRunning DEF Settles, InHand, HandHasTerms, SameTerms
  <2> QED
    BY <1>1, <2>1, <2>2, <2>3 DEF RecurrenceContinues
<1>5. CASE \E i \in Queued : Pops(i) \/ Cancels(i)
  <2> PICK i \in Queued : Pops(i) \/ Cancels(i)
    BY <1>5
  <2>1. /\ DOMAIN rows' = DOMAIN rows
        /\ rows'[i].status # "succeeded"
        /\ \A j \in DOMAIN rows \ {i} : rows'[j] = rows[j]
    BY PoppedEntries, CancelledEntries
  <2>2. /\ UNCHANGED successor
        /\ pc = "repeat" => pc' = "repeat" /\ current' = current
    BY DEF Pops, Cancels
  <2> QED
    BY <1>1, <2>1, <2>2 DEF RecurrenceContinues
<1> QED
  BY <1>2, <1>3, <1>4, <1>5, GracefulShapes

-----------------------------------------------------------------------------
(* The theorems about the terms of graceful lives.                         *)

(* The invariant of terms holds in every reachable state of a graceful     *)
(* life.                                                                   *)
THEOREM TermsInvariant ==
  ASSUME Graceful PROVE Spec => []TInv
<1>1. Init => TInv
  BY BoardDomains
  DEF Init, StoreInit, PlannerInit, TInv, QueueHasTerms, HandHasTerms,
      FileHasTerms, RecurrenceContinues, Queued
<1>2. IInv /\ GInv /\ TInv /\ [Next]_vars => TInv'
  BY QueueTermsStep, HandTermsStep, FileTermsStep, RecurrenceStep
  DEF IInv, TInv
<1> QED
  BY InductiveInvariant, GracefulInvariant, <1>1, <1>2, PTL DEF Spec

(* In a graceful life every waiting task whose deadline is not over keeps  *)
(* the terms it was submitted under, which only the checkpoint carries     *)
(* across a restart.                                                       *)
THEOREM TermsAreAlwaysKept ==
  ASSUME Graceful PROVE Spec => []TermsAreKept
<1>1. TInv => TermsAreKept
  BY DEF TInv, QueueHasTerms, AsSubmitted, SameTerms, TermsAreKept
<1> QED
  BY TermsInvariant, <1>1, PTL

(* In a graceful life a recurring task that succeeded has its successor,   *)
(* unless its deadline is over.                                            *)
THEOREM RecurrenceIsContinued ==
  ASSUME Graceful PROVE Spec => []RecurrenceContinues
<1>1. TInv => RecurrenceContinues
  BY DEF TInv
<1> QED
  BY TermsInvariant, <1>1, PTL

(* In a graceful life a stop leaves a checkpoint and a table that agree,   *)
(* but for the verdict on a missed deadline.                               *)
THEOREM StopsLeaveAgreement ==
  ASSUME Graceful PROVE Spec => []StopLeavesAgreement
<1>1. IInv /\ GInv /\ TInv => StopLeavesAgreement
  BY FileWaits
  DEF IInv, GInv, TInv, FileHasAll, RowsMirrorMemory, RowsAreKnown, InHand,
      ListTasks, StopLeavesAgreement
<1> QED
  BY InductiveInvariant, GracefulInvariant, TermsInvariant, <1>1, PTL

(* In a graceful life a task whose deadline is not over runs only after    *)
(* all that it was submitted to depend on has succeeded.                   *)
THEOREM DependenciesAreRespected ==
  ASSUME Graceful PROVE Spec => []DependenciesRespected
<1>1. IInv /\ TInv => DependenciesRespected
  BY DEF IInv, Verdicts, CompletedDidSucceed, TInv, HandHasTerms, SameTerms,
         DependenciesRespected
<1> QED
  BY InductiveInvariant, TermsInvariant, <1>1, PTL
=============================================================================
