------------------------------ MODULE Planner ------------------------------
(***************************************************************************)
(* The task queue and its operations (Caine/core/planner.py), each with    *)
(* the save it makes through the memory store.  The queue is kept as a     *)
(* function from the ids it holds to their records: the code sorts the     *)
(* list after every append and before every pop, so a position in it is    *)
(* determined by Precedes.                                                 *)
(*                                                                         *)
(* A parameter commit says whether the operation's save takes effect; when *)
(* it does not, the code raises after it has changed memory.               *)
(***************************************************************************)
EXTENDS MemoryStore

VARIABLES
  queue,              (* _queue: id -> Task                                 *)
  completed,          (* _completed_task_ids                                *)
  nextId,             (* the next uuid                                      *)
  original,           (* history: each task as it was first given to        *)
                      (* add_task                                           *)
  successor           (* history: a completed task's next occurrence        *)

plannerVars == <<queue, completed, nextId, original, successor>>

Queued == DOMAIN queue

PlannerInit ==
  /\ queue = EmptyBoard
  /\ completed = {}
  /\ nextId = 1
  /\ original = EmptyBoard
  /\ successor = EmptyBoard

(* Slips: the table is not consulted; attempts start from zero again.      *)
RestoredFromFile(saved) ==
  [i \in {j \in DOMAIN saved : saved[j].status = "pending"} |-> saved[i]]

RestoredAfresh(saved) ==
  LET fromFile == {i \in DOMAIN saved : saved[i].status = "pending"}
  IN [i \in fromFile \cup ListTasks("pending") |->
        [(IF i \in fromFile THEN saved[i] ELSE TaskOf(rows[i]))
           EXCEPT !.attempts = 0]]

(* restore: the checkpoint's pending tasks, then the pending rows that the *)
(* checkpoint does not name.                                               *)
Restored(saved) ==
  LET fromFile == {i \in DOMAIN saved : saved[i].status = "pending"}
  IN [i \in fromFile \cup ListTasks("pending") |->
        IF i \in fromFile THEN saved[i] ELSE TaskOf(rows[i])]

(* Slip: whatever is not waiting counts as completed.                      *)
RestoreGenerous ==
  /\ queue' = Restored(LoadCheckpoint)
  /\ completed' = DOMAIN rows \ ListTasks("pending")

Restore ==
  /\ queue' = Restored(LoadCheckpoint)
  /\ completed' = ListTasks("succeeded")

(* add_task, with a fresh uuid.                                            *)
AddTask(task, commit) ==
  /\ nextId \in Ids
  /\ queue' = Put(queue, nextId, task)
  /\ nextId' = nextId + 1
  /\ original' = Put(original, nextId, task)
  /\ SaveTask(nextId, task, commit)

(* Slip: a copy is marked and saved, and the queue keeps the original.     *)
CancelCopy(i, commit) ==
  /\ i \in Queued
  /\ SaveTask(i, [queue[i] EXCEPT !.status = "cancelled"], commit)
  /\ queue' = queue

(* cancel_task of a task that is in the queue; the record leaves the queue *)
(* only after its save.                                                    *)
CancelTask(i, commit) ==
  LET cancelled == [queue[i] EXCEPT !.status = "cancelled"]
  IN /\ i \in Queued
     /\ SaveTask(i, cancelled, commit)
     /\ queue' = IF commit THEN Restrict(queue, Queued \ {i})
                           ELSE [queue EXCEPT ![i] = cancelled]

(* plan: the priority of the goal chosen from the observed state.          *)
GoalPriority(internet, diskFull) ==
  IF ~internet THEN 10 ELSE IF diskFull THEN 20 ELSE 100

-----------------------------------------------------------------------------
(* next_task walks the sorted queue up to the first runnable task.  Each   *)
(* pending task it passes whose deadline is over is marked failed, in      *)
(* memory only: it stays in the queue and its row is not saved.            *)

IsRunnable(i, now) == Runnable(queue[i], now, completed)

First(i, now) ==
  /\ i \in Queued
  /\ IsRunnable(i, now)
  /\ \A j \in Queued \ {i} :
       IsRunnable(j, now) => Precedes(i, queue[i], j, queue[j])

WithExpired(passed, now) ==
  [j \in Queued |->
     IF j \in passed /\ MissedDeadline(queue[j], now)
     THEN [queue[j] EXCEPT !.status = "failed"]
     ELSE queue[j]]

Started(i) ==
  [queue[i] EXCEPT !.status = "running", !.attempts = @ + 1]

PopTask(i, now, commit) ==
  LET passed == {j \in Queued : Precedes(j, queue[j], i, queue[i])}
  IN /\ First(i, now)
     /\ queue' = Restrict(WithExpired(passed, now), Queued \ {i})
     /\ SaveTask(i, Started(i), commit)

PopNothing(now) ==
  /\ \A i \in Queued : ~IsRunnable(i, now)
  /\ queue' = WithExpired(Queued, now)

-----------------------------------------------------------------------------
(* What becomes of an executed task.                                       *)

(* Slips: one try too many; the save is forgotten; the append is.          *)
RequeueOnceMore(i, task, commit) ==
  LET again == [task EXCEPT !.status = "pending"]
  IN /\ task.attempts <= task.maxAttempts
     /\ queue' = Put(queue, i, again)
     /\ SaveTask(i, again, commit)

RequeueUnsaved(i, task, commit) ==
  /\ task.attempts < task.maxAttempts
  /\ queue' = Put(queue, i, [task EXCEPT !.status = "pending"])
  /\ rows' = rows


RequeueTask(i, task, commit) ==
  LET again == [task EXCEPT !.status = "pending"]
  IN /\ task.attempts < task.maxAttempts
     /\ queue' = Put(queue, i, again)
     /\ SaveTask(i, again, commit)

FailTask(i, task, commit) ==
  /\ task.attempts >= task.maxAttempts
  /\ SaveTask(i, [task EXCEPT !.status = "failed"], commit)

(* complete_successfully up to its first save; the recurrence, if any, is  *)
(* added after it, in a step of its own.                                   *)
CompleteTask(i, task, commit) ==
  /\ completed' = completed \cup {i}
  /\ SaveTask(i, [task EXCEPT !.status = "succeeded"], commit)

AddRecurrence(i, task, now, commit) ==
  /\ AddTask(Recurrence(task, now), commit)
  /\ successor' = Put(successor, i, nextId)
=============================================================================
