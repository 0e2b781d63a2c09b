------------------------------- MODULE Tasks -------------------------------
(***************************************************************************)
(* The data the planner and the memory store exchange: the Task record of  *)
(* Caine/core/models.py, what the SQLite table keeps of it, the queue's    *)
(* sort key and the test that decides whether a task may run.              *)
(*                                                                         *)
(* A task's uuid is a number in Ids, drawn in increasing order; its kind,  *)
(* payload, updated_at and cancelled_reason are left out, since nothing    *)
(* reads them to decide what happens next.  Times are instants of a        *)
(* discrete clock.                                                         *)
(***************************************************************************)
EXTENDS Naturals, Functions

CONSTANTS
  None,               (* Python's None                                      *)
  MaxTasks,           (* bound: how many uuids are ever drawn               *)
  DefaultMaxAttempts, (* Task.max_attempts when the caller gives none       *)
  Profiles            (* what clients of the planner ask for                *)

Ids == 1 .. MaxTasks

Optional(S) == S \cup {None}

Statuses == {"pending", "running", "succeeded", "failed", "cancelled"}

Terminal == {"succeeded", "failed", "cancelled"}

Task ==
  [priority : Nat, status : Statuses, attempts : Nat,
   maxAttempts : Nat \ {0}, deps : SUBSET Ids,
   notBefore : Optional(Nat), deadline : Optional(Nat),
   repeat : Optional(Nat \ {0}), created : Nat]

(* A caller's choices: everything about a task but its dependencies, which *)
(* are drawn from the tasks that exist when it is submitted.               *)
Profile ==
  [priority : Nat, maxAttempts : Nat \ {0}, notBefore : Optional(Nat),
   deadline : Optional(Nat), repeat : Optional(Nat \ {0})]

(* A board holds one record of the set S for each of the ids it knows.     *)
IsBoard(f, S) == DOMAIN f \subseteq Ids /\ f \in [DOMAIN f -> S]

Put(f, i, x) == [j \in DOMAIN f \cup {i} |-> IF j = i THEN x ELSE f[j]]

ASSUME TasksAssumption ==
  /\ None \notin Nat
  /\ MaxTasks \in Nat
  /\ DefaultMaxAttempts \in Nat \ {0}
  /\ Profiles \subseteq Profile

-----------------------------------------------------------------------------
(* Task(...) as its callers build it.                                      *)

NewTask(profile, deps, now) ==
  [priority |-> profile.priority, status |-> "pending", attempts |-> 0,
   maxAttempts |-> profile.maxAttempts, deps |-> deps,
   notBefore |-> profile.notBefore, deadline |-> profile.deadline,
   repeat |-> profile.repeat, created |-> now]

SystemCheck(priority, now) ==
  NewTask([priority |-> priority, maxAttempts |-> DefaultMaxAttempts,
           notBefore |-> None, deadline |-> None, repeat |-> None], {}, now)

(* Slip: the next occurrence gets what is left of the budget.              *)
RecurrenceWithRest(task, now) ==
  NewTask([priority |-> task.priority,
           maxAttempts |-> task.maxAttempts - task.attempts,
           notBefore |-> now + task.repeat, deadline |-> None,
           repeat |-> task.repeat], task.deps, now)

(* The next occurrence of a recurring task: the budget falls back to the   *)
(* default and the deadline is not carried over.                           *)
Recurrence(task, now) ==
  NewTask([priority |-> task.priority, maxAttempts |-> DefaultMaxAttempts,
           notBefore |-> now + task.repeat, deadline |-> None,
           repeat |-> task.repeat], task.deps, now)

-----------------------------------------------------------------------------
(* The tasks table has no columns for dependencies, not_before, deadline   *)
(* or repeat_interval_seconds, so reading a row back gives their defaults. *)

Row ==
  [priority : Nat, status : Statuses, attempts : Nat,
   maxAttempts : Nat \ {0}, created : Nat]

RowOf(task) ==
  [priority |-> task.priority, status |-> task.status,
   attempts |-> task.attempts, maxAttempts |-> task.maxAttempts,
   created |-> task.created]

TaskOf(row) ==
  [priority |-> row.priority, status |-> row.status,
   attempts |-> row.attempts, maxAttempts |-> row.maxAttempts,
   deps |-> {}, notBefore |-> None, deadline |-> None, repeat |-> None,
   created |-> row.created]

-----------------------------------------------------------------------------
(* The queue's order: priority, then not_before or else created_at, then   *)
(* deadline (none is last), then created_at.  Two tasks created at the     *)
(* same instant of the model's clock are in the order of their ids, as     *)
(* their real timestamps are.                                              *)

SortKey(i, task) ==
  << task.priority,
     IF task.notBefore = None THEN task.created ELSE task.notBefore,
     IF task.deadline = None THEN 1 ELSE 0,
     IF task.deadline = None THEN 0 ELSE task.deadline,
     task.created,
     i >>

Precedes(i, task, j, other) ==
  LET a == SortKey(i, task)
      b == SortKey(j, other)
  IN \E n \in 1 .. 6 : /\ a[n] < b[n]
                       /\ \A m \in 1 .. n - 1 : a[m] = b[m]

-----------------------------------------------------------------------------
(* The three tests of _is_runnable, in the order the code makes them.      *)

Due(task, now) ==
  /\ task.status = "pending"
  /\ task.notBefore # None => task.notBefore <= now

MissedDeadline(task, now) ==
  /\ Due(task, now)
  /\ task.deadline # None
  /\ task.deadline < now

(* Slip: any() for all().                                                  *)
RunnableOnAny(task, now, completed) ==
  /\ Due(task, now)
  /\ ~MissedDeadline(task, now)
  /\ task.deps # {} => task.deps \cap completed # {}

Runnable(task, now, completed) ==
  /\ Due(task, now)
  /\ ~MissedDeadline(task, now)
  /\ task.deps \subseteq completed
=============================================================================
