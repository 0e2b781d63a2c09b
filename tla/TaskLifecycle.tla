--------------------------- MODULE TaskLifecycle ---------------------------
(***************************************************************************)
(* What the tasks table promises whoever reads it: a task is submitted     *)
(* once, waits, is tried at most as often as its budget allows, each try   *)
(* ending in success, in a return to waiting or, on the last one, in       *)
(* failure; and a finished task never changes again.                       *)
(***************************************************************************)
EXTENDS Naturals

CONSTANTS
  Id,                 (* what a task may be called                          *)
  Budget              (* how many tries a task may be granted, at least 1  *)

VARIABLE
  task                (* the submitted tasks: id -> [status, tries, budget] *)

Init == DOMAIN task = {}

Known == DOMAIN task

Submit(i, budget) ==
  /\ i \notin Known
  /\ task' = [j \in Known \cup {i} |->
                IF j = i
                THEN [status |-> "pending", tries |-> 0, budget |-> budget]
                ELSE task[j]]

Move(i, from, to) ==
  /\ task[i].status = from
  /\ task' = [task EXCEPT ![i].status = to]

Try(i) ==
  /\ task[i].status = "pending"
  /\ task[i].tries < task[i].budget
  /\ task' = [task EXCEPT ![i].status = "running", ![i].tries = @ + 1]

Retry(i) == task[i].tries < task[i].budget /\ Move(i, "running", "pending")

Succeed(i) == Move(i, "running", "succeeded")

GiveUp(i) == task[i].tries = task[i].budget /\ Move(i, "running", "failed")

Withdraw(i) == Move(i, "pending", "cancelled")

Next ==
  \/ \E i \in Id, budget \in Budget : Submit(i, budget)
  \/ \E i \in Known :
       Try(i) \/ Retry(i) \/ Succeed(i) \/ GiveUp(i) \/ Withdraw(i)

Spec == Init /\ [][Next]_task
=============================================================================
