--------------------------- MODULE MCTaskRuntime ---------------------------
(***************************************************************************)
(* Instances of TaskRuntime for TLC.  Each set of profiles is what the     *)
(* clients of the planner submit in one of the runs.                       *)
(***************************************************************************)
EXTENDS TaskRuntime

Plain == [priority |-> 50, maxAttempts |-> 2, notBefore |-> None,
          deadline |-> None, repeat |-> None]

Delayed == [Plain EXCEPT !.notBefore = 1]

Urgent == [Plain EXCEPT !.deadline = 0]

Recurring == [Plain EXCEPT !.repeat = 1, !.maxAttempts = 1]

UrgentRecurring == [Recurring EXCEPT !.deadline = 0]

PlainOnly == {Plain}
Everything == {Plain, Delayed, Urgent, Recurring}
DelayedOrUrgent == {Delayed, UrgentRecurring}
UrgentOnly == {Urgent}

Calm == {[internet |-> TRUE, diskFull |-> FALSE]}
AnyObservation == [internet : BOOLEAN, diskFull : BOOLEAN]
=============================================================================
