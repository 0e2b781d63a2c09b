---------------------------- MODULE MemoryStore ----------------------------
(***************************************************************************)
(* The durable state: the tasks and experiences tables of the SQLite       *)
(* database and the checkpoint file beside it (Caine/memory/store.py).     *)
(* Every table operation is one statement and one commit in a worker       *)
(* thread, awaited by the caller: it takes effect entirely or not at all,  *)
(* and may raise either way.                                               *)
(* The checkpoint is not written that way: Path.write_text truncates the   *)
(* file and then fills it, so the file is "torn" in between.               *)
(*                                                                         *)
(* Left out: goals, memories and errors, which are written and never read  *)
(* back by the program, and the connection, which is open whenever the     *)
(* process runs.                                                           *)
(***************************************************************************)
EXTENDS Tasks

CONSTANT
  StoreFaults         (* whether an operation of the store may raise        *)

ASSUME StoreAssumption == StoreFaults \in BOOLEAN

VARIABLES
  rows,               (* tasks table: id -> Row                             *)
  experiences,        (* experiences table, counted by task and outcome     *)
  file                (* the checkpoint file                                *)

storeVars == <<rows, experiences, file>>

(* The outcomes a store operation can have: FALSE when it raises.          *)
Commits == IF StoreFaults THEN BOOLEAN ELSE {TRUE}

EmptyBoard == [i \in {} |-> None]

StoreInit ==
  /\ rows = EmptyBoard
  /\ experiences = [i \in Ids |-> [ok |-> 0, bad |-> 0]]
  /\ file = [kind |-> "absent", tasks |-> EmptyBoard]

(* INSERT ... ON CONFLICT(id) DO UPDATE: the last save wins.  An operation *)
(* that raises may have done so in its commit; its statement then takes    *)
(* effect with the next one.                                               *)
SaveTask(i, task, commit) ==
  LET saved == Put(rows, i, RowOf(task))
  IN rows' \in IF commit THEN {saved} ELSE {rows, saved}

ListTasks(status) == {i \in DOMAIN rows : rows[i].status = status}

(* Experiences are appended, never updated.                                *)
RecordExperience(i, success, commit) ==
  LET recorded == IF success THEN [experiences EXCEPT ![i].ok = @ + 1]
                             ELSE [experiences EXCEPT ![i].bad = @ + 1]
  IN experiences' \in IF commit THEN {recorded} ELSE {experiences, recorded}

(* persist_checkpoint in its two halves: the open that truncates, and the  *)
(* write that completes the file, or fails and leaves it torn.             *)
TruncateCheckpoint == file' = [kind |-> "torn", tasks |-> EmptyBoard]

WriteCheckpoint(queue, written) ==
  file' = IF written THEN [kind |-> "whole", tasks |-> queue] ELSE file

(* load_checkpoint raises on a torn file (its text is not JSON), and       *)
(* otherwise returns every task as it was saved, all of its fields kept.   *)
CheckpointReadable == file.kind # "torn"

(* Slip: the file holds no more of a task than its row does.               *)
LoadCheckpointAsRows ==
  [i \in DOMAIN file.tasks |-> TaskOf(RowOf(file.tasks[i]))]

LoadCheckpoint == file.tasks
=============================================================================
