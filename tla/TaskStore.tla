----------------------------- MODULE TaskStore -----------------------------
(***************************************************************************)
(* The in-memory table of tasks (taskStore in src/ex_app/main.go) and the  *)
(* operations on it.  Each runs under the lock of the table and is one     *)
(* step.  Progress, messages and time stamps are left out; an error text   *)
(* is the class of texts it belongs to:                                    *)
(*   "cancelled"    "Otmeneno polzovatelem" (cancelled by the user)        *)
(*   "timeout"      the deadline of the job has passed                     *)
(*   "not_deleted"  the original is not deleted, with the saved path       *)
(*   "failed"       any other failure, with its cause                      *)
(***************************************************************************)
CONSTANTS
    Jobs,    \* one task per accepted conversion
    NoTask,  \* the id is not in the table
    NoPath   \* RemoteOutput is empty

VARIABLE task

Statuses == {"queued", "downloading", "preparing", "converting", "uploading",
             "finishing", "done", "error"}
Errors == {"none", "cancelled", "timeout", "not_deleted", "failed"}
Terminal == {"done", "error"}

Task(paths) ==
    [status : Statuses, error : Errors, output : paths \union {NoPath},
     cancelled : BOOLEAN,   \* Task.cancelled
     cancel : BOOLEAN]      \* Task.cancel # nil

Stored(j) == task[j] # NoTask
Done(j) == Stored(j) /\ task[j].status = "done"

\* newTask
NewTask(j) ==
    task' = [task EXCEPT ![j] = [status |-> "queued", error |-> "none", output |-> NoPath,
                                 cancelled |-> FALSE, cancel |-> TRUE]]

\* Mutation of UpdateTask: a cancelled task is still updated.
UpdateTask_Always(j, t) ==
    task' = IF Stored(j) THEN [task EXCEPT ![j] = t] ELSE task

\* updateTask: nothing happens to a task that is gone or cancelled.
UpdateTask(j, t) ==
    task' = IF Stored(j) /\ ~task[j].cancelled THEN [task EXCEPT ![j] = t] ELSE task

SetTaskStatus(j, status) == UpdateTask(j, [task[j] EXCEPT !.status = status])

SetTaskError(j, error) ==
    UpdateTask(j, [task[j] EXCEPT !.status = "error", !.error = error])

\* The last update of processTask.
SetTaskDone(j, path) ==
    UpdateTask(j, [task[j] EXCEPT !.status = "done", !.output = path])

\* The locked part of makeCancelHandler, for a request of the task's owner;
\* the answers 404, 200 (already cancelled) and 409 change nothing.
Cancellable(j) == Stored(j) /\ ~task[j].cancelled /\ task[j].status \notin Terminal

MarkCancelled(j) ==
    task' = [task EXCEPT ![j].cancelled = TRUE, ![j].status = "error", ![j].error = "cancelled"]

\* task.cancel = nil, when the task is still there.
DropCancel(j) ==
    task' = IF Stored(j) THEN [task EXCEPT ![j].cancel = FALSE] ELSE task

\* pruneOldTasks
Prunable(j) == Stored(j) /\ task[j].status \in Terminal
Prune(j) == task' = [task EXCEPT ![j] = NoTask]
=============================================================================
