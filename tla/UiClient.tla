------------------------------ MODULE UiClient ------------------------------
(***************************************************************************)
(* The conversion page in the browser, src/ex_app/ui/app.js, against the   *)
(* table of tasks: submit, poll and cancel, over requests that fail before *)
(* or after the service acted on them, with pages that are reloaded, tasks *)
(* that are pruned and a service that restarts.                            *)
(*                                                                         *)
(* A page runs one handler of its submit button, which waits for the       *)
(* answer to the submission and then polls.  The cancel button sends its   *)
(* request beside it and ignores the answer.  The table is TaskStore under *)
(* the ids newTask gives out; which conversion an id stands for is in      *)
(* jobAt, which no part of the program sees.                               *)
(***************************************************************************)
EXTENDS Naturals, FiniteSets

CONSTANTS
    Pages,        \* open pages
    UserOf,       \* the user of each page
    NoTask, NoPath, NoUser,
    MaxJobs,      \* bound on conversions accepted
    MaxRestarts   \* bound on restarts of the service

ASSUME UiAssumption == MaxJobs \in Nat /\ MaxRestarts \in Nat

VARIABLES
    \* the service
    task,         \* taskStore.m, by the number in the id
    owner,        \* Task.UserID
    taskCounter,
    restarts,     \* restarts of the service so far
    \* the conversions, whatever the table says of them
    jobAt,        \* the conversion each id was given to
    result,       \* what became of each conversion
    created,      \* conversions accepted so far
    \* the pages
    at,           \* where the handler of the submit button is
    submitOn,     \* submitBtn can be pressed
    cancelBtn,    \* cancelBtn: hidden, on, or off once pressed
    currentTaskId,
    shown,        \* the end of a task, when the status line shows one
    late,         \* three hours have passed since polling began
    reply,        \* the answer to the request the handler waits for
    own,          \* the conversion the last submission of the page began
    since,        \* restarts when it did
    \* cancel requests
    cancels       \* on their way

table == <<task, owner, taskCounter, restarts>>
truth == <<jobAt, result, created>>
buttons == <<submitOn, cancelBtn, currentTaskId>>
ghosts == <<own, since>>
vars == <<table, truth, at, buttons, shown, late, reply, cancels, ghosts>>

Ids == 1..MaxJobs
None == 0

Store == INSTANCE TaskStore WITH Jobs <- Ids

\* NoTask is no task.
ASSUME NoTaskAssumption == NoTask \notin Store!Task({})

Reply(kind, id) == [kind |-> kind, id |-> id]
NoReply == Reply("none", None)
Kinds == {"none", "refused", "accepted", "missing", "active", "done", "error"}

\* taskSnapshot and the check of the owner.
Visible(id, u) == id \in Ids /\ Store!Stored(id) /\ owner[id] = u

-----------------------------------------------------------------------------
Init ==
    /\ task = [id \in Ids |-> NoTask]
    /\ owner = [id \in Ids |-> NoUser]
    /\ taskCounter = 0
    /\ restarts = 0
    /\ jobAt = [id \in Ids |-> None]
    /\ result = [job \in Ids |-> "none"]
    /\ created = 0
    /\ at = [p \in Pages |-> "form"]
    /\ submitOn = [p \in Pages |-> TRUE]
    /\ cancelBtn = [p \in Pages |-> "hidden"]
    /\ currentTaskId = [p \in Pages |-> None]
    /\ shown = [p \in Pages |-> "none"]
    /\ late = [p \in Pages |-> FALSE]
    /\ reply = [p \in Pages |-> NoReply]
    /\ own = [p \in Pages |-> None]
    /\ since = [p \in Pages |-> 0]
    /\ cancels = {}

-----------------------------------------------------------------------------
(***************************************************************************)
(* The page.                                                               *)
(***************************************************************************)

\* Mutation of Finish: resetUI forgets the cancel button.
Finish_LeavesCancel(p, status) ==
    /\ at' = [at EXCEPT ![p] = "form"]
    /\ submitOn' = [submitOn EXCEPT ![p] = TRUE]
    /\ shown' = [shown EXCEPT ![p] = status]
    /\ late' = [late EXCEPT ![p] = FALSE]
    /\ reply' = [reply EXCEPT ![p] = NoReply]
    /\ UNCHANGED <<table, truth, cancelBtn, currentTaskId, cancels, ghosts>>

\* The handler writes the status line, calls resetUI and returns.
Finish(p, status) ==
    /\ at' = [at EXCEPT ![p] = "form"]
    /\ submitOn' = [submitOn EXCEPT ![p] = TRUE]
    /\ cancelBtn' = [cancelBtn EXCEPT ![p] = "hidden"]
    /\ shown' = [shown EXCEPT ![p] = status]
    /\ late' = [late EXCEPT ![p] = FALSE]
    /\ reply' = [reply EXCEPT ![p] = NoReply]
    /\ UNCHANGED <<table, truth, currentTaskId, cancels, ghosts>>

Submit(p) ==
    /\ submitOn[p]
    /\ at' = [at EXCEPT ![p] = "convert"]
    /\ submitOn' = [submitOn EXCEPT ![p] = FALSE]
    /\ shown' = [shown EXCEPT ![p] = "none"]
    /\ own' = [own EXCEPT ![p] = None]
    /\ since' = [since EXCEPT ![p] = 0]
    /\ UNCHANGED <<table, truth, cancelBtn, currentTaskId, late, reply, cancels>>

SubmitRefused(p) ==
    /\ at[p] = "convert"
    /\ reply[p].kind = "refused"
    /\ Finish(p, "none")

\* The id becomes the current one and can be cancelled; pollTask starts.
SubmitAccepted(p) ==
    /\ at[p] = "convert"
    /\ reply[p].kind = "accepted"
    /\ currentTaskId' = [currentTaskId EXCEPT ![p] = reply[p].id]
    /\ cancelBtn' = [cancelBtn EXCEPT ![p] = "on"]
    /\ at' = [at EXCEPT ![p] = "poll"]
    /\ reply' = [reply EXCEPT ![p] = NoReply]
    /\ UNCHANGED <<table, truth, submitOn, shown, late, cancels, ghosts>>

\* The loop of pollTask asks, after 1.5 seconds.
Poll(p) ==
    /\ at[p] = "poll"
    /\ at' = [at EXCEPT ![p] = "asked"]
    /\ UNCHANGED <<table, truth, buttons, shown, late, reply, cancels, ghosts>>

\* The task is over, or not found, or it goes on: then the limit of three
\* hours decides whether the loop does.
PollOver(p) ==
    /\ at[p] = "asked"
    /\ reply[p].kind \in {"done", "error"}
    /\ Finish(p, reply[p].kind)

PollMissing(p) ==
    /\ at[p] = "asked"
    /\ reply[p].kind = "missing"
    /\ Finish(p, "none")

PollLimit(p) ==
    /\ at[p] = "asked"
    /\ reply[p].kind = "active"
    /\ late[p]
    /\ Finish(p, "none")

\* Mutation of PollAgain: no limit.
PollAgain_ForEver(p) ==
    /\ at[p] = "asked"
    /\ reply[p].kind = "active"
    /\ at' = [at EXCEPT ![p] = "poll"]
    /\ reply' = [reply EXCEPT ![p] = NoReply]
    /\ UNCHANGED <<table, truth, buttons, shown, late, cancels, ghosts>>

PollAgain(p) ==
    /\ at[p] = "asked"
    /\ reply[p].kind = "active"
    /\ ~late[p]
    /\ at' = [at EXCEPT ![p] = "poll"]
    /\ reply' = [reply EXCEPT ![p] = NoReply]
    /\ UNCHANGED <<table, truth, buttons, shown, late, cancels, ghosts>>

\* A fetch fails, whatever the service has done: the exception ends the handler.
FetchFails(p) ==
    /\ at[p] \in {"convert", "asked"}
    /\ Finish(p, "none")

\* Three hours are over.
Late(p) ==
    /\ at[p] \in {"poll", "asked"}
    /\ ~late[p]
    /\ late' = [late EXCEPT ![p] = TRUE]
    /\ UNCHANGED <<table, truth, at, buttons, shown, reply, cancels, ghosts>>

\* The cancel button, once for each polling.
Cancel(p) ==
    /\ cancelBtn[p] = "on"
    /\ currentTaskId[p] # None
    /\ cancelBtn' = [cancelBtn EXCEPT ![p] = "off"]
    /\ cancels' = cancels \union
          {[user |-> UserOf[p], id |-> currentTaskId[p], meant |-> own[p], sent |-> since[p]]}
    /\ UNCHANGED <<table, truth, at, submitOn, currentTaskId, shown, late, reply, ghosts>>

\* The page is closed, or opened again: nothing of it is remembered.
Reload(p) ==
    /\ at[p] # "form" \/ shown[p] # "none"
    /\ at' = [at EXCEPT ![p] = "form"]
    /\ submitOn' = [submitOn EXCEPT ![p] = TRUE]
    /\ cancelBtn' = [cancelBtn EXCEPT ![p] = "hidden"]
    /\ currentTaskId' = [currentTaskId EXCEPT ![p] = None]
    /\ shown' = [shown EXCEPT ![p] = "none"]
    /\ late' = [late EXCEPT ![p] = FALSE]
    /\ reply' = [reply EXCEPT ![p] = NoReply]
    /\ own' = [own EXCEPT ![p] = None]
    /\ since' = [since EXCEPT ![p] = 0]
    /\ UNCHANGED <<table, truth, cancels>>

-----------------------------------------------------------------------------
(***************************************************************************)
(* The service.                                                            *)
(***************************************************************************)
Unanswered(p, where) == at[p] = where /\ reply[p] = NoReply

Answer(p, kind, id) == reply' = [reply EXCEPT ![p] = Reply(kind, id)]

\* Mutation of NextId: the number of tasks in the table.
NextId_LenOfTable == Cardinality({id \in Ids : Store!Stored(id)}) + 1

\* newTask: atomic.AddUint64(&taskCounter, 1)
NextId == taskCounter + 1

\* makeConvertHandler refuses (400, 401, 429, 503), or stores a task under
\* the next id and answers with it.
HandleRefused(p) ==
    /\ Unanswered(p, "convert")
    /\ Answer(p, "refused", None)
    /\ UNCHANGED <<table, truth, at, buttons, shown, late, cancels, ghosts>>

HandleConvert(p) ==
    LET id == NextId
        job == created + 1
    IN  /\ Unanswered(p, "convert")
        /\ created < MaxJobs
        /\ Store!NewTask(id)
        /\ owner' = [owner EXCEPT ![id] = UserOf[p]]
        /\ taskCounter' = id
        /\ jobAt' = [jobAt EXCEPT ![id] = job]
        /\ result' = [result EXCEPT ![job] = "running"]
        /\ created' = job
        /\ Answer(p, "accepted", id)
        /\ own' = [own EXCEPT ![p] = job]
        /\ since' = [since EXCEPT ![p] = restarts]
        /\ UNCHANGED <<restarts, at, buttons, shown, late, cancels>>

\* What makeTaskHandler answers for an id.
StatusOf(id, u) ==
    IF ~Visible(id, u) THEN "missing"
    ELSE IF task[id].status \in Store!Terminal THEN task[id].status ELSE "active"

HandleTask(p) ==
    /\ Unanswered(p, "asked")
    /\ Answer(p, StatusOf(currentTaskId[p], UserOf[p]), None)
    /\ UNCHANGED <<table, truth, at, buttons, shown, late, cancels, ghosts>>

\* Mutation of HandleCancel: the request cancels what was accepted last.
HandleCancel_Last(c) ==
    /\ c \in cancels
    /\ cancels' = cancels \ {c}
    /\ IF taskCounter > 0 /\ Visible(taskCounter, c.user) /\ Store!Cancellable(taskCounter)
       THEN /\ Store!MarkCancelled(taskCounter)
            /\ result' = [result EXCEPT ![jobAt[taskCounter]] = "cancelled"]
       ELSE UNCHANGED <<task, result>>
    /\ UNCHANGED <<owner, taskCounter, restarts, jobAt, created, at, buttons, shown, late,
                   reply, own, since>>

\* makeCancelHandler.  The worker of a cancelled task stops (Converter).
HandleCancel(c) ==
    /\ c \in cancels
    /\ cancels' = cancels \ {c}
    /\ IF Visible(c.id, c.user) /\ Store!Cancellable(c.id)
       THEN /\ Store!MarkCancelled(c.id)
            /\ result' = [result EXCEPT ![jobAt[c.id]] = "cancelled"]
       ELSE UNCHANGED <<task, result>>
    /\ UNCHANGED <<owner, taskCounter, restarts, jobAt, created, at, buttons, shown, late,
                   reply, own, since>>

CancelLost(c) ==
    /\ c \in cancels
    /\ cancels' = cancels \ {c}
    /\ UNCHANGED <<table, truth, at, buttons, shown, late, reply, ghosts>>

Working(id) == Store!Stored(id) /\ result[jobAt[id]] = "running"

WorkDone(id) ==
    /\ Working(id)
    /\ Store!SetTaskDone(id, NoPath)
    /\ result' = [result EXCEPT ![jobAt[id]] = "done"]
    /\ UNCHANGED <<owner, taskCounter, restarts, jobAt, created, at, buttons, shown, late,
                   reply, cancels, ghosts>>

WorkFails(id) ==
    /\ Working(id)
    /\ Store!SetTaskError(id, "failed")
    /\ result' = [result EXCEPT ![jobAt[id]] = "failed"]
    /\ UNCHANGED <<owner, taskCounter, restarts, jobAt, created, at, buttons, shown, late,
                   reply, cancels, ghosts>>

\* pruneOldTasks, two hours after the last update.
PruneOld(id) ==
    /\ Store!Prunable(id)
    /\ Store!Prune(id)
    /\ owner' = [owner EXCEPT ![id] = NoUser]
    /\ jobAt' = [jobAt EXCEPT ![id] = None]
    /\ UNCHANGED <<taskCounter, restarts, result, created, at, buttons, shown, late, reply,
                   cancels, ghosts>>

\* Mutation of Restart: the table is read back, the counter is not.
Restart_KeepsTable ==
    /\ restarts < MaxRestarts
    /\ restarts' = restarts + 1
    /\ taskCounter' = 0
    /\ UNCHANGED <<task, owner, truth, at, buttons, shown, late, reply, cancels, ghosts>>

\* The table and the counter of ids are empty again; answers and cancel
\* requests on their way survive.
Restart ==
    /\ restarts < MaxRestarts
    /\ restarts' = restarts + 1
    /\ task' = [id \in Ids |-> NoTask]
    /\ owner' = [id \in Ids |-> NoUser]
    /\ taskCounter' = 0
    /\ jobAt' = [id \in Ids |-> None]
    /\ result' = [job \in Ids |-> IF result[job] = "running" THEN "lost" ELSE result[job]]
    /\ UNCHANGED <<created, at, buttons, shown, late, reply, cancels, ghosts>>

-----------------------------------------------------------------------------
HandlerStep(p) ==
    \/ SubmitRefused(p) \/ SubmitAccepted(p)
    \/ Poll(p) \/ PollOver(p) \/ PollMissing(p) \/ PollLimit(p) \/ PollAgain(p)

PageStep(p) ==
    \/ Submit(p) \/ HandlerStep(p) \/ FetchFails(p) \/ Late(p) \/ Cancel(p) \/ Reload(p)

Request(p) == HandleRefused(p) \/ HandleConvert(p) \/ HandleTask(p)

Next ==
    \/ \E p \in Pages : PageStep(p) \/ Request(p)
    \/ \E c \in cancels : HandleCancel(c) \/ CancelLost(c)
    \/ \E id \in Ids : WorkDone(id) \/ WorkFails(id) \/ PruneOld(id)
    \/ Restart

Spec == Init /\ [][Next]_vars

-----------------------------------------------------------------------------
(***************************************************************************)
(* Safety.                                                                 *)
(***************************************************************************)
\* Types, and no id is in the table that was not given out.
TypeOK ==
    /\ task \in [Ids -> Store!Task({}) \union {NoTask}]
    /\ owner \in [Ids -> {UserOf[p] : p \in Pages} \union {NoUser}]
    /\ taskCounter \in 0..MaxJobs
    /\ restarts \in 0..MaxRestarts
    /\ jobAt \in [Ids -> 0..MaxJobs]
    /\ result \in [Ids -> {"none", "running", "done", "failed", "cancelled", "lost"}]
    /\ created \in 0..MaxJobs
    /\ at \in [Pages -> {"form", "convert", "poll", "asked"}]
    /\ submitOn \in [Pages -> BOOLEAN]
    /\ cancelBtn \in [Pages -> {"hidden", "on", "off"}]
    /\ currentTaskId \in [Pages -> 0..MaxJobs]
    /\ shown \in [Pages -> {"none", "done", "error"}]
    /\ late \in [Pages -> BOOLEAN]
    /\ reply \in [Pages -> [kind : Kinds, id : 0..MaxJobs]]
    /\ own \in [Pages -> 0..MaxJobs]
    /\ since \in [Pages -> 0..MaxRestarts]
    /\ \A id \in Ids : Store!Stored(id) => id <= taskCounter

\* The buttons follow the handler over all its ways out: a page submits only
\* when no handler of its runs, and offers to cancel exactly while it polls.
\* Two handlers at once would write one status line and one currentTaskId.
ButtonsFollowHandler ==
    \A p \in Pages :
        /\ submitOn[p] <=> at[p] = "form"
        /\ cancelBtn[p] # "hidden" <=> at[p] \in {"poll", "asked"}

\* The service that took the submission of the page still runs.
SameService(p) == since[p] = restarts

\* A page that shows the end of a task shows that of its own conversion, as
\* long as the service that accepted it runs, whatever other pages submit
\* and cancel, and however late its own requests are answered.
VerdictIsOwn ==
    \A p \in Pages : SameService(p) =>
        /\ shown[p] = "done" => result[own[p]] = "done"
        /\ shown[p] = "error" => result[own[p]] \in {"failed", "cancelled"}

\* A cancel request stops the conversion the user saw when pressing the
\* button, or none: also when it arrives after the next one was submitted.
Stops(job) == result[job] # "cancelled" /\ result'[job] = "cancelled"

CancelHitsOwn ==
    [][\A job \in Ids : Stops(job) =>
          \E c \in cancels \ cancels' : c.sent = restarts => c.meant = job]_vars

\* "Task ... not found" (pollTask) is what a page learns of a task the
\* service no longer knows.  Code: ids start again from task-1 after a restart.
LostTaskNotFound ==
    \A p \in Pages : shown[p] = "done" => result[own[p]] = "done"

-----------------------------------------------------------------------------
(***************************************************************************)
(* Liveness.  A handler that has not returned goes on: its code runs, its  *)
(* timer fires, and a fetch is answered or fails (the browser gives up a   *)
(* dead connection).  Time passes.  Nothing says which answer comes, or    *)
(* that a conversion ends.                                                 *)
(***************************************************************************)
Fairness ==
    \A p \in Pages : /\ WF_vars(HandlerStep(p) \/ FetchFails(p) \/ Request(p))
                     /\ WF_vars(Late(p))

FairSpec == Spec /\ Fairness

\* Every submission ends with a form that can be used again: no answer, no
\* error and no length of a conversion leaves the page busy for ever.
FormReturns == \A p \in Pages : at[p] # "form" ~> at[p] = "form"
=============================================================================
