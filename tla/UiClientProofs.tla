--------------------------- MODULE UiClientProofs ---------------------------
(***************************************************************************)
(* Theorems about UiClient, for any pages of any users, any number of      *)
(* conversions and any number of restarts of the service.                  *)
(***************************************************************************)
EXTENDS UiClient, TLAPS

-----------------------------------------------------------------------------
(***************************************************************************)
(* The inductive invariant.                                                *)
(***************************************************************************)
Ended == {"done", "failed", "cancelled"}

\* The running service has given the id to the job, and to no other one: the
\* table still says so, or has dropped the task because the job is over.
Names(id, job) ==
    /\ id \in 1..taskCounter
    /\ job \in 1..created
    /\ Store!Stored(id) => jobAt[id] = job
    /\ ~Store!Stored(id) => result[job] \in Ended

\* Ids and jobs are counted from 1, and a restart forgets the ids only.
JobsCounted ==
    /\ taskCounter <= created
    /\ \A job \in Ids : job > created <=> result[job] = "none"

\* A task says of its job what became of it.
TaskTold(id) ==
    /\ jobAt[id] \in 1..created
    /\ task[id].status = "done" <=> result[jobAt[id]] = "done"
    /\ task[id].status = "error" <=> result[jobAt[id]] \in {"failed", "cancelled"}
    /\ task[id].cancelled => task[id].status = "error"
    /\ task[id].status \notin Store!Terminal => result[jobAt[id]] = "running"

TableTold ==
    /\ \A id \in Ids : Store!Stored(id) => TaskTold(id)
    /\ \A id, other \in Ids :
           Store!Stored(id) /\ Store!Stored(other) /\ jobAt[id] = jobAt[other] => id = other

\* What a page has been told, by the service that still runs, is true of the
\* conversion it has submitted.
KnowsOwn(p) ==
    /\ reply[p].kind = "accepted" => Names(reply[p].id, own[p])
    /\ at[p] \in {"poll", "asked"} => Names(currentTaskId[p], own[p])
    /\ reply[p].kind = "done" => result[own[p]] = "done"
    /\ reply[p].kind = "error" => result[own[p]] \in {"failed", "cancelled"}
    /\ shown[p] # "none" => own[p] \in 1..created
    /\ shown[p] = "done" => result[own[p]] = "done"
    /\ shown[p] = "error" => result[own[p]] \in {"failed", "cancelled"}

\* The answer fits the request the handler waits for.
ReplyFits(p) ==
    /\ at[p] \in {"form", "poll"} => reply[p] = NoReply
    /\ at[p] = "convert" => reply[p].kind \in {"none", "refused", "accepted"}
    /\ at[p] = "asked" => reply[p].kind \in {"none", "missing", "active", "done", "error"}
    /\ at[p] # "form" => shown[p] = "none"

PageKnows(p) ==
    /\ since[p] <= restarts
    /\ ReplyFits(p)
    /\ SameService(p) => KnowsOwn(p)

\* A cancel request names the job its user meant, if it reaches the service
\* that had given the id out.
CancelKnows(c) ==
    /\ c.sent \in 0..restarts
    /\ c.sent = restarts => Names(c.id, c.meant)

PagesKnow == \A p \in Pages : PageKnows(p)
CancelsKnow == \A c \in cancels : CancelKnows(c)

IInv ==
    /\ TypeOK /\ ButtonsFollowHandler
    /\ JobsCounted /\ TableTold
    /\ PagesKnow /\ CancelsKnow

-----------------------------------------------------------------------------
(***************************************************************************)
(* Types.                                                                  *)
(***************************************************************************)
LEMMA StoredTask ==
    ASSUME IInv, NEW id \in Ids, Store!Stored(id)
    PROVE  /\ task[id] \in Store!Task({})
           /\ task[id].status \in Store!Statuses
           /\ task[id].error \in Store!Errors
           /\ task[id].output = NoPath
           /\ task[id].cancelled \in BOOLEAN
           /\ task[id].cancel \in BOOLEAN
<1>1. task[id] \in Store!Task({})
  BY DEF IInv, TypeOK, Store!Stored
<1>2. QED
  BY <1>1 DEF Store!Task

\* The end of a task, written by its worker or by the cancel handler.
EndsAs(id, status, cancelled) ==
    /\ task' \in [Ids -> Store!Task({}) \union {NoTask}]
    /\ \A other \in Ids \ {id} : task'[other] = task[other]
    /\ \A other \in Ids : Store!Stored(other)' <=> Store!Stored(other)
    /\ task'[id].status = status
    /\ task'[id].cancelled = cancelled

LEMMA WorkEffect ==
    ASSUME IInv, NEW id \in Ids, WorkDone(id) \/ WorkFails(id)
    PROVE  /\ Store!Stored(id) /\ result[jobAt[id]] = "running"
           /\ \/ EndsAs(id, "done", FALSE) /\ result' = [result EXCEPT ![jobAt[id]] = "done"]
              \/ EndsAs(id, "error", FALSE) /\ result' = [result EXCEPT ![jobAt[id]] = "failed"]
<1>1. task \in [Ids -> Store!Task({}) \union {NoTask}]
  BY DEF IInv, TypeOK
<1>2. Store!Stored(id) /\ result[jobAt[id]] = "running"
  BY DEF WorkDone, WorkFails, Working
<1>3. task[id].cancelled = FALSE
  BY <1>2, StoredTask DEF IInv, TableTold, TaskTold
<1>4. CASE WorkDone(id)
  <2> DEFINE t == [task[id] EXCEPT !.status = "done", !.output = NoPath]
  <2>1. t \in Store!Task({}) /\ t.status = "done" /\ t.cancelled = FALSE
    BY <1>2, <1>3, StoredTask DEF Store!Task, Store!Statuses
  <2>2. task' = [task EXCEPT ![id] = t]
    BY <1>2, <1>3, <1>4 DEF WorkDone, Store!SetTaskDone, Store!UpdateTask
  <2>3. EndsAs(id, "done", FALSE)
    BY <1>1, <1>2, <2>1, <2>2, NoTaskAssumption DEF EndsAs, Store!Stored
  <2>4. QED
    BY <1>2, <1>4, <2>3 DEF WorkDone
<1>5. CASE WorkFails(id)
  <2> DEFINE t == [task[id] EXCEPT !.status = "error", !.error = "failed"]
  <2>1. t \in Store!Task({}) /\ t.status = "error" /\ t.cancelled = FALSE
    BY <1>2, <1>3, StoredTask DEF Store!Task, Store!Statuses, Store!Errors
  <2>2. task' = [task EXCEPT ![id] = t]
    BY <1>2, <1>3, <1>5 DEF WorkFails, Store!SetTaskError, Store!UpdateTask
  <2>3. EndsAs(id, "error", FALSE)
    BY <1>1, <1>2, <2>1, <2>2, NoTaskAssumption DEF EndsAs, Store!Stored
  <2>4. QED
    BY <1>2, <1>5, <2>3 DEF WorkFails
<1>6. QED
  BY <1>4, <1>5

\* A cancel request that arrives does nothing, or stops a running job.
LEMMA CancelEffect ==
    ASSUME IInv, NEW c \in cancels, HandleCancel(c)
    PROVE  \/ UNCHANGED <<task, result>>
           \/ /\ c.id \in Ids
              /\ Store!Stored(c.id) /\ result[jobAt[c.id]] = "running"
              /\ EndsAs(c.id, "error", TRUE)
              /\ result' = [result EXCEPT ![jobAt[c.id]] = "cancelled"]
<1> SUFFICES ASSUME Visible(c.id, c.user), Store!Cancellable(c.id)
             PROVE  /\ c.id \in Ids
                    /\ Store!Stored(c.id) /\ result[jobAt[c.id]] = "running"
                    /\ EndsAs(c.id, "error", TRUE)
                    /\ result' = [result EXCEPT ![jobAt[c.id]] = "cancelled"]
  BY DEF HandleCancel
<1> DEFINE id == c.id
           t == [task[id] EXCEPT !.cancelled = TRUE, !.status = "error", !.error = "cancelled"]
<1>1. task \in [Ids -> Store!Task({}) \union {NoTask}]
  BY DEF IInv, TypeOK
<1>2. id \in Ids /\ Store!Stored(id) /\ task[id].status \notin Store!Terminal
  BY DEF Visible, Store!Cancellable
<1>3. result[jobAt[id]] = "running"
  BY <1>2 DEF IInv, TableTold, TaskTold
<1>4. t \in Store!Task({}) /\ t.status = "error" /\ t.cancelled = TRUE
  BY <1>2, StoredTask DEF Store!Task, Store!Statuses, Store!Errors
<1>5. /\ task' = [task EXCEPT ![id] = t]
      /\ result' = [result EXCEPT ![jobAt[id]] = "cancelled"]
  <2>1. HandleCancel(c) => Store!MarkCancelled(id)
    BY DEF HandleCancel
  <2>2. QED
    BY <1>1, <1>2, <2>1 DEF HandleCancel, Store!MarkCancelled
<1>6. EndsAs(id, "error", TRUE)
  BY <1>1, <1>2, <1>4, <1>5, NoTaskAssumption DEF EndsAs, Store!Stored
<1>7. QED
  BY <1>2, <1>3, <1>5, <1>6

LEMMA NextIdIsFree ==
    ASSUME IInv, created < MaxJobs
    PROVE  /\ NextId \in Ids /\ created + 1 \in Ids
           /\ NextId = taskCounter + 1
           /\ ~Store!Stored(NextId)
           /\ result[created + 1] = "none"
<1>1. taskCounter \in 0..MaxJobs /\ created \in 0..MaxJobs /\ taskCounter <= created
  BY DEF IInv, TypeOK, JobsCounted
<1>2. NextId \in Ids /\ created + 1 \in Ids /\ NextId = taskCounter + 1
  BY <1>1, UiAssumption DEF NextId, Ids
<1>3. ~Store!Stored(NextId)
  BY <1>1, <1>2 DEF IInv, TypeOK
<1>4. result[created + 1] = "none"
  BY <1>1, <1>2 DEF IInv, JobsCounted
<1>5. QED
  BY <1>2, <1>3, <1>4

\* A page's conversion is accepted.
LEMMA ConvertEffect ==
    ASSUME IInv, NEW p \in Pages, HandleConvert(p)
    PROVE  /\ NextId \in Ids /\ created + 1 \in Ids
           /\ task' \in [Ids -> Store!Task({}) \union {NoTask}]
           /\ task'[NextId].status = "queued" /\ task'[NextId].cancelled = FALSE
           /\ task'[NextId] # NoTask
           /\ \A id \in Ids \ {NextId} : task'[id] = task[id]
<1> DEFINE new == [status |-> "queued", error |-> "none", output |-> NoPath,
                   cancelled |-> FALSE, cancel |-> TRUE]
<1>1. task \in [Ids -> Store!Task({}) \union {NoTask}]
  BY DEF IInv, TypeOK
<1>2. NextId \in Ids /\ created + 1 \in Ids
  BY NextIdIsFree DEF HandleConvert
<1>3. new \in Store!Task({}) /\ new.status = "queued" /\ new.cancelled = FALSE
  BY DEF Store!Task, Store!Statuses, Store!Errors
<1>4. task' = [task EXCEPT ![NextId] = new]
  BY DEF HandleConvert, Store!NewTask
<1>5. task'[NextId] = new
  BY <1>1, <1>2, <1>4
<1>6. QED
  BY <1>1, <1>2, <1>3, <1>4, <1>5, NoTaskAssumption

PageTyped ==
    /\ at' \in [Pages -> {"form", "convert", "poll", "asked"}]
    /\ submitOn' \in [Pages -> BOOLEAN]
    /\ cancelBtn' \in [Pages -> {"hidden", "on", "off"}]
    /\ currentTaskId' \in [Pages -> 0..MaxJobs]
    /\ shown' \in [Pages -> {"none", "done", "error"}]
    /\ late' \in [Pages -> BOOLEAN]
    /\ reply' \in [Pages -> [kind : Kinds, id : 0..MaxJobs]]
    /\ own' \in [Pages -> 0..MaxJobs]
    /\ since' \in [Pages -> 0..MaxRestarts]

LEMMA PagesTyped ==
    ASSUME IInv, [Next]_vars
    PROVE  PageTyped
<1>1. /\ at \in [Pages -> {"form", "convert", "poll", "asked"}]
      /\ submitOn \in [Pages -> BOOLEAN]
      /\ cancelBtn \in [Pages -> {"hidden", "on", "off"}]
      /\ currentTaskId \in [Pages -> 0..MaxJobs]
      /\ shown \in [Pages -> {"none", "done", "error"}]
      /\ late \in [Pages -> BOOLEAN]
      /\ reply \in [Pages -> [kind : Kinds, id : 0..MaxJobs]]
      /\ own \in [Pages -> 0..MaxJobs]
      /\ since \in [Pages -> 0..MaxRestarts]
  BY DEF IInv, TypeOK
<1>2. /\ 0 \in 0..MaxJobs /\ 0 \in 0..MaxRestarts
      /\ taskCounter \in 0..MaxJobs /\ created \in 0..MaxJobs /\ restarts \in 0..MaxRestarts
  BY UiAssumption DEF IInv, TypeOK
<1>3. NoReply \in [kind : Kinds, id : 0..MaxJobs]
  BY <1>2 DEF NoReply, Reply, Kinds, None
<1>4. ASSUME NEW p \in Pages, NEW status \in {"none", "done", "error"}, Finish(p, status)
      PROVE  PageTyped
  BY <1>1, <1>3, <1>4 DEF Finish, PageTyped, ghosts
<1>5. ASSUME NEW p \in Pages, PageStep(p) PROVE PageTyped
  <2>1. CASE Submit(p)
    BY <1>1, <1>2, <2>1 DEF Submit, PageTyped, None
  <2>2. CASE Late(p) \/ Cancel(p)
    BY <1>1, <2>2 DEF Late, Cancel, PageTyped, buttons, ghosts
  <2>3. CASE Poll(p) \/ PollAgain(p)
    BY <1>1, <1>3, <2>3 DEF Poll, PollAgain, PageTyped, buttons, ghosts
  <2>4. CASE SubmitAccepted(p)
    <3>1. reply[p].id \in 0..MaxJobs
      BY <1>1
    <3>2. QED
      BY <1>1, <1>3, <2>4, <3>1 DEF SubmitAccepted, PageTyped, ghosts
  <2>5. CASE Reload(p)
    BY <1>1, <1>2, <1>3, <2>5 DEF Reload, PageTyped, None
  <2>6. CASE SubmitRefused(p) \/ PollOver(p) \/ PollMissing(p) \/ PollLimit(p) \/ FetchFails(p)
    BY <1>4, <2>6 DEF SubmitRefused, PollOver, PollMissing, PollLimit, FetchFails
  <2>7. QED
    BY <1>5, <2>1, <2>2, <2>3, <2>4, <2>5, <2>6 DEF PageStep, HandlerStep
<1>6. ASSUME NEW p \in Pages, Request(p) PROVE PageTyped
  <2>1. CASE HandleRefused(p)
    <3>1. Reply("refused", None) \in [kind : Kinds, id : 0..MaxJobs]
      BY <1>2 DEF Reply, Kinds, None
    <3>2. QED
      BY <1>1, <2>1, <3>1 DEF HandleRefused, Answer, PageTyped, buttons, ghosts
  <2>2. CASE HandleTask(p)
    <3> DEFINE kind == StatusOf(currentTaskId[p], UserOf[p])
    <3>1. kind \in Kinds
      BY DEF StatusOf, Kinds, Store!Terminal
    <3>2. Reply(kind, None) \in [kind : Kinds, id : 0..MaxJobs]
      BY <1>2, <3>1 DEF Reply, None
    <3>3. reply' = [reply EXCEPT ![p] = Reply(kind, None)]
      BY <2>2 DEF HandleTask, Answer
    <3> HIDE DEF kind
    <3>4. QED
      BY <1>1, <2>2, <3>2, <3>3 DEF HandleTask, PageTyped, buttons, ghosts
  <2>3. CASE HandleConvert(p)
    <3>1. NextId \in 0..MaxJobs /\ created + 1 \in 0..MaxJobs
      <4>1. NextId \in Ids /\ created + 1 \in Ids
        BY <2>3, ConvertEffect
      <4>2. \A id \in Ids : id \in 0..MaxJobs
        BY UiAssumption DEF Ids
      <4>3. QED
        BY <4>1, <4>2
    <3>2. Reply("accepted", NextId) \in [kind : Kinds, id : 0..MaxJobs]
      BY <3>1 DEF Reply, Kinds
    <3>3. QED
      BY <1>1, <1>2, <2>3, <3>1, <3>2 DEF HandleConvert, Answer, PageTyped, buttons
  <2>4. QED
    BY <1>6, <2>1, <2>2, <2>3 DEF Request
<1>7. ASSUME NEW c \in cancels, HandleCancel(c) \/ CancelLost(c) PROVE PageTyped
  BY <1>1, <1>7 DEF HandleCancel, CancelLost, PageTyped, buttons, ghosts
<1>8. ASSUME NEW id \in Ids, WorkDone(id) \/ WorkFails(id) \/ PruneOld(id) PROVE PageTyped
  BY <1>1, <1>8 DEF WorkDone, WorkFails, PruneOld, PageTyped, buttons, ghosts
<1>9. CASE Restart \/ UNCHANGED vars
  BY <1>1, <1>9 DEF Restart, vars, PageTyped, buttons, ghosts
<1>10. QED
  BY <1>5, <1>6, <1>7, <1>8, <1>9 DEF Next

ServiceTyped ==
    /\ task' \in [Ids -> Store!Task({}) \union {NoTask}]
    /\ owner' \in [Ids -> {UserOf[p] : p \in Pages} \union {NoUser}]
    /\ taskCounter' \in 0..MaxJobs
    /\ restarts' \in 0..MaxRestarts
    /\ jobAt' \in [Ids -> 0..MaxJobs]
    /\ result' \in [Ids -> {"none", "running", "done", "failed", "cancelled", "lost"}]
    /\ created' \in 0..MaxJobs
    /\ \A id \in Ids : Store!Stored(id)' => id <= taskCounter'

\* A step of the pages, or of the wire, leaves the service alone.
LEMMA PagesLeaveService ==
    ASSUME NEW p \in Pages, PageStep(p) \/ HandleRefused(p) \/ HandleTask(p)
    PROVE  UNCHANGED <<table, truth>>
BY DEF PageStep, HandlerStep, Submit, SubmitRefused, SubmitAccepted, Poll, PollOver,
       PollMissing, PollLimit, PollAgain, FetchFails, Late, Cancel, Reload, Finish,
       HandleRefused, HandleTask

LEMMA ServiceTypes ==
    ASSUME IInv, [Next]_vars
    PROVE  ServiceTyped
<1>1. /\ task \in [Ids -> Store!Task({}) \union {NoTask}]
      /\ owner \in [Ids -> {UserOf[p] : p \in Pages} \union {NoUser}]
      /\ taskCounter \in 0..MaxJobs
      /\ restarts \in 0..MaxRestarts
      /\ jobAt \in [Ids -> 0..MaxJobs]
      /\ result \in [Ids -> {"none", "running", "done", "failed", "cancelled", "lost"}]
      /\ created \in 0..MaxJobs
      /\ \A id \in Ids : Store!Stored(id) => id <= taskCounter
  BY DEF IInv, TypeOK
<1>2. ASSUME UNCHANGED <<table, truth>> PROVE ServiceTyped
  BY <1>1, <1>2 DEF ServiceTyped, table, truth, Store!Stored
<1>3. ASSUME NEW p \in Pages, HandleConvert(p) PROVE ServiceTyped
  <2>1. /\ taskCounter' = NextId /\ created' = created + 1 /\ restarts' = restarts
        /\ owner' = [owner EXCEPT ![NextId] = UserOf[p]]
        /\ jobAt' = [jobAt EXCEPT ![NextId] = created + 1]
        /\ result' = [result EXCEPT ![created + 1] = "running"]
        /\ created < MaxJobs
    BY <1>3 DEF HandleConvert
  <2>2. /\ NextId \in Ids /\ created + 1 \in Ids /\ NextId = taskCounter + 1
        /\ task' \in [Ids -> Store!Task({}) \union {NoTask}]
        /\ \A id \in Ids \ {NextId} : task'[id] = task[id]
    BY <1>3, <2>1, NextIdIsFree, ConvertEffect
  <2>3. \A id \in Ids : id \in 0..MaxJobs
    BY UiAssumption DEF Ids
  <2>4. /\ owner' \in [Ids -> {UserOf[q] : q \in Pages} \union {NoUser}]
        /\ jobAt' \in [Ids -> 0..MaxJobs]
        /\ result' \in [Ids -> {"none", "running", "done", "failed", "cancelled", "lost"}]
    BY <1>1, <2>1, <2>2, <2>3
  <2>5. ASSUME NEW id \in Ids, Store!Stored(id)' PROVE id <= taskCounter'
    <3>1. CASE id = NextId
      BY <2>1, <2>2, <3>1 DEF Ids
    <3>2. CASE id # NextId
      <4>1. Store!Stored(id)
        BY <2>2, <2>5, <3>2 DEF Store!Stored
      <4>2. id <= taskCounter /\ id \in Nat
        BY <1>1, <4>1 DEF Ids
      <4>3. QED
        BY <1>1, <2>1, <2>2, <4>2
    <3>3. QED
      BY <3>1, <3>2
  <2>6. QED
    BY <1>1, <2>1, <2>2, <2>3, <2>4, <2>5 DEF ServiceTyped
<1>4. ASSUME NEW p \in Pages, PageStep(p) \/ Request(p) PROVE ServiceTyped
  BY <1>2, <1>3, <1>4, PagesLeaveService DEF Request
<1>5. ASSUME NEW c \in cancels, HandleCancel(c) PROVE ServiceTyped
  <2>1. UNCHANGED <<owner, taskCounter, restarts, jobAt, created>>
    BY <1>5 DEF HandleCancel
  <2>2. /\ task' \in [Ids -> Store!Task({}) \union {NoTask}]
        /\ \A id \in Ids : Store!Stored(id)' <=> Store!Stored(id)
        /\ \/ UNCHANGED result
           \/ \E job : result' = [result EXCEPT ![job] = "cancelled"]
    BY <1>1, <1>5, CancelEffect DEF EndsAs, Store!Stored
  <2>3. QED
    BY <1>1, <2>1, <2>2 DEF ServiceTyped
<1>6. ASSUME NEW c \in cancels, CancelLost(c) PROVE ServiceTyped
  BY <1>2, <1>6 DEF CancelLost
<1>7. ASSUME NEW id \in Ids, WorkDone(id) \/ WorkFails(id) PROVE ServiceTyped
  <2>1. UNCHANGED <<owner, taskCounter, restarts, jobAt, created>>
    BY <1>7 DEF WorkDone, WorkFails
  <2>2. /\ task' \in [Ids -> Store!Task({}) \union {NoTask}]
        /\ \A other \in Ids : Store!Stored(other)' <=> Store!Stored(other)
        /\ \E job, end : /\ end \in {"done", "failed"}
                         /\ result' = [result EXCEPT ![job] = end]
    BY <1>7, WorkEffect DEF EndsAs
  <2>3. QED
    BY <1>1, <2>1, <2>2 DEF ServiceTyped
<1>8. ASSUME NEW id \in Ids, PruneOld(id) PROVE ServiceTyped
  <2>1. /\ task' = [task EXCEPT ![id] = NoTask]
        /\ owner' = [owner EXCEPT ![id] = NoUser]
        /\ jobAt' = [jobAt EXCEPT ![id] = 0]
        /\ UNCHANGED <<taskCounter, restarts, result, created>>
    BY <1>8 DEF PruneOld, Store!Prune, None
  <2>2. \A other \in Ids : Store!Stored(other)' => Store!Stored(other)
    BY <1>1, <2>1 DEF Store!Stored
  <2>3. QED
    BY <1>1, <2>1, <2>2, UiAssumption DEF ServiceTyped
<1>9. CASE Restart
  <2>1. restarts' \in 0..MaxRestarts
    BY <1>1, <1>9, UiAssumption DEF Restart
  <2>2. \A id \in Ids : ~Store!Stored(id)'
    BY <1>9 DEF Restart, Store!Stored
  <2>3. QED
    BY <1>1, <1>9, <2>1, <2>2, UiAssumption DEF Restart, ServiceTyped, None
<1>10. CASE UNCHANGED vars
  BY <1>2, <1>10 DEF vars
<1>11. QED
  BY <1>4, <1>5, <1>6, <1>7, <1>8, <1>9, <1>10 DEF Next

LEMMA TypeNext ==
    ASSUME IInv, [Next]_vars
    PROVE  TypeOK'
BY PagesTyped, ServiceTypes DEF PageTyped, ServiceTyped, TypeOK

-----------------------------------------------------------------------------
(***************************************************************************)
(* The buttons.                                                            *)
(***************************************************************************)
LEMMA ButtonsNext ==
    ASSUME IInv, [Next]_vars
    PROVE  ButtonsFollowHandler'
<1>1. /\ at \in [Pages -> {"form", "convert", "poll", "asked"}]
      /\ submitOn \in [Pages -> BOOLEAN]
      /\ cancelBtn \in [Pages -> {"hidden", "on", "off"}]
      /\ ButtonsFollowHandler
  BY DEF IInv, TypeOK
<1>2. ASSUME UNCHANGED <<at, submitOn, cancelBtn>> PROVE ButtonsFollowHandler'
  BY <1>1, <1>2 DEF ButtonsFollowHandler
<1>3. ASSUME NEW p \in Pages, NEW status, Finish(p, status) PROVE ButtonsFollowHandler'
  BY <1>1, <1>3 DEF Finish, ButtonsFollowHandler
<1>4. ASSUME NEW p \in Pages, PageStep(p) PROVE ButtonsFollowHandler'
  <2>1. CASE Submit(p)
    BY <1>1, <2>1 DEF Submit, ButtonsFollowHandler
  <2>2. CASE SubmitAccepted(p)
    BY <1>1, <2>2 DEF SubmitAccepted, ButtonsFollowHandler
  <2>3. CASE Poll(p) \/ PollAgain(p)
    BY <1>1, <2>3 DEF Poll, PollAgain, buttons, ButtonsFollowHandler
  <2>4. CASE Late(p)
    BY <1>2, <2>4 DEF Late, buttons
  <2>5. CASE Cancel(p)
    BY <1>1, <2>5 DEF Cancel, ButtonsFollowHandler
  <2>6. CASE Reload(p)
    BY <1>1, <2>6 DEF Reload, ButtonsFollowHandler
  <2>7. CASE SubmitRefused(p) \/ PollOver(p) \/ PollMissing(p) \/ PollLimit(p) \/ FetchFails(p)
    BY <1>3, <2>7 DEF SubmitRefused, PollOver, PollMissing, PollLimit, FetchFails
  <2>8. QED
    BY <1>4, <2>1, <2>2, <2>3, <2>4, <2>5, <2>6, <2>7 DEF PageStep, HandlerStep
<1>5. ASSUME NEW p \in Pages, Request(p) PROVE ButtonsFollowHandler'
  BY <1>2, <1>5 DEF Request, HandleRefused, HandleConvert, HandleTask, buttons
<1>6. ASSUME NEW c \in cancels, HandleCancel(c) \/ CancelLost(c) PROVE ButtonsFollowHandler'
  BY <1>2, <1>6 DEF HandleCancel, CancelLost, buttons
<1>7. ASSUME NEW id \in Ids, WorkDone(id) \/ WorkFails(id) \/ PruneOld(id)
      PROVE  ButtonsFollowHandler'
  BY <1>2, <1>7 DEF WorkDone, WorkFails, PruneOld, buttons
<1>8. CASE Restart \/ UNCHANGED vars
  BY <1>2, <1>8 DEF Restart, vars, buttons
<1>9. QED
  BY <1>4, <1>5, <1>6, <1>7, <1>8 DEF Next

-----------------------------------------------------------------------------
(***************************************************************************)
(* The service.  What a step of it may change of what pages rely on: it    *)
(* goes on giving out new ids, ends jobs that run and forgets ended ones,  *)
(* or it restarts and all that pages hold is of a service that is no more. *)
(***************************************************************************)
ServiceKept ==
    \/ restarts' > restarts
    \/ /\ restarts' = restarts
       /\ created <= created'
       /\ \A id, job \in Ids : Names(id, job) => Names(id, job)'
       /\ \A job \in Ids : result[job] \in Ended => result'[job] = result[job]

TableKept == JobsCounted' /\ TableTold' /\ ServiceKept

LEMMA CounterFacts ==
    ASSUME IInv
    PROVE  /\ taskCounter \in Nat /\ created \in Nat /\ restarts \in Nat
           /\ taskCounter <= created /\ created <= MaxJobs
           /\ 1..taskCounter \subseteq Ids /\ 1..created \subseteq Ids
           /\ \A id \in Ids : id \in Nat
<1>1. taskCounter \in 0..MaxJobs /\ created \in 0..MaxJobs /\ restarts \in 0..MaxRestarts
      /\ taskCounter <= created
  BY DEF IInv, TypeOK, JobsCounted
<1>2. QED
  BY <1>1, UiAssumption DEF Ids

LEMMA TableStays ==
    ASSUME IInv, UNCHANGED <<table, truth>>
    PROVE  TableKept
<1>1. JobsCounted'
  BY DEF IInv, JobsCounted, table, truth
<1>2. TableTold'
  BY DEF IInv, TableTold, TaskTold, Store!Stored, table, truth
<1>3. ServiceKept
  BY CounterFacts DEF ServiceKept, Names, Store!Stored, table, truth
<1>4. QED
  BY <1>1, <1>2, <1>3 DEF TableKept

LEMMA TableConvert ==
    ASSUME IInv, NEW p \in Pages, HandleConvert(p)
    PROVE  TableKept
<1>1. created < MaxJobs
  BY DEF HandleConvert
<1>2. PICK id \in Ids, job \in Ids : id = NextId /\ job = created + 1
  BY <1>1, NextIdIsFree
<1>3. /\ taskCounter' = id /\ created' = job /\ restarts' = restarts
      /\ jobAt' = [jobAt EXCEPT ![id] = job]
      /\ result' = [result EXCEPT ![job] = "running"]
  BY <1>2 DEF HandleConvert
<1>4. /\ id \in Ids /\ job \in Ids /\ id = taskCounter + 1
      /\ ~Store!Stored(id) /\ result[job] = "none"
  BY <1>1, <1>2, NextIdIsFree
<1>5. /\ task'[id].status = "queued" /\ task'[id].cancelled = FALSE
      /\ task'[id] # NoTask
      /\ \A other \in Ids \ {id} : task'[other] = task[other]
  BY <1>2, ConvertEffect
<1>6. /\ taskCounter \in Nat /\ created \in Nat /\ taskCounter <= created
      /\ \A other \in Ids : other \in Nat
      /\ 1..taskCounter \subseteq Ids /\ 1..created \subseteq Ids
  BY CounterFacts
<1>7. /\ jobAt \in [Ids -> 0..MaxJobs]
      /\ result \in [Ids -> {"none", "running", "done", "failed", "cancelled", "lost"}]
  BY DEF IInv, TypeOK
<1>8. /\ jobAt'[id] = job /\ result'[job] = "running"
      /\ \A other \in Ids \ {id} : jobAt'[other] = jobAt[other]
      /\ \A other \in Ids \ {job} : result'[other] = result[other]
  BY <1>3, <1>4, <1>7
<1>9. job = created + 1
  BY <1>2
<1>10. JobsCounted'
  <2>1. taskCounter' <= created'
    BY <1>3, <1>4, <1>6, <1>9
  <2>2. ASSUME NEW other \in Ids PROVE other > created' <=> result'[other] = "none"
    <3>1. other > created <=> result[other] = "none"
      BY DEF IInv, JobsCounted
    <3>2. CASE other = job
      BY <1>3, <1>6, <1>8, <1>9, <3>2
    <3>3. CASE other # job
      BY <1>3, <1>6, <1>8, <1>9, <3>1, <3>3
    <3>4. QED
      BY <3>2, <3>3
  <2>3. QED
    BY <2>1, <2>2 DEF JobsCounted
<1>11. ASSUME NEW other \in Ids \ {id}, Store!Stored(other)'
      PROVE  /\ Store!Stored(other) /\ TaskTold(other)
             /\ jobAt[other] \in 1..created /\ jobAt[other] # job
  <2>1. Store!Stored(other) /\ TaskTold(other)
    BY <1>5, <1>11 DEF Store!Stored, IInv, TableTold
  <2>2. QED
    BY <2>1, <1>6, <1>9 DEF TaskTold
<1>12. TableTold'
  <2>1. ASSUME NEW other \in Ids \ {id}, Store!Stored(other)' PROVE TaskTold(other)'
    <3>1. /\ Store!Stored(other) /\ TaskTold(other)
          /\ jobAt[other] \in 1..created /\ jobAt[other] # job /\ jobAt[other] \in Ids
      BY <1>6, <1>11, <2>1
    <3>2. /\ task'[other] = task[other] /\ jobAt'[other] = jobAt[other]
          /\ result'[jobAt[other]] = result[jobAt[other]]
      BY <1>5, <1>8, <3>1
    <3>3. jobAt[other] \in 1..created'
      BY <1>3, <1>6, <1>9, <3>1
    <3>4. QED
      BY <3>1, <3>2, <3>3 DEF TaskTold
  <2>2. TaskTold(id)'
    <3>1. job \in 1..created'
      BY <1>3, <1>6, <1>9
    <3>2. QED
      BY <1>5, <1>8, <3>1 DEF TaskTold, Store!Terminal
  <2>3. ASSUME NEW a \in Ids, NEW b \in Ids, Store!Stored(a)', Store!Stored(b)',
               jobAt'[a] = jobAt'[b]
        PROVE  a = b
    BY <1>8, <1>11, <2>3 DEF IInv, TableTold
  <2>4. QED
    BY <2>1, <2>2, <2>3 DEF TableTold
<1>13. ServiceKept
  <2>1. ASSUME NEW other \in Ids, NEW of \in Ids, Names(other, of) PROVE Names(other, of)'
    <3>1. other \in 1..taskCounter /\ of \in 1..created
      BY <2>1 DEF Names
    <3>2. other # id /\ of # job /\ other \in 1..taskCounter' /\ of \in 1..created'
      BY <1>3, <1>4, <1>6, <1>9, <3>1
    <3>3. /\ task'[other] = task[other] /\ jobAt'[other] = jobAt[other]
          /\ result'[of] = result[of]
      BY <1>5, <1>8, <3>2
    <3>4. QED
      BY <2>1, <3>2, <3>3 DEF Names, Store!Stored
  <2>2. ASSUME NEW of \in Ids, result[of] \in Ended PROVE result'[of] = result[of]
    BY <1>4, <1>8, <2>2 DEF Ended
  <2>3. created <= created'
    BY <1>3, <1>6, <1>9
  <2>4. QED
    BY <1>3, <2>1, <2>2, <2>3 DEF ServiceKept
<1>14. QED
  BY <1>10, <1>12, <1>13 DEF TableKept

\* A running job ends, and its task says how.
LEMMA TableEnds ==
    ASSUME IInv, NEW id \in Ids, Store!Stored(id), result[jobAt[id]] = "running",
           NEW status, NEW cancelled, NEW end, EndsAs(id, status, cancelled),
           result' = [result EXCEPT ![jobAt[id]] = end],
           \/ status = "done" /\ cancelled = FALSE /\ end = "done"
           \/ status = "error" /\ cancelled = FALSE /\ end = "failed"
           \/ status = "error" /\ cancelled = TRUE /\ end = "cancelled",
           UNCHANGED <<taskCounter, restarts, jobAt, created>>
    PROVE  TableKept
<1> DEFINE job == jobAt[id]
<1>1. /\ TaskTold(id)
      /\ jobAt \in [Ids -> 0..MaxJobs]
      /\ result \in [Ids -> {"none", "running", "done", "failed", "cancelled", "lost"}]
  BY DEF IInv, TypeOK, TableTold
<1>2. job \in 1..created /\ job \in Ids
  BY <1>1, CounterFacts DEF TaskTold
<1>3. result'[job] = end /\ \A other \in Ids \ {job} : result'[other] = result[other]
  BY <1>1, <1>2
<1>4. JobsCounted'
  BY <1>2, <1>3 DEF IInv, JobsCounted
<1>5. \A other \in Ids : Store!Stored(other)' <=> Store!Stored(other)
  BY DEF EndsAs
<1>6. TaskTold(id)'
  BY <1>2, <1>3 DEF EndsAs, TaskTold, Store!Terminal
<1>7. ASSUME NEW other \in Ids \ {id}, Store!Stored(other) PROVE TaskTold(other)'
  <2>1. TaskTold(other) /\ jobAt[other] # job
    BY <1>7 DEF IInv, TableTold
  <2>2. jobAt[other] \in Ids
    BY <2>1, CounterFacts DEF TaskTold
  <2>3. task'[other] = task[other] /\ result'[jobAt[other]] = result[jobAt[other]]
    BY <1>3, <2>1, <2>2 DEF EndsAs
  <2>4. QED
    BY <2>1, <2>3 DEF TaskTold
<1>8. TableTold'
  BY <1>5, <1>6, <1>7 DEF IInv, TableTold
<1>9. ServiceKept
  <2>1. \A of \in Ids : result[of] \in Ended => result'[of] = result[of]
    BY <1>2, <1>3 DEF Ended
  <2>2. ASSUME NEW other \in Ids, NEW of \in Ids, Names(other, of) PROVE Names(other, of)'
    BY <1>5, <2>1, <2>2 DEF Names
  <2>3. QED
    BY <2>1, <2>2, CounterFacts DEF ServiceKept
<1>10. QED
  BY <1>4, <1>8, <1>9 DEF TableKept

LEMMA TablePrune ==
    ASSUME IInv, NEW id \in Ids, PruneOld(id)
    PROVE  TableKept
<1>1. /\ task \in [Ids -> Store!Task({}) \union {NoTask}]
      /\ jobAt \in [Ids -> 0..MaxJobs]
  BY DEF IInv, TypeOK
<1>2. /\ Store!Stored(id) /\ task[id].status \in Store!Terminal
      /\ task' = [task EXCEPT ![id] = NoTask]
      /\ jobAt' = [jobAt EXCEPT ![id] = 0]
      /\ UNCHANGED <<taskCounter, restarts, result, created>>
  BY DEF PruneOld, Store!Prunable, Store!Prune, None
<1>3. /\ ~Store!Stored(id)'
      /\ \A other \in Ids \ {id} : task'[other] = task[other] /\ jobAt'[other] = jobAt[other]
  BY <1>1, <1>2 DEF Store!Stored
<1>4. result[jobAt[id]] \in Ended
  BY <1>2 DEF IInv, TableTold, TaskTold, Store!Terminal, Ended
<1>5. JobsCounted'
  BY <1>2 DEF IInv, JobsCounted
<1>6. \A other \in Ids : Store!Stored(other)' => other # id /\ Store!Stored(other)
  BY <1>3 DEF Store!Stored
<1>7. TableTold'
  BY <1>2, <1>3, <1>6 DEF IInv, TableTold, TaskTold
<1>8. ASSUME NEW other \in Ids, NEW of \in Ids, Names(other, of) PROVE Names(other, of)'
  <2>1. CASE other = id
    BY <1>2, <1>3, <1>4, <1>8, <2>1 DEF Names
  <2>2. CASE other # id
    BY <1>2, <1>3, <1>8, <2>2 DEF Names, Store!Stored
  <2>3. QED
    BY <2>1, <2>2
<1>9. ServiceKept
  BY <1>2, <1>8, CounterFacts DEF ServiceKept
<1>10. QED
  BY <1>5, <1>7, <1>9 DEF TableKept

LEMMA TableRestart ==
    ASSUME IInv, Restart
    PROVE  TableKept
<1>1. /\ \A id \in Ids : ~Store!Stored(id)'
      /\ taskCounter' = 0 /\ created' = created /\ restarts' = restarts + 1
      /\ result' = [job \in Ids |-> IF result[job] = "running" THEN "lost" ELSE result[job]]
  BY DEF Restart, Store!Stored
<1>2. JobsCounted'
  BY <1>1, CounterFacts DEF IInv, JobsCounted
<1>3. TableTold'
  BY <1>1 DEF TableTold
<1>4. ServiceKept
  BY <1>1, CounterFacts DEF ServiceKept
<1>5. QED
  BY <1>2, <1>3, <1>4 DEF TableKept

LEMMA TableNext ==
    ASSUME IInv, [Next]_vars
    PROVE  TableKept
<1>1. ASSUME NEW p \in Pages, PageStep(p) \/ Request(p) PROVE TableKept
  BY <1>1, PagesLeaveService, TableStays, TableConvert DEF Request
<1>2. ASSUME NEW c \in cancels, HandleCancel(c) PROVE TableKept
  <2>1. UNCHANGED <<owner, taskCounter, restarts, jobAt, created>>
    BY <1>2 DEF HandleCancel
  <2>2. CASE UNCHANGED <<task, result>>
    BY <2>1, <2>2, TableStays DEF table, truth
  <2>3. CASE ~UNCHANGED <<task, result>>
    BY <1>2, <2>1, <2>3, CancelEffect, TableEnds
  <2>4. QED
    BY <2>2, <2>3
<1>3. ASSUME NEW c \in cancels, CancelLost(c) PROVE TableKept
  BY <1>3, TableStays DEF CancelLost
<1>4. ASSUME NEW id \in Ids, WorkDone(id) \/ WorkFails(id) PROVE TableKept
  <2>1. UNCHANGED <<taskCounter, restarts, jobAt, created>>
    BY <1>4 DEF WorkDone, WorkFails
  <2>2. QED
    BY <1>4, <2>1, WorkEffect, TableEnds
<1>5. ASSUME NEW id \in Ids, PruneOld(id) PROVE TableKept
  BY <1>5, TablePrune
<1>6. CASE Restart \/ UNCHANGED vars
  BY <1>6, TableRestart, TableStays DEF vars
<1>7. QED
  BY <1>1, <1>2, <1>3, <1>4, <1>5, <1>6 DEF Next

-----------------------------------------------------------------------------
(***************************************************************************)
(* The pages.                                                              *)
(***************************************************************************)

\* A final answer is an answer to a poll.
LEMMA ReplyKinds ==
    ASSUME IInv, NEW p \in Pages
    PROVE  /\ reply[p].kind = "accepted" => at[p] = "convert"
           /\ reply[p].kind \in {"missing", "active", "done", "error"} => at[p] = "asked"
           /\ shown[p] # "none" => at[p] = "form"
<1>1. /\ at[p] \in {"form", "convert", "poll", "asked"}
      /\ ReplyFits(p)
  BY DEF IInv, TypeOK, PagesKnow, PageKnows
<1>2. NoReply.kind = "none"
  BY DEF NoReply, Reply
<1>3. QED
  BY <1>1, <1>2 DEF ReplyFits

\* What a page knows outlasts a step of the service that is not about it.
LEMMA KnowsKept ==
    ASSUME IInv, ServiceTyped, ServiceKept, NEW p \in Pages,
           /\ at'[p] = at[p] /\ currentTaskId'[p] = currentTaskId[p]
           /\ shown'[p] = shown[p] /\ reply'[p] = reply[p]
           /\ own'[p] = own[p] /\ since'[p] = since[p]
    PROVE  PageKnows(p)'
<1>1. PageKnows(p) /\ since[p] <= restarts
  BY DEF IInv, PagesKnow, PageKnows
<1>2. since[p] \in Nat /\ restarts \in Nat /\ restarts' >= restarts /\ restarts' \in Nat
  BY CounterFacts, UiAssumption DEF IInv, TypeOK, ServiceTyped, ServiceKept
<1>3. ReplyFits(p)'
  BY <1>1 DEF PageKnows, ReplyFits
<1>4. ASSUME SameService(p)' PROVE KnowsOwn(p)'
  <2>1. since'[p] = restarts' /\ restarts' = restarts /\ SameService(p)
    BY <1>1, <1>2, <1>4 DEF SameService
  <2>2. /\ created <= created' /\ created' \in Nat
        /\ \A id, job \in Ids : Names(id, job) => Names(id, job)'
        /\ \A job \in Ids : result[job] \in Ended => result'[job] = result[job]
    BY <1>2, <2>1, UiAssumption DEF ServiceTyped, ServiceKept
  <2>3. KnowsOwn(p)
    BY <1>1, <2>1 DEF PageKnows
  <2>4. ASSUME NEW id, NEW job, Names(id, job) PROVE Names(id, job)'
    BY <2>2, <2>4, CounterFacts DEF Names
  <2>5. own[p] \in 1..created => own[p] \in Ids /\ own[p] \in 1..created'
    BY <2>2, CounterFacts
  <2>6. PICK r, k, o : r = reply[p].id /\ k = currentTaskId[p] /\ o = own[p]
    OBVIOUS
  <2>7. /\ reply[p].kind = "accepted" => Names(r, o)'
        /\ at[p] \in {"poll", "asked"} => Names(k, o)'
    BY <2>3, <2>4, <2>6 DEF KnowsOwn
  <2>8. /\ reply[p].kind \in {"done", "error"} => own[p] \in Ids
        /\ shown[p] # "none" => own[p] \in Ids
    BY <1>1, <2>3, <2>5, ReplyKinds DEF KnowsOwn, Names
  <2>9. QED
    BY <2>2, <2>3, <2>5, <2>6, <2>7, <2>8 DEF KnowsOwn, Ended
<1>5. since'[p] <= restarts'
  BY <1>1, <1>2
<1>6. QED
  BY <1>3, <1>4, <1>5 DEF PageKnows

LEMMA CancelsKept ==
    ASSUME IInv, ServiceTyped, ServiceKept, NEW c \in cancels
    PROVE  CancelKnows(c)'
<1>1. CancelKnows(c)
  BY DEF IInv, CancelsKnow
<1>2. restarts \in Nat /\ restarts' \in Nat /\ restarts' >= restarts
  BY CounterFacts, UiAssumption DEF ServiceTyped, ServiceKept
<1>3. c.sent \in 0..restarts' /\ (c.sent = restarts' => restarts' = restarts)
  BY <1>1, <1>2 DEF CancelKnows
<1>4. ASSUME c.sent = restarts' PROVE Names(c.id, c.meant)'
  <2>1. Names(c.id, c.meant)
    BY <1>1, <1>3, <1>4 DEF CancelKnows
  <2>2. c.id \in Ids /\ c.meant \in Ids
    BY <2>1, CounterFacts DEF Names
  <2>3. QED
    BY <1>2, <1>3, <1>4, <2>1, <2>2 DEF ServiceKept
<1>5. QED
  BY <1>3, <1>4 DEF CancelKnows

\* The step of a page, when what it now knows is known to be right.
LEMMA PageMoves ==
    ASSUME IInv, UNCHANGED <<table, truth>>, NEW p \in Pages,
           \A q \in Pages \ {p} :
               /\ at'[q] = at[q] /\ currentTaskId'[q] = currentTaskId[q]
               /\ shown'[q] = shown[q] /\ reply'[q] = reply[q]
               /\ own'[q] = own[q] /\ since'[q] = since[q],
           since'[p] = since[p], own'[p] = own[p], ReplyFits(p)',
           SameService(p) =>
               /\ reply'[p].kind = "accepted" => Names(reply'[p].id, own[p])
               /\ at'[p] \in {"poll", "asked"} => Names(currentTaskId'[p], own[p])
               /\ reply'[p].kind = "done" => result[own[p]] = "done"
               /\ reply'[p].kind = "error" => result[own[p]] \in {"failed", "cancelled"}
               /\ shown'[p] # "none" => own[p] \in 1..created
               /\ shown'[p] = "done" => result[own[p]] = "done"
               /\ shown'[p] = "error" => result[own[p]] \in {"failed", "cancelled"}
    PROVE  PagesKnow'
<1>1. ServiceTyped
  BY DEF IInv, TypeOK, ServiceTyped, table, truth, Store!Stored
<1>2. ServiceKept
  BY TableStays DEF TableKept
<1>3. \A q \in Pages \ {p} : PageKnows(q)'
  BY <1>1, <1>2, KnowsKept
<1>4. PageKnows(p)'
  BY DEF IInv, PagesKnow, PageKnows, SameService, KnowsOwn, Names, Store!Stored, table, truth
<1>5. QED
  BY <1>3, <1>4 DEF PagesKnow

LEMMA FinishKnows ==
    ASSUME IInv, NEW p \in Pages, NEW status, Finish(p, status),
           status = "none" \/ (status \in {"done", "error"} /\ reply[p].kind = status)
    PROVE  PagesKnow'
<1>1. /\ at'[p] = "form" /\ reply'[p] = NoReply /\ shown'[p] = status
      /\ own' = own /\ since' = since /\ UNCHANGED <<table, truth>>
      /\ \A q \in Pages \ {p} :
             /\ at'[q] = at[q] /\ currentTaskId'[q] = currentTaskId[q]
             /\ shown'[q] = shown[q] /\ reply'[q] = reply[q]
  BY DEF Finish, ghosts, IInv, TypeOK
<1>2. ReplyFits(p)' /\ NoReply.kind = "none"
  BY <1>1 DEF ReplyFits, NoReply, Reply
<1>3. ASSUME SameService(p), status # "none"
      PROVE  /\ own[p] \in 1..created
             /\ status = "done" => result[own[p]] = "done"
             /\ status = "error" => result[own[p]] \in {"failed", "cancelled"}
  <2>1. KnowsOwn(p) /\ at[p] = "asked"
    BY <1>3, ReplyKinds DEF IInv, PagesKnow, PageKnows
  <2>2. QED
    BY <1>3, <2>1 DEF KnowsOwn, Names
<1>4. QED
  BY <1>1, <1>2, <1>3, PageMoves

LEMMA PagesStep ==
    ASSUME IInv, NEW p \in Pages, PageStep(p)
    PROVE  PagesKnow'
<1> DEFINE Others == \A q \in Pages \ {p} :
               /\ at'[q] = at[q] /\ currentTaskId'[q] = currentTaskId[q]
               /\ shown'[q] = shown[q] /\ reply'[q] = reply[q]
               /\ own'[q] = own[q] /\ since'[q] = since[q]
<1>1. UNCHANGED <<table, truth>>
  BY PagesLeaveService
<1>2. PageKnows(p) /\ NoReply.kind = "none"
  BY DEF IInv, PagesKnow, NoReply, Reply
<1>3. /\ at \in [Pages -> {"form", "convert", "poll", "asked"}]
      /\ currentTaskId \in [Pages -> 0..MaxJobs]
      /\ shown \in [Pages -> {"none", "done", "error"}]
      /\ reply \in [Pages -> [kind : Kinds, id : 0..MaxJobs]]
      /\ own \in [Pages -> 0..MaxJobs]
      /\ since \in [Pages -> 0..MaxRestarts]
  BY DEF IInv, TypeOK
\* A page that has nothing of a conversion: its own is reset with it.
<1>4. ASSUME at'[p] \in {"form", "convert"}, reply'[p] = NoReply, shown'[p] = "none",
             since'[p] = 0, Others
      PROVE  PagesKnow'
  <2>1. ServiceTyped
    BY <1>1 DEF IInv, TypeOK, ServiceTyped, table, truth, Store!Stored
  <2>2. ServiceKept
    BY <1>1, TableStays DEF TableKept
  <2>3. \A q \in Pages \ {p} : PageKnows(q)'
    BY <1>4, <2>1, <2>2, KnowsKept
  <2>4. PageKnows(p)'
    BY <1>1, <1>2, <1>4, CounterFacts DEF PageKnows, ReplyFits, KnowsOwn, NoReply, Reply, table
  <2>5. QED
    BY <2>3, <2>4 DEF PagesKnow
<1>5. CASE Submit(p)
  <2>1. at[p] = "form"
    BY <1>5 DEF Submit, IInv, ButtonsFollowHandler
  <2>2. reply[p] = NoReply
    BY <1>2, <2>1 DEF PageKnows, ReplyFits
  <2>3. QED
    BY <1>3, <1>4, <1>5, <2>2 DEF Submit
<1>6. CASE Reload(p)
  BY <1>3, <1>4, <1>6 DEF Reload
<1>7. CASE SubmitAccepted(p)
  <2>1. /\ at[p] = "convert" /\ reply[p].kind = "accepted"
        /\ at'[p] = "poll" /\ reply'[p] = NoReply /\ currentTaskId'[p] = reply[p].id
        /\ shown' = shown /\ own' = own /\ since' = since
        /\ Others
    BY <1>3, <1>7 DEF SubmitAccepted, ghosts
  <2>2. ReplyFits(p)'
    BY <1>2, <2>1 DEF PageKnows, ReplyFits
  <2>3. SameService(p) => Names(reply[p].id, own[p]) /\ shown[p] = "none"
    BY <1>2, <2>1 DEF PageKnows, KnowsOwn, ReplyFits
  <2>4. QED
    BY <1>1, <1>2, <2>1, <2>2, <2>3, PageMoves
<1>8. CASE Poll(p) \/ PollAgain(p)
  <2>1. /\ at[p] \in {"poll", "asked"} /\ at'[p] \in {"poll", "asked"} /\ reply'[p] = NoReply
        /\ currentTaskId' = currentTaskId
        /\ shown' = shown /\ own' = own /\ since' = since
        /\ Others
    BY <1>2, <1>3, <1>8 DEF Poll, PollAgain, buttons, ghosts, PageKnows, ReplyFits
  <2>2. ReplyFits(p)'
    BY <1>2, <2>1 DEF PageKnows, ReplyFits
  <2>3. SameService(p) => Names(currentTaskId[p], own[p]) /\ shown[p] = "none"
    BY <1>2, <2>1 DEF PageKnows, KnowsOwn, ReplyFits
  <2>4. QED
    BY <1>1, <1>2, <2>1, <2>2, <2>3, PageMoves
<1>9. CASE Late(p) \/ Cancel(p)
  <2>1. UNCHANGED <<at, currentTaskId, shown, reply, own, since>>
    BY <1>9 DEF Late, Cancel, buttons, ghosts
  <2>2. ReplyFits(p)' /\ (SameService(p) => KnowsOwn(p))
    BY <1>2, <2>1 DEF PageKnows, ReplyFits
  <2>3. QED
    BY <1>1, <2>1, <2>2, PageMoves DEF KnowsOwn
<1>10. CASE SubmitRefused(p) \/ PollOver(p) \/ PollMissing(p) \/ PollLimit(p) \/ FetchFails(p)
  BY <1>10, FinishKnows DEF SubmitRefused, PollOver, PollMissing, PollLimit, FetchFails
<1>11. QED
  BY <1>5, <1>6, <1>7, <1>8, <1>9, <1>10 DEF PageStep, HandlerStep

\* The answers.
LEMMA PagesRequest ==
    ASSUME IInv, NEW p \in Pages, Request(p), ServiceTyped, ServiceKept
    PROVE  PagesKnow'
<1>1. PageKnows(p) /\ reply \in [Pages -> [kind : Kinds, id : 0..MaxJobs]]
  BY DEF IInv, TypeOK, PagesKnow
<1>2. CASE HandleRefused(p)
  <2>1. /\ at[p] = "convert" /\ reply' = [reply EXCEPT ![p] = Reply("refused", None)]
        /\ UNCHANGED <<at, currentTaskId, shown, own, since>> /\ UNCHANGED <<table, truth>>
    BY <1>2 DEF HandleRefused, Unanswered, Answer, buttons, ghosts
  <2>2. reply'[p].kind = "refused"
    BY <1>1, <2>1 DEF Reply
  <2>3. ReplyFits(p)' /\ shown[p] = "none"
    BY <1>1, <2>1, <2>2 DEF PageKnows, ReplyFits
  <2>4. QED
    BY <1>1, <2>1, <2>2, <2>3, PageMoves
<1>3. CASE HandleTask(p)
  <2> DEFINE kind == StatusOf(currentTaskId[p], UserOf[p])
  <2>1. /\ at[p] = "asked" /\ reply' = [reply EXCEPT ![p] = Reply(kind, None)]
        /\ UNCHANGED <<at, currentTaskId, shown, own, since>> /\ UNCHANGED <<table, truth>>
    BY <1>3 DEF HandleTask, Unanswered, Answer, buttons, ghosts
  <2>2. reply'[p].kind = kind
    BY <1>1, <2>1 DEF Reply
  <2>3. kind \in {"missing", "active", "done", "error"}
    BY DEF StatusOf, Store!Terminal
  <2>4. ReplyFits(p)' /\ shown[p] = "none"
    BY <1>1, <2>1, <2>2, <2>3 DEF PageKnows, ReplyFits
  <2>5. ASSUME SameService(p)
        PROVE  /\ Names(currentTaskId[p], own[p])
               /\ kind = "done" => result[own[p]] = "done"
               /\ kind = "error" => result[own[p]] \in {"failed", "cancelled"}
    <3>1. Names(currentTaskId[p], own[p])
      BY <1>1, <2>1, <2>5 DEF PageKnows, KnowsOwn
    <3>2. ASSUME kind \in {"done", "error"}
          PROVE  /\ currentTaskId[p] \in Ids /\ Store!Stored(currentTaskId[p])
                 /\ kind = task[currentTaskId[p]].status
      BY <3>2 DEF StatusOf, Visible
    <3>3. ASSUME kind \in {"done", "error"}
          PROVE  TaskTold(currentTaskId[p]) /\ jobAt[currentTaskId[p]] = own[p]
      BY <3>1, <3>2, <3>3 DEF IInv, TableTold, Names
    <3>4. QED
      BY <3>1, <3>2, <3>3 DEF TaskTold
  <2> HIDE DEF kind
  <2>6. QED
    BY <2>1, <2>2, <2>3, <2>4, <2>5, PageMoves
<1>4. CASE HandleConvert(p)
  <2>1. /\ at[p] = "convert" /\ reply' = [reply EXCEPT ![p] = Reply("accepted", NextId)]
        /\ own' = [own EXCEPT ![p] = created + 1]
        /\ since' = [since EXCEPT ![p] = restarts]
        /\ jobAt' = [jobAt EXCEPT ![NextId] = created + 1]
        /\ taskCounter' = NextId /\ created' = created + 1 /\ restarts' = restarts
        /\ UNCHANGED <<at, currentTaskId, shown>>
        /\ created < MaxJobs
    BY <1>4 DEF HandleConvert, Unanswered, Answer, buttons
  <2>2. \A q \in Pages \ {p} : PageKnows(q)'
    BY <2>1, KnowsKept DEF IInv, TypeOK
  <2>3. PICK id \in Ids, job \in Ids : id = NextId /\ job = created + 1 /\ id = taskCounter + 1
    BY <2>1, NextIdIsFree
  <2>4. Names(id, job)'
    <3>1. task'[id] # NoTask /\ jobAt'[id] = job
      BY <1>4, <2>1, <2>3, ConvertEffect DEF IInv, TypeOK
    <3>2. id \in 1..taskCounter' /\ job \in 1..created'
      BY <2>1, <2>3, CounterFacts
    <3>3. QED
      BY <3>1, <3>2 DEF Names, Store!Stored
  <2>5. /\ reply'[p].kind = "accepted" /\ reply'[p].id = id
        /\ own'[p] = job /\ since'[p] = restarts
    BY <1>1, <2>1, <2>3 DEF Reply, IInv, TypeOK
  <2>6. ReplyFits(p)' /\ shown'[p] = "none"
    BY <1>1, <2>1, <2>5 DEF PageKnows, ReplyFits
  <2>7. PageKnows(p)'
    BY <2>1, <2>4, <2>5, <2>6, CounterFacts DEF PageKnows, KnowsOwn
  <2>8. QED
    BY <2>2, <2>7 DEF PagesKnow
<1>5. QED
  BY <1>2, <1>3, <1>4 DEF Request

LEMMA PagesNext ==
    ASSUME IInv, [Next]_vars, ServiceTyped, ServiceKept
    PROVE  PagesKnow'
<1>1. ASSUME NEW p \in Pages, PageStep(p) \/ Request(p) PROVE PagesKnow'
  BY <1>1, PagesStep, PagesRequest
<1>2. ASSUME UNCHANGED <<at, currentTaskId, shown, reply, own, since>> PROVE PagesKnow'
  BY <1>2, KnowsKept DEF PagesKnow
<1>3. ASSUME NEW c \in cancels, HandleCancel(c) \/ CancelLost(c) PROVE PagesKnow'
  BY <1>2, <1>3 DEF HandleCancel, CancelLost, buttons, ghosts
<1>4. ASSUME NEW id \in Ids, WorkDone(id) \/ WorkFails(id) \/ PruneOld(id) PROVE PagesKnow'
  BY <1>2, <1>4 DEF WorkDone, WorkFails, PruneOld, buttons, ghosts
<1>5. CASE Restart \/ UNCHANGED vars
  BY <1>2, <1>5 DEF Restart, vars, buttons, ghosts
<1>6. QED
  BY <1>1, <1>3, <1>4, <1>5 DEF Next

\* A request to cancel is made out of what the page knows.
LEMMA CancelsNext ==
    ASSUME IInv, [Next]_vars, ServiceTyped, ServiceKept
    PROVE  CancelsKnow'
<1>1. ASSUME NEW p \in Pages, Cancel(p) PROVE CancelsKnow'
  <2>1. PICK c : /\ cancels' = cancels \union {c}
                 /\ c.id = currentTaskId[p] /\ c.meant = own[p] /\ c.sent = since[p]
    <3>1. PICK c : c = [user |-> UserOf[p], id |-> currentTaskId[p], meant |-> own[p],
                        sent |-> since[p]]
      OBVIOUS
    <3>2. cancels' = cancels \union {c}
      BY <1>1, <3>1 DEF Cancel
    <3>3. c.id = currentTaskId[p] /\ c.meant = own[p] /\ c.sent = since[p]
      BY <3>1
    <3>4. QED
      BY <3>2, <3>3
  <2>2. at[p] \in {"poll", "asked"} /\ UNCHANGED <<table, truth>>
    BY <1>1 DEF Cancel, IInv, ButtonsFollowHandler
  <2>3. PageKnows(p) /\ since[p] \in Nat
    BY UiAssumption DEF IInv, TypeOK, PagesKnow
  <2>4. CancelKnows(c)
    BY <2>1, <2>2, <2>3, CounterFacts DEF PageKnows, SameService, KnowsOwn, CancelKnows
  <2>5. CancelKnows(c)'
    BY <2>2, <2>4 DEF CancelKnows, Names, Store!Stored, table, truth
  <2>6. QED
    BY <2>1, <2>5, CancelsKept DEF CancelsKnow
<1>2. ASSUME cancels' \subseteq cancels PROVE CancelsKnow'
  BY <1>2, CancelsKept DEF CancelsKnow
<1>3. ASSUME NEW p \in Pages, PageStep(p) PROVE CancelsKnow'
  BY <1>1, <1>2, <1>3
     DEF PageStep, HandlerStep, Submit, SubmitRefused, SubmitAccepted, Poll, PollOver,
         PollMissing, PollLimit, PollAgain, FetchFails, Late, Reload, Finish
<1>4. ASSUME NEW p \in Pages, Request(p) PROVE CancelsKnow'
  BY <1>2, <1>4 DEF Request, HandleRefused, HandleConvert, HandleTask
<1>5. ASSUME NEW c \in cancels, HandleCancel(c) \/ CancelLost(c) PROVE CancelsKnow'
  BY <1>2, <1>5 DEF HandleCancel, CancelLost
<1>6. ASSUME NEW id \in Ids, WorkDone(id) \/ WorkFails(id) \/ PruneOld(id) PROVE CancelsKnow'
  BY <1>2, <1>6 DEF WorkDone, WorkFails, PruneOld
<1>7. CASE Restart \/ UNCHANGED vars
  BY <1>2, <1>7 DEF Restart, vars
<1>8. QED
  BY <1>3, <1>4, <1>5, <1>6, <1>7 DEF Next

-----------------------------------------------------------------------------
(***************************************************************************)
(* The theorems.                                                           *)
(***************************************************************************)
LEMMA IInvInit == Init => IInv
<1> SUFFICES ASSUME Init PROVE IInv
  OBVIOUS
<1>1. /\ \A id \in Ids : ~Store!Stored(id)
      /\ NoReply.kind = "none"
      /\ NoReply \in [kind : Kinds, id : 0..MaxJobs]
  BY UiAssumption DEF Init, Store!Stored, NoReply, Reply, Kinds, None
<1>2. TypeOK
  BY <1>1, UiAssumption DEF Init, TypeOK, None
<1>3. ButtonsFollowHandler
  BY DEF Init, ButtonsFollowHandler
<1>4. JobsCounted
  BY UiAssumption DEF Init, JobsCounted, Ids
<1>5. TableTold
  BY <1>1 DEF TableTold
<1>6. PagesKnow
  BY <1>1 DEF Init, PagesKnow, PageKnows, ReplyFits, SameService, KnowsOwn
<1>7. CancelsKnow
  BY DEF Init, CancelsKnow
<1>8. QED
  BY <1>2, <1>3, <1>4, <1>5, <1>6, <1>7 DEF IInv

LEMMA IInvNext == IInv /\ [Next]_vars => IInv'
<1> SUFFICES ASSUME IInv, [Next]_vars PROVE IInv'
  OBVIOUS
<1>1. ServiceTyped /\ TableKept
  BY ServiceTypes, TableNext
<1>2. PagesKnow' /\ CancelsKnow'
  BY <1>1, PagesNext, CancelsNext DEF TableKept
<1>3. QED
  BY <1>1, <1>2, TypeNext, ButtonsNext DEF IInv, TableKept

\* The invariant the other theorems rest on holds of every behaviour.
THEOREM IInvInvariant == Spec => []IInv
BY IInvInit, IInvNext, PTL DEF Spec

\* Types, and no id is in the table that was not given out.
THEOREM TypeCorrect == Spec => []TypeOK
BY IInvInvariant, PTL DEF IInv

\* A page never runs two handlers, and offers to cancel exactly while it polls.
THEOREM ButtonsCorrect == Spec => []ButtonsFollowHandler
BY IInvInvariant, PTL DEF IInv

\* What a page shows as the end of its conversion is that, while the service
\* that accepted it runs.
THEOREM VerdictsAreOwn == Spec => []VerdictIsOwn
<1>1. IInv => VerdictIsOwn
  BY DEF IInv, PagesKnow, PageKnows, KnowsOwn, VerdictIsOwn
<1>2. QED
  BY <1>1, IInvInvariant, PTL

\* A job is stopped by the cancel request that named it.
LEMMA CancelHitsOwnStep ==
    ASSUME IInv, [Next]_vars, NEW job \in Ids, Stops(job)
    PROVE  \E c \in cancels \ cancels' : c.sent = restarts => c.meant = job
<1>1. result \in [Ids -> {"none", "running", "done", "failed", "cancelled", "lost"}]
  BY DEF IInv, TypeOK
<1>2. result'[job] = "cancelled" /\ result' # result
  BY DEF Stops
<1>3. ASSUME NEW p \in Pages, PageStep(p) \/ Request(p) PROVE FALSE
  <2>1. HandleConvert(p)
    BY <1>2, <1>3, PagesLeaveService DEF Request, truth
  <2>2. result' = [result EXCEPT ![created + 1] = "running"]
    BY <2>1 DEF HandleConvert
  <2>3. QED
    BY <1>1, <2>2 DEF Stops
<1>4. ASSUME NEW c \in cancels, HandleCancel(c)
      PROVE  \E d \in cancels \ cancels' : d.sent = restarts => d.meant = job
  <2>1. /\ c.id \in Ids /\ Store!Stored(c.id)
        /\ result' = [result EXCEPT ![jobAt[c.id]] = "cancelled"]
    BY <1>2, <1>4, CancelEffect
  <2>2. jobAt[c.id] = job
    BY <1>1, <2>1 DEF Stops
  <2>3. c.sent = restarts => c.meant = job
    BY <2>1, <2>2 DEF IInv, CancelsKnow, CancelKnows, Names
  <2>4. c \notin cancels'
    BY <1>4 DEF HandleCancel
  <2>5. QED
    BY <2>3, <2>4
<1>5. ASSUME NEW c \in cancels, CancelLost(c) PROVE FALSE
  BY <1>2, <1>5 DEF CancelLost, truth
<1>6. ASSUME NEW id \in Ids, WorkDone(id) \/ WorkFails(id) \/ PruneOld(id) PROVE FALSE
  BY <1>1, <1>6 DEF Stops, WorkDone, WorkFails, PruneOld
<1>7. CASE Restart
  BY <1>1, <1>7 DEF Restart, Stops
<1>8. CASE UNCHANGED vars
  BY <1>2, <1>8 DEF vars, truth
<1>9. QED
  BY <1>3, <1>4, <1>5, <1>6, <1>7, <1>8 DEF Next

\* A cancel request stops the conversion its user saw, or none.
THEOREM CancelsHitOwn == Spec => CancelHitsOwn
<1>1. IInv /\ [Next]_vars =>
          [\A job \in Ids : Stops(job) =>
              \E c \in cancels \ cancels' : c.sent = restarts => c.meant = job]_vars
  BY CancelHitsOwnStep
<1>2. QED
  BY <1>1, IInvInvariant, PTL DEF Spec, CancelHitsOwn
=============================================================================
