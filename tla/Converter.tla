----------------------------- MODULE Converter -----------------------------
(***************************************************************************)
(* The life of a conversion, src/ex_app/main.go: makeConvertHandler admits *)
(* it and stores its task, processTask runs it in a goroutine of its own   *)
(* (wait for a slot, download, probe, encode, verify, upload, delete the   *)
(* original, clean up), and meanwhile the owner may cancel, the deadline   *)
(* may pass, the process may be told to stop or die, users may change the  *)
(* files, and the server may execute, refuse or lose what it was sent.     *)
(*                                                                         *)
(* Composes JobGate (the slots), TaskStore (what the user sees) and WebDav *)
(* (the files and the requests on their way).  A step of a worker ends     *)
(* where another goroutine, a handler or the server can see or disturb it; *)
(* the download and the probes read, have no effect anybody else sees, and *)
(* are one step each, taken when they finish.                              *)
(***************************************************************************)
EXTENDS Naturals, Sequences, FiniteSets

CONSTANTS
    Jobs,            \* requests for a conversion, one task each
    Users, UserOf,   \* and their owners
    Settings, NoSettings, EndReasons,
    NoTask, NoPath,
    Paths, Absent, AnyVersion, NoRequest,
    SourceOf,        \* ConversionRequest.FilePath of each job
    NamesOf,         \* the output paths uploadConvertedWebDAV tries, in order
    DeleteOriginal,  \* the jobs whose request asks for it
    FreePaths,       \* paths at which no file exists at first
    EditPaths,       \* paths users touch
    MaxEdits,
    MaxRestarts      \* bound on restarts of the process

ASSUME ConverterAssumption ==
    /\ SourceOf \in [Jobs -> Paths]
    /\ NamesOf \in [Jobs -> Seq(Paths)]
    /\ \A j \in Jobs : Len(NamesOf[j]) > 0
    /\ DeleteOriginal \subseteq Jobs
    /\ FreePaths \subseteq Paths
    /\ EditPaths \subseteq Paths
    /\ EndReasons = {"canceled", "deadline"}
    /\ MaxEdits \in Nat
    /\ MaxRestarts \in Nat

\* What JobGate assumes of the settings and the users.
ASSUME GateAssumption ==
    /\ IsFiniteSet(Jobs)
    /\ UserOf \in [Jobs -> Users]
    /\ \A s \in Settings : /\ s.MaxConcurrentJobs \in Nat \ {0}
                           /\ s.MaxConcurrentJobsPerUser \in Nat \ {0}
                           /\ s.MaxQueuedJobsPerUser \in Nat
    /\ NoSettings \notin Settings

\* A job converts a file of a user.  No other job saves its output there:
\* conversions of conversions are not modelled, as users leave alone what has
\* been saved (UserEdit).  A job's own output has another name than its source.
ASSUME SourcesAssumption ==
    \A j, k \in Jobs : \A i \in 1..Len(NamesOf[k]) : NamesOf[k][i] # SourceOf[j]

VARIABLES
    activeTotal, activeByUser, queuedByUser, settings, active, released, call, ctx,
    task,
    files, wire, answer, edits,
    pc,         \* where the handler or the worker of each job is
    original,   \* the content the worker has downloaded
    attempt,    \* the output name uploadConvertedWebDAV is at
    saved,      \* remoteOut, once the upload has returned
    notice,     \* the final notification sent for the job
    restarts,   \* number of restarts so far
    configured  \* NEXTCLOUD_URL is set

gateVars == <<activeTotal, activeByUser, queuedByUser, settings, active, released>>
davVars == <<files, wire, answer, edits>>
workVars == <<original, attempt, saved, notice>>
process == <<restarts, configured>>
vars == <<gateVars, call, ctx, task, davVars, pc, workVars, process>>

Gate == INSTANCE JobGate
Store == INSTANCE TaskStore
Dav == INSTANCE WebDav

\* What a path can hold, and what can be on its way to the server.
Contents == {Dav!UserFile(n) : n \in 0..MaxEdits}
Outputs == {Dav!Output(j, c) : j \in Jobs, c \in Contents}
FileStates == Contents \union Outputs \union {Absent}

Requests == {Dav!Put(p, c) : p \in Paths, c \in Outputs}
            \union {Dav!Delete(p, c) : p \in Paths, c \in Contents}

\* The values that stand for nothing are none of the things they stand beside.
ASSUME TokensAssumption ==
    /\ "user" \notin Jobs
    /\ Absent \notin Contents \union Outputs
    /\ AnyVersion \notin FileStates
    /\ NoRequest \notin Requests
    /\ NoPath \notin Paths
    /\ NoTask \notin Store!Task(Paths)

\* In the handler: admitted, accepted.  In the worker: waiting for the slot,
\* the stages, and the deferred function (unwind, release, report).
Waits == {"admitted", "accepted", "acquire"}
Stages == {"download", "probe", "encode", "encoding", "verify",
           "put", "putting", "delete", "deleting"}
Deferred == {"unwind", "release", "report"}
Over == {"idle", "refused", "ended", "lost"}
Alive(j) == pc[j] \notin Over

Live(j) == ctx[j] = "live"
Listening(j) == pc[j] \in {"putting", "deleting"}

Goto(j, l) == pc' = [pc EXCEPT ![j] = l]

\* Leaves a stage with an error: the task records it, the worker unwinds.
Fail(j, error) == Store!SetTaskError(j, error) /\ Goto(j, "unwind")

\* Leaves a request with an error of its own, or with the cancellation of the
\* context when that is what ended it.
FailRequest(j) ==
    \/ Fail(j, "failed")
    \/ ctx[j] = "canceled" /\ Fail(j, "cancelled")

-----------------------------------------------------------------------------
Init ==
    /\ Gate!Init
    /\ task = [j \in Jobs |-> NoTask]
    /\ files \in [Paths -> {Absent, Dav!UserFile(0)}]
    /\ \A p \in Paths : files[p] = Absent <=> p \in FreePaths
    /\ wire = [j \in Jobs |-> NoRequest]
    /\ answer = [j \in Jobs |-> "none"]
    /\ edits = 0
    /\ pc = [j \in Jobs |-> "idle"]
    /\ original = [j \in Jobs |-> Absent]
    /\ attempt = [j \in Jobs |-> 0]
    /\ saved = [j \in Jobs |-> NoPath]
    /\ notice = [j \in Jobs |-> "none"]
    /\ restarts = 0
    /\ configured \in BOOLEAN

-----------------------------------------------------------------------------
(***************************************************************************)
(* The handler of POST /api/convert.                                       *)
(***************************************************************************)

\* Reserves under the settings it has just read; 429 when there is no room.
Admit(j) ==
    /\ pc[j] = "idle"
    /\ \E s \in Settings : Gate!Reserve(j, s)
    /\ Goto(j, IF call'[j] = "held" THEN "admitted" ELSE "refused")
    /\ UNCHANGED <<task, davVars, workVars, process>>

\* Makes the context, stores the task, answers 202 and starts the worker.
Accept(j) ==
    /\ pc[j] = "admitted"
    /\ Store!NewTask(j)
    /\ Goto(j, "accepted")
    /\ UNCHANGED <<gateVars, call, ctx, davVars, workVars, process>>

(***************************************************************************)
(* The worker, processTask.                                                *)
(***************************************************************************)
Begin(j) ==
    /\ pc[j] = "accepted"
    /\ configured
    /\ Gate!AcquireStart(j)
    /\ Store!SetTaskStatus(j, "queued")
    /\ Goto(j, "acquire")
    /\ UNCHANGED <<davVars, workVars, process>>

\* Without NEXTCLOUD_URL the job ends before it asks for its slot.
BeginUnconfigured(j) ==
    /\ pc[j] = "accepted"
    /\ ~configured
    /\ Fail(j, "failed")
    /\ UNCHANGED <<gateVars, call, ctx, davVars, workVars, process>>

\* Polls for the slot.
Acquire(j) ==
    /\ pc[j] = "acquire"
    /\ \/ Gate!AcquireCheck(j)
       \/ Gate!AcquireLock(j)
       \/ Gate!AcquireTick(j)
       \/ Gate!AcquireDone(j)
    /\ UNCHANGED <<task, davVars, pc, workVars, process>>

\* Mutation of AcquireFailed: returns without the deferred function.
AcquireFailed_NoDefer(j) ==
    /\ pc[j] = "acquire"
    /\ call[j] = "err"
    /\ Store!SetTaskError(j, IF ctx[j] = "deadline" THEN "timeout" ELSE "cancelled")
    /\ Goto(j, "ended")
    /\ UNCHANGED <<gateVars, call, ctx, davVars, workVars, process>>

AcquireFailed(j) ==
    /\ pc[j] = "acquire"
    /\ call[j] = "err"
    /\ Fail(j, IF ctx[j] = "deadline" THEN "timeout" ELSE "cancelled")
    /\ UNCHANGED <<gateVars, call, ctx, davVars, workVars, process>>

\* Has the slot: shows it and tells the user that the conversion has begun.
Start(j) ==
    /\ pc[j] = "acquire"
    /\ call[j] = "ok"
    /\ Store!SetTaskStatus(j, "downloading")
    /\ Goto(j, "download")
    /\ UNCHANGED <<gateVars, call, ctx, davVars, workVars, process>>

\* The server sends a strong ETag or not; without one the original could not
\* be deleted safely, and the job stops before it converts anything.
DownloadOk(j) ==
    /\ pc[j] = "download"
    /\ Live(j)
    /\ files[SourceOf[j]] # Absent
    /\ original' = [original EXCEPT ![j] = files[SourceOf[j]]]
    /\ Goto(j, "probe")
    /\ UNCHANGED <<gateVars, call, ctx, task, davVars, attempt, saved, notice, process>>

DownloadNoETag(j) ==
    /\ pc[j] = "download"
    /\ Live(j)
    /\ files[SourceOf[j]] # Absent
    /\ j \in DeleteOriginal
    /\ Fail(j, "failed")
    /\ UNCHANGED <<gateVars, call, ctx, davVars, workVars, process>>

\* No temporary file, no network, no such file, an error answer, or the
\* context has ended.
DownloadFailed(j) ==
    /\ pc[j] = "download"
    /\ FailRequest(j)
    /\ UNCHANGED <<gateVars, call, ctx, davVars, workVars, process>>

\* ffprobe on the input, the temporary output, the ffmpeg arguments.
ProbeOk(j) ==
    /\ pc[j] = "probe"
    /\ Live(j)
    /\ Store!SetTaskStatus(j, "preparing")
    /\ Goto(j, "encode")
    /\ UNCHANGED <<gateVars, call, ctx, davVars, workVars, process>>

ProbeFailed(j) ==
    /\ pc[j] = "probe"
    /\ Fail(j, "failed")
    /\ UNCHANGED <<gateVars, call, ctx, davVars, workVars, process>>

\* cmd.Start, which refuses a context that has ended.
EncodeStart(j) ==
    /\ pc[j] = "encode"
    /\ Live(j)
    /\ Goto(j, "encoding")
    /\ UNCHANGED <<gateVars, call, ctx, task, davVars, workVars, process>>

\* ffmpeg reports progress.
EncodeProgress(j) ==
    /\ pc[j] = "encoding"
    /\ Store!SetTaskStatus(j, "converting")
    /\ UNCHANGED <<gateVars, call, ctx, davVars, pc, workVars, process>>

\* ffmpeg succeeds: it may still do so when the context ends at that moment.
EncodeOk(j) ==
    /\ pc[j] = "encoding"
    /\ Goto(j, "verify")
    /\ UNCHANGED <<gateVars, call, ctx, task, davVars, workVars, process>>

\* ffmpeg does not start, fails, or is killed with its process group.
EncodeFailed(j) ==
    /\ pc[j] \in {"encode", "encoding"}
    /\ Fail(j, IF ctx[j] = "canceled" THEN "cancelled" ELSE "failed")
    /\ UNCHANGED <<gateVars, call, ctx, davVars, workVars, process>>

\* verifyOutputBitDepth runs ffprobe on the output, or nothing at all when the
\* video stream was copied: that succeeds whatever has become of the context.
VerifyOk(j) ==
    /\ pc[j] = "verify"
    /\ Store!SetTaskStatus(j, "uploading")
    /\ attempt' = [attempt EXCEPT ![j] = 1]
    /\ Goto(j, "put")
    /\ UNCHANGED <<gateVars, call, ctx, davVars, original, saved, notice, process>>

VerifyFailed(j) ==
    /\ pc[j] = "verify"
    /\ Fail(j, "failed")
    /\ UNCHANGED <<gateVars, call, ctx, davVars, workVars, process>>

\* Mutation of PutSend: the request does not carry the context.
PutSend_AnyContext(j) ==
    /\ pc[j] = "put"
    /\ Dav!Send(j, Dav!Put(NamesOf[j][attempt[j]], Dav!Output(j, original[j])))
    /\ Goto(j, "putting")
    /\ UNCHANGED <<gateVars, call, ctx, task, workVars, process>>

\* uploadConvertedWebDAV tries the next name.
PutSend(j) ==
    /\ pc[j] = "put"
    /\ Live(j)
    /\ Dav!Send(j, Dav!Put(NamesOf[j][attempt[j]], Dav!Output(j, original[j])))
    /\ Goto(j, "putting")
    /\ UNCHANGED <<gateVars, call, ctx, task, workVars, process>>

\* 2xx.  Without a deletion to do, the conversion is done.
PutSaved(j) ==
    /\ pc[j] = "putting"
    /\ answer[j] = "ok"
    /\ saved' = [saved EXCEPT ![j] = NamesOf[j][attempt[j]]]
    /\ IF j \in DeleteOriginal
       THEN Store!SetTaskStatus(j, "finishing") /\ Goto(j, "delete")
       ELSE Store!SetTaskDone(j, saved'[j]) /\ Goto(j, "unwind")
    /\ UNCHANGED <<gateVars, call, ctx, davVars, original, attempt, notice, process>>

\* Mutation of PutTaken: tries one name too many.
PutTaken_PastEnd(j) ==
    /\ pc[j] = "putting"
    /\ answer[j] = "precondition"
    /\ IF attempt[j] <= Len(NamesOf[j])
       THEN /\ attempt' = [attempt EXCEPT ![j] = attempt[j] + 1]
            /\ Goto(j, "put")
            /\ UNCHANGED task
       ELSE /\ Fail(j, "failed")
            /\ UNCHANGED attempt
    /\ UNCHANGED <<gateVars, call, ctx, davVars, original, saved, notice, process>>

\* Mutation of PutTaken: any failure is taken for a name that is taken.
PutTaken_AnyFailure(j) ==
    /\ pc[j] = "putting"
    /\ answer[j] # "ok"
    /\ IF attempt[j] < Len(NamesOf[j])
       THEN /\ attempt' = [attempt EXCEPT ![j] = attempt[j] + 1]
            /\ Goto(j, "put")
            /\ UNCHANGED task
       ELSE /\ Fail(j, "failed")
            /\ UNCHANGED attempt
    /\ UNCHANGED <<gateVars, call, ctx, davVars, original, saved, notice, process>>

\* 412: the name is taken, and the next one is tried while there is one.
PutTaken(j) ==
    /\ pc[j] = "putting"
    /\ answer[j] = "precondition"
    /\ IF attempt[j] < Len(NamesOf[j])
       THEN /\ attempt' = [attempt EXCEPT ![j] = attempt[j] + 1]
            /\ Goto(j, "put")
            /\ UNCHANGED task
       ELSE /\ Fail(j, "failed")
            /\ UNCHANGED attempt
    /\ UNCHANGED <<gateVars, call, ctx, davVars, original, saved, notice, process>>

\* The request could not be made, another answer, no connection or a broken
\* one (whatever has become of the request), or the context has ended.
PutFailed(j) ==
    /\ \/ pc[j] = "put"
       \/ pc[j] = "putting" /\ answer[j] \in {"none", "refused"}
    /\ FailRequest(j)
    /\ UNCHANGED <<gateVars, call, ctx, davVars, workVars, process>>

DeleteSend(j) ==
    /\ pc[j] = "delete"
    /\ Live(j)
    /\ Dav!Send(j, Dav!Delete(SourceOf[j], original[j]))
    /\ Goto(j, "deleting")
    /\ UNCHANGED <<gateVars, call, ctx, task, workVars, process>>

\* 2xx, or 404: somebody else has removed it.
Deleted(j) ==
    /\ pc[j] = "deleting"
    /\ answer[j] \in {"ok", "missing"}
    /\ Store!SetTaskDone(j, saved[j])
    /\ Goto(j, "unwind")
    /\ UNCHANGED <<gateVars, call, ctx, davVars, workVars, process>>

\* Mutation of DeleteFailed: returns without recording the error.
DeleteFailed_Silent(j) ==
    /\ \/ pc[j] = "delete"
       \/ pc[j] = "deleting" /\ answer[j] \in {"none", "refused", "precondition"}
    /\ Goto(j, "unwind")
    /\ UNCHANGED <<gateVars, call, ctx, task, davVars, workVars, process>>

\* 412: the source has changed, the new original is kept.  Or any failure.
DeleteFailed(j) ==
    /\ \/ pc[j] = "delete"
       \/ pc[j] = "deleting" /\ answer[j] \in {"none", "refused", "precondition"}
    /\ Fail(j, "not_deleted")
    /\ UNCHANGED <<gateVars, call, ctx, davVars, workVars, process>>

(***************************************************************************)
(* The deferred function of processTask.                                   *)
(***************************************************************************)

\* A passed deadline is reported over whatever else went wrong; cancel() is
\* called after that.
Unwind(j) ==
    /\ pc[j] = "unwind"
    /\ IF ctx[j] = "deadline" /\ Store!Stored(j) /\ ~Store!Done(j)
       THEN Store!SetTaskError(j, "timeout")
       ELSE UNCHANGED task
    /\ ctx' = [ctx EXCEPT ![j] = IF Live(j) THEN "canceled" ELSE ctx[j]]
    /\ Goto(j, "release")
    /\ UNCHANGED <<gateVars, call, davVars, workVars, process>>

\* Mutation of ReleaseSlot: the slot is given back and the reservation not
\* marked as released.
ReleaseSlot_Unmarked(j) ==
    /\ pc[j] = "release"
    /\ IF j \in active
       THEN /\ activeTotal' = activeTotal - 1
            /\ activeByUser' = Gate!Decrement(activeByUser, UserOf[j])
            /\ UNCHANGED queuedByUser
       ELSE /\ queuedByUser' = Gate!Decrement(queuedByUser, UserOf[j])
            /\ UNCHANGED <<activeTotal, activeByUser>>
    /\ Goto(j, "report")
    /\ UNCHANGED <<settings, active, released, call, ctx, task, davVars, workVars, process>>

ReleaseSlot(j) ==
    /\ pc[j] = "release"
    /\ Gate!Release(j)
    /\ Goto(j, "report")
    /\ UNCHANGED <<task, davVars, workVars, process>>

\* Mutation of Report: an error is not notified.
Report_OnlySuccess(j) ==
    /\ pc[j] = "report"
    /\ Store!DropCancel(j)
    /\ notice' = [notice EXCEPT ![j] = IF configured /\ Store!Done(j) THEN "done" ELSE "none"]
    /\ Goto(j, "ended")
    /\ UNCHANGED <<gateVars, call, ctx, davVars, original, attempt, saved, process>>

\* Drops the cancel function and sends the final notification from a snapshot
\* of the task; sendNotification sends none without NEXTCLOUD_URL.
Report(j) ==
    /\ pc[j] = "report"
    /\ Store!DropCancel(j)
    /\ notice' = [notice EXCEPT ![j] =
                     IF configured /\ Store!Stored(j) /\ task[j].status \in Store!Terminal
                     THEN task[j].status ELSE "none"]
    /\ Goto(j, "ended")
    /\ UNCHANGED <<gateVars, call, ctx, davVars, original, attempt, saved, process>>

-----------------------------------------------------------------------------
(***************************************************************************)
(* Everybody else.                                                         *)
(***************************************************************************)

\* Mutation of Cancel: the flag is set and the context goes on.
Cancel_FlagOnly(j) ==
    /\ Store!Cancellable(j)
    /\ Store!MarkCancelled(j)
    /\ UNCHANGED <<gateVars, call, ctx, davVars, pc, workVars, process>>

\* POST /api/task/{id}/cancel of the owner: the flag, the error and the call
\* of cancel() under one lock.
Cancel(j) ==
    /\ Store!Cancellable(j)
    /\ Store!MarkCancelled(j)
    /\ ctx' = [ctx EXCEPT ![j] = IF task[j].cancel /\ Live(j) THEN "canceled" ELSE ctx[j]]
    /\ UNCHANGED <<gateVars, call, davVars, pc, workVars, process>>

\* context.WithTimeout fires.
Deadline(j) ==
    /\ Alive(j)
    /\ pc[j] # "admitted"
    /\ Live(j)
    /\ Gate!EndContext(j, "deadline")
    /\ UNCHANGED <<task, davVars, pc, workVars, process>>

\* The cleanup loop removes a terminal task that nothing has touched for two
\* hours.  A worker is over long before that: once its task is terminal only
\* the deferred function and, for a cancelled one, a call that the ended
\* context aborts are left.
PruneTask(j) ==
    /\ pc[j] = "ended"
    /\ Store!Prunable(j)
    /\ Store!Prune(j)
    /\ UNCHANGED <<gateVars, call, ctx, davVars, pc, workVars, process>>

\* SIGTERM: main cancels the jobs of the table one after the other, without
\* the flag that Cancel sets, and exits without waiting for their workers
\* (Restart).  The loop may be anywhere when that happens, and a job admitted
\* meanwhile may escape it.
Shutdown(j) ==
    /\ Store!Stored(j)
    /\ task[j].cancel
    /\ Live(j)
    /\ Gate!EndContext(j, "canceled")
    /\ UNCHANGED <<task, davVars, pc, workVars, process>>

\* The process exits or dies, and starts again with empty tables.  Requests
\* that have left it are still on their way.
Restart ==
    /\ restarts < MaxRestarts
    /\ \E j \in Jobs : Alive(j)
    /\ Gate!Restart
    /\ task' = [j \in Jobs |-> NoTask]
    /\ pc' = [j \in Jobs |-> IF Alive(j) THEN "lost" ELSE pc[j]]
    /\ answer' = [j \in Jobs |-> "none"]
    /\ original' = [j \in Jobs |-> Absent]
    /\ attempt' = [j \in Jobs |-> 0]
    /\ saved' = [j \in Jobs |-> NoPath]
    /\ restarts' = restarts + 1
    /\ UNCHANGED <<files, wire, edits, notice, configured>>

Serve(j) ==
    /\ \/ Dav!ServePut(j, Listening(j))
       \/ Dav!ServeDelete(j, Listening(j))
       \/ Dav!Refuse(j, Listening(j))
    /\ UNCHANGED <<gateVars, call, ctx, task, pc, workVars, process>>

\* Users leave alone what a conversion has saved: what becomes of it is then
\* the doing of the converter.
UserEdit ==
    /\ \E p \in EditPaths :
           /\ files[p] # Absent => files[p].maker \notin Jobs
           /\ Dav!Edit(p)
    /\ UNCHANGED <<gateVars, call, ctx, task, pc, workVars, process>>

\* Every job is over and nothing is on its way.
Quiet ==
    /\ \A j \in Jobs : ~Alive(j) /\ pc[j] # "idle" /\ wire[j] = NoRequest
    /\ UNCHANGED vars

-----------------------------------------------------------------------------
Worker(j) ==
    \/ Begin(j) \/ BeginUnconfigured(j) \/ Acquire(j) \/ AcquireFailed(j) \/ Start(j)
    \/ DownloadOk(j) \/ DownloadNoETag(j) \/ DownloadFailed(j)
    \/ ProbeOk(j) \/ ProbeFailed(j)
    \/ EncodeStart(j) \/ EncodeProgress(j) \/ EncodeOk(j) \/ EncodeFailed(j)
    \/ VerifyOk(j) \/ VerifyFailed(j)
    \/ PutSend(j) \/ PutSaved(j) \/ PutTaken(j) \/ PutFailed(j)
    \/ DeleteSend(j) \/ Deleted(j) \/ DeleteFailed(j)
    \/ Unwind(j) \/ ReleaseSlot(j) \/ Report(j)

Next ==
    \/ \E j \in Jobs : \/ Admit(j) \/ Accept(j) \/ Worker(j)
                       \/ Cancel(j) \/ Deadline(j) \/ Shutdown(j) \/ PruneTask(j) \/ Serve(j)
    \/ Restart \/ UserEdit \/ Quiet

Spec == Init /\ [][Next]_vars

-----------------------------------------------------------------------------
(***************************************************************************)
(* Safety.                                                                 *)
(***************************************************************************)

\* The state has the shape the code declares.
TypeOK ==
    /\ Gate!TypeOK
    /\ task \in [Jobs -> Store!Task(Paths) \union {NoTask}]
    /\ files \in [Paths -> FileStates]
    /\ wire \in [Jobs -> Requests \union {NoRequest}]
    /\ answer \in [Jobs -> Dav!Answers]
    /\ edits \in 0..MaxEdits
    /\ pc \in [Jobs -> Waits \union Stages \union Deferred \union Over]
    /\ original \in [Jobs -> Contents \union {Absent}]
    /\ attempt \in [Jobs -> Nat]
    /\ \A j \in Jobs : attempt[j] <= Len(NamesOf[j])
    /\ saved \in [Jobs -> Paths \union {NoPath}]
    /\ notice \in [Jobs -> {"none"} \union Store!Terminal]
    /\ restarts \in 0..MaxRestarts
    /\ configured \in BOOLEAN

\* The gate holds exactly the jobs between their admission and the release in
\* the deferred function, and a worker is past acquire only with a slot: what
\* the gate bounds is the number of conversions that really go on.
SlotsMatchWorkers ==
    \A j \in Jobs :
        /\ Gate!Held(j) <=> pc[j] \in Waits \union Stages \union {"unwind", "release"}
        /\ pc[j] \in Stages => j \in Gate!Running

\* "Gotovo": the output the task names holds this job's conversion of what it
\* downloaded, whatever other jobs and users did to the names and the source
\* meanwhile; and that original is gone when the job had to delete it.
DoneMeansSaved ==
    \A j \in Jobs : Store!Done(j) =>
        /\ task[j].output \in Paths
        /\ files[task[j].output] = Dav!Output(j, original[j])
        /\ j \in DeleteOriginal => files[SourceOf[j]] # original[j]

\* A task that its owner sees in progress has a worker that will bring it to
\* an end, and a cancel function that reaches it.
NoZombieTask ==
    \A j \in Jobs : Store!Stored(j) /\ task[j].status \notin Store!Terminal =>
        Alive(j) /\ pc[j] \notin {"release", "report"} /\ task[j].cancel

\* Every job that ends tells its owner, and what the notification says is
\* what the task goes on saying.  Without NEXTCLOUD_URL there is nowhere to
\* send it: the job ends in an error, and only its task says so.
NoticeMatchesTask ==
    \A j \in Jobs : pc[j] = "ended" =>
        /\ notice[j] # "none" <=> configured
        /\ Store!Stored(j) => IF configured THEN notice[j] = task[j].status
                                            ELSE task[j].status = "error"

\* Files are never lost to the converter: a request of it changes a path only
\* to create a file where there was none, or to remove the source of a job
\* that asked for it, in a version whose conversion by that job is stored.
\* (README, "File preservation"; also across crashes, lost answers and
\* requests executed after the worker gave up.)
FilesPreserved ==
    [][\A p \in Paths : files'[p] # files[p] /\ edits' = edits =>
           \/ files[p] = Absent
           \/ /\ files'[p] = Absent
              /\ \E j \in DeleteOriginal, q \in Paths :
                     SourceOf[j] = p /\ files[q] = Dav!Output(j, files[p])]_vars

\* A job leaves one copy of its conversion at most, under one of its names:
\* uploadConvertedWebDAV goes on to the next name only when the server has
\* refused the last one, and a request that was given up may still be executed.
Stores(j, p) == \E c \in Contents : files[p] = Dav!Output(j, c)

OneOutput == \A j \in Jobs : \A p, q \in Paths : Stores(j, p) /\ Stores(j, q) => p = q

\* Once the cancel handler has answered, the job starts no encoder and sends
\* neither a PUT nor a DELETE.  Its worker may still compute (an encoder that
\* was just finishing is verified), and in the end it sends the notification.
CancelStopsWork ==
    [][\A j \in Jobs : Store!Stored(j) /\ task[j].cancelled =>
           /\ wire'[j] \in {wire[j], NoRequest}
           /\ pc'[j] \in {"encoding", "putting", "deleting"} => pc'[j] = pc[j]]_vars

\* A verdict stands: "Gotovo" and a cancellation are final, and an error is
\* replaced only by the passed deadline that explains it.
VerdictStands ==
    [][\A j \in Jobs : Store!Stored(j) /\ Store!Stored(j)' =>
           /\ task[j].status = "done" \/ task[j].cancelled =>
                  task'[j] = [task[j] EXCEPT !.cancel = task'[j].cancel]
           /\ task[j].status = "error" =>
                  /\ task'[j].status = "error"
                  /\ task'[j].error \in {task[j].error, "timeout"}]_vars

\* The conversions use the gate as JobGate lets its clients: reserve once,
\* acquire once, release once, and never touch a counter.
ImplementsGate == Gate!Spec

\* README, "File preservation": "If deletion fails, the task error includes
\* the saved output path."  (A cancelled task says that it was cancelled.)
DeletionFailureNamesOutput ==
    \A j \in Jobs :
        /\ pc[j] = "ended" /\ Store!Stored(j)
        /\ saved[j] # NoPath
        /\ ~task[j].cancelled
        /\ task[j].status = "error"
        => task[j].error = "not_deleted"

-----------------------------------------------------------------------------
(***************************************************************************)
(* Liveness.  What a worker does by itself is fair: its own computation,   *)
(* taking an answer that has arrived, and leaving a blocking call (HTTP,   *)
(* ffmpeg, ffprobe) whose context has ended.  Nothing makes the server     *)
(* answer, ffmpeg finish, the deadline pass, or a user cancel.             *)
(***************************************************************************)
Blocking == {"download", "probe", "encoding", "verify", "putting", "deleting"}

Prompt(j) ==
    /\ pc[j] \in Blocking => ~Live(j) \/ answer[j] # "none"
    /\ Worker(j)

FairSpec == Spec /\ \A j \in Jobs : WF_vars(Accept(j)) /\ WF_vars(Prompt(j))

\* A job that is cancelled, timed out or caught by a shutdown ends and frees
\* its slot even if no server ever answers and ffmpeg never finishes.
StoppedJobEnds ==
    \A j \in Jobs :
        (Alive(j) /\ (~Live(j) \/ (Store!Stored(j) /\ task[j].cancelled))) ~> ~Alive(j)
=============================================================================
