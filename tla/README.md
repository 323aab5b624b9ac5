# Nextcloud Video Converter: specifications, checks and proofs

TLA+ modules for the conversion service in `src/ex_app` (Go): what it keeps in
memory, what it does with the files of its users, what its page in the browser
shows of it, how it makes itself known to Nextcloud, and what happens when jobs,
cancellations, deadlines, lost answers, cleanups and restarts interleave. TLC checks
the modules on small instances; TLAPS proves all the safety properties TLC
finds to hold (about the gate, the conversions and their files, the encoder run, the
settings, the page, the service around them, its paths and the rules of conversion)
for every instance.

## 1. The system

A Nextcloud user picks a video. The service reserves a place for the job,
downloads the file over WebDAV, probes it, runs ffmpeg, verifies the result,
uploads it under an unused name, deletes the original when that was asked for,
and tells the user. Everything it remembers is in memory.

| Component | Source | State | Operations | Hard because |
|---|---|---|---|---|
| Admission gate | `job_gate.go` | three counters, one reservation per job | `reserve`, `acquire` (polls every 50 ms), `release` | waiters and newcomers race; limits change between admissions; release may be called twice |
| Task table | `main.go` 1221-1325 | one `Task` per accepted job | `newTask`, `updateTask` and its callers, cancel handler, `pruneOldTasks` | worker, cancel handler and cleanup write the same task |
| Conversion worker | `main.go` 1108-1157, 1327-1480 | a goroutine and a context per job | the stages and the deferred function | early returns, ends of the context at any point, errors over errors |
| WebDAV client | `main.go` 1956-2131, `webdav.go` | none; requests on their way | GET, PUT with `If-None-Match`, DELETE with `If-Match` | answers are lost, requests execute late, users edit files |
| Encoder run | `main.go` 1482-1615, `process_linux.go` | processes, two pipes, two channels, five goroutines | `runFFmpeg`, kill of the process group | end of file, verdict, progress and the kill race |
| Settings cache | `main.go` 198-202, 2144-2403 | value and time of expiry | `getCachedAppSettings`, `readAppSettings`, `resolveCPULimit` | fetches overlap and are stored in any order; rows hold any JSON |
| Start, shutdown | `main.go` 286-418 | root context | cancel every task, exit | workers are not waited for |
| Cleanup | `main.go` 105-166 | none | every ten minutes: tasks, file-info cache, temporary files | two-hour rules against those who use what is removed |
| File actions and pages | `main.go` 887-1090 | `fileInfoCache` | `makeActionHandler`, `makeUIHandler` | one entry for all users of a file; ids come as texts or floats |
| Remote paths | `main.go` 2522-2576 | none | `cleanRemotePath`, `buildRemoteOutputPath` | three pieces of code clean one path |
| Registration | `main.go` 552-885 | header of AppAPI, one refresh loop | `makeEnabledHandler`, `registerDeclarativeAdminSettings`, refresh loop | requests fail one by one; an older version left its forms |
| Probing, ffmpeg arguments | `main.go` 1617-1954, 2578-2740, `pixel_format.go` | none | probe, build, verify | two places decide one thing; names of formats mislead |
| API client, authentication | `main.go`, `auth.go` | credentials | requests, a check | I/O |
| Browser client | `ui/app.js` | current task id, buttons, status line | submit, poll, cancel | answers get lost, a cancel comes late, ids come back after a restart |

How they interact: the convert handler asks the settings cache for the limits,
the gate for a reservation and the task table for a task, then starts a worker.
The worker calls `acquire`, the WebDAV client and the encoder run with the
job's context, and reports each stage to the task table. The cancel handler
marks the task and cancels that context; so do the deadline and the shutdown,
without marking the task. The deferred function of the worker gives the
reservation back and sends the last notification. The page in the browser knows a
conversion only by the id it was answered with: it polls that id, and its cancel
button names it. A page comes about through the file action, which leaves name and
path of the file in `fileInfoCache` for the request that follows. One loop cleans up
tasks, that cache and the temporary files, and asks nobody who uses them.

What makes each part correct, in a sentence. *Gate*: counters say what runs and
waits, limits hold, free room is used. *Task table and worker*: a final status
stands, tells the truth about the files and is reached by every job. *WebDAV*: no
file is overwritten, none is lost without a stored conversion of that very
version. *Encoder*: success is real and nothing survives a run. *Settings*: none
older than the cache allows decide an admission. *Rules*: accepted video has the
precision demanded and tags that fit it. *Page*: it shows and cancels its own
conversion and always comes back. *Temporary files*: none disappears under a job
with the default timeout, none stays for good. *File actions*: the page is about the
file that was clicked, the output lands beside it. *Registration*: the settings
forms get there, whichever requests fail.

## 2. The modules

| Module | Models | Role |
|---|---|---|
| `SlotPool` | what admission promises: sets of running and waiting jobs | abstract specification |
| `JobGate` | `job_gate.go` with free clients | detailed specification, implements `SlotPool` |
| `JobGateProofs` | | theorems about `JobGate` |
| `TaskStore` | the task table | operators used by `Converter` |
| `WebDav` | files, write requests and their answers | operators used by `Converter` |
| `Converter` | a job from its admission to its last notification | composes `JobGate`, `TaskStore`, `WebDav` |
| `ConverterProofs` | | theorems about `Converter`, with those about `JobGate` |
| `EncoderContract` | what `processTask` is promised of an encoder run | abstract specification |
| `EncoderRun` | `runFFmpeg` and the process group | detailed specification, implements `EncoderContract`; what `Converter` has as `EncodeStart` ... `EncodeFailed` |
| `EncoderRunProofs` | | theorems about `EncoderRun` |
| `SettingsCache` | `getCachedAppSettings` | where the settings of `Admit` come from |
| `SettingValues` | `readAppSettings`, `resolveCPULimit`, `ffmpegCommand` and what they call | operators: from rows to settings to the command |
| `AdmittedSettings` | | extends `SettingsCache` by `SettingValues` |
| `AdmittedSettingsProofs` | | theorems about `SettingsCache` and `AdmittedSettings` |
| `TempFiles` | the temporary files of jobs and `pruneOldTempFiles` | part of `Service` |
| `RemotePaths` | `cleanRemotePath` and the other functions on paths | operators used by `FileInfo` |
| `RemotePathsProofs` | | theorems about `RemotePaths` |
| `FileInfo` | `fileInfoCache`, its handlers and `pruneOldFileCache` | part of `Service` |
| `Registration` | the requests to AppAPI and the refresh loop | part of `Service` |
| `Service` | `main`: the process, its cleanup loop and its ends | composes `TempFiles`, `FileInfo`, `Registration` |
| `ServiceProofs` | | theorems about `Service`, with those about `RemotePaths` |
| `UiClient` | the page of `ui/app.js`, its requests, and the handlers they reach | uses `TaskStore` under the ids of `newTask` |
| `UiClientProofs` | | theorems about `UiClient` |
| `MediaRules` | probe, arguments and verification of a conversion | what `Converter` has as `ProbeOk`, `ProbeFailed`, `VerifyOk`, `VerifyFailed` |
| `MediaRulesProofs` | | theorems about `MediaRules` |
| `MC...` | | instances for TLC |

**JobGate.** Each critical section of the mutex is one action. `acquire` is
split where it holds no lock: `AcquireCheck` reads `ctx.Err()`, `AcquireLock` is
the locked part, `AcquireTick` and `AcquireDone` are the two branches of the
select. `activeTotal`, `activeByUser` and `queuedByUser` are the counters of the
code (an absent key of a map is 0); `settings`, `active` and `released` are the
fields of the reservations; `call` says where the caller is, `ctx` what
`ctx.Err()` would return. Clients are free: they may release at any time and
again, call `acquire` or not, and reuse an identity once its reservation is over.
After a release `decrementUserCount` deletes or decrements; `activeTotal--` has
no such guard, and that it never goes below zero is part of what is proved.

**Converter.** `pc` is the position of the convert handler or of the worker. The
positions between admission and `go processTask` are kept apart (`admitted`,
`accepted`), because cancel, deadline and shutdown can come between. The stages
are steps that end where another party can see or disturb the job: a PUT is sent
(`PutSend`), the server acts on it (`Serve`), the worker takes the answer
(`PutSaved`, `PutTaken`, `PutFailed`), and the worker may stop waiting first.
The deferred function has three steps: `Unwind` (timeout text, `cancel()`),
`ReleaseSlot`, `Report` (the cancel function goes, the task is read again, the
notification is sent). The settings of an admission are any value of `Settings`,
since an administrator may change them at any time. `configured` is whether
`NEXTCLOUD_URL` is set: without it a job ends before it asks for its slot, and
`sendNotification` sends nothing. `Restart` empties every table and leaves files and
requests on their way as they are.

**TaskStore** keeps of a task its status, the class of its error, the output,
whether it is marked as cancelled and whether it has a cancel function.
`UpdateTask` is the guard all writes of the worker go through.

**WebDav** is the client's view of the server, which is not in the repository:
a precondition is evaluated and acted on in one step, an ETag identifies a
content, a request may be executed, refused or lost at any time after it was
sent, also when nobody waits for it. The content of an output is the pair of the
job that made it and the source it was made from.

**EncoderRun.** The processes of the command (ffmpeg, or cpulimit with its
children) hold both pipes; end of file is when none is left. The scanner never
blocks on its channel, the copier of stderr, the waiter and the select loop are
separate, and `Kill` is `cmd.Cancel` of `process_linux.go`. A line of output is
the percentage the scanner computes from it.

`EncoderContract` has none of this: while the run lasts its progress grows, the end
of its context stops it, it returns once, after the last process, and it does return.

**SettingsCache.** A version of the settings is the number of changes made
before it; `changes` holds their times. The look-up, the fetch and the store are
separate steps of each request.

**SettingValues.** A row holds any JSON value. Of a number, as the `float64` it becomes,
count the greatest integer not above it and whether it has a fraction, which is all that
`int()` and comparisons with integers depend on; texts that hold a number, quoted or not,
are the number. `Means` is the reference definition: the greatest value of the range that
is not above what is written (2.9 is 2), the least of the range when all are, the default
when no number is written.

**TempFiles.** A job goes through the stages in which it opens its files by name
(`Needed`): a file that was removed meanwhile ends it (`Missing`). What is open can
still be written. Age is counted from the last write, and `spent` from the admission,
when `context.WithTimeout` is called. `Judge` and `Sweep` are the two halves of the
cleanup, with anything in between. `Exit` is the death of the process as well as its
ordinary end: no deferred function runs for the jobs of then.

**RemotePaths.** A path is a sequence of segments; of a segment count its text, its
extension and a blank at its end. `Clean` is `path.Clean` of a rooted path: segment by segment (`Push`), over the
segments that are kept so far.

**FileInfo.** `cache` is `fileInfoCache`. `last`, `since` and `raced` record what the
last action on an id was and what became of its entry, `byId` of a page whether it was
asked for with an id alone; no step decides by them.
`KeyOf` is what `fmt.Sprintf("%v", ...)` makes of an id.

**Registration.** `at` is the request each goroutine is at; a request is executed and
answered, executed with its answer lost, or not executed, also because no header of
AppAPI is known yet. `forms` is what Nextcloud has.

**Service.** Each part has steps of its own; time, the cleanup, `Stop`, `Exit` and
`Start` are common. `mix` says which parts move in a behaviour: they share nothing but
the process, and together they would only multiply their states.

**UiClient.** `at` is where the handler of the submit button waits: nowhere
(`form`), for the answer to the submission (`convert`), for its timer (`poll`), for
the answer to a poll (`asked`). `submitOn`, `cancelBtn`, `currentTaskId` and
`shown` are what the page keeps and displays. A request is acted on by the service
(`HandleConvert`, `HandleTask`, `HandleCancel`), and the answer reaches the page
or does not (`FetchFails`, before or after the service acted). Cancel requests
overtake and are overtaken. `jobAt`, `result`, `own` and `since` record which
conversion an id stands for, what became of it, which one a page began and under
which start of the service; no step of the program decides by them. A worker here
just ends well or badly; `Converter` has the rest of it.

**MediaRules.** The request is any that `validateRequest` lets through, in the
fields that matter for the picture and the subtitles. Of a pixel format there are
two views: `Marks`, the numbers in its name, all that `bitDepthFromPixelFormat`
sees of it when ffprobe reports no bits, and `Bits`, what it really holds. Both
are constants, so that nothing depends on a list of formats. ffmpeg obeys the
tags and filters but may take a coarser format. `buildFFmpegArgs` is modelled by
what its arguments say of pixel format, tone mapping, transfer tag and subtitles.

Names with an underscore and a suffix (`Release_Twice`, `Put_NoPrecondition`) are
mutations: plausible bugs used to see that each property notices one. No
specification uses them.

## 3. What is checked

| Run | Instance | Properties |
|---|---|---|
| `JobGate` | 3 jobs, 2 users, 2 settings | `TypeOK`, `Accounting`, `LimitsRespected`, `ImplementsSlotPool`, `NoIdleCapacity` |
| `Converter` | 2 jobs, both delete one source; 1 edit, 1 restart | `TypeOK`, `DoneMeansSaved`, `NoZombieTask`, `NoticeMatchesTask`, `OneOutput`, `FilesPreserved` |
| `ConverterQueue` | 2 jobs, one slot, queue or none | `SlotsMatchWorkers`, `CancelStopsWork`, `VerdictStands`, `ImplementsGate`, `StoppedJobEnds` |
| `DeletionFailure` | 1 job | `DeletionFailureNamesOutput` (violated) |
| `EncoderRun` | ffmpeg under cpulimit with a limiter, 3 lines | `TypeOK`, `NothingLeftBehind`, `SuccessIsReal`, `ProgressNeverFalls`, `RunEnds`, `ImplementsContract` |
| `SettingsCache` | 3 requests and an anonymous one, lifetime 2, time to 5, 2 changes; 289 answers | `TypeOK`, `FreshSettings`, `SettingsTakeEffect` |
| `UiClient` | 2 pages of a user, 2 conversions, 1 restart | `TypeOK`, `ButtonsFollowHandler`, `VerdictIsOwn`, `CancelHitsOwn`, `FormReturns` |
| `UiRestart` | the same | `LostTaskNotFound` (violated) |
| `Service` | 2 jobs, 1 file of 2 users, 63 typed paths, 1 request to enable; 1 restart | `TypeOK`, `FilesInUseStay`, `OutputBesideSource`, `PageShowsOwnFile`, `LeftoversGo`, `FormsRegistered` |
| `FileId` | the same, an id of seven digits | `EveryIdReachesPage` (violated) |
| `MediaRules` | every request, 9 formats, 4 transfer functions, 5 lists of subtitles | `TypeOK`, `AcceptedKeepsDepth`, `TagsMatchPixels`, `SubtitlesSurvive` |
| `MediaPrecision` | the same | `SourcePrecision` (violated) |

Run one with `tlc -config Converter.cfg MCConverter.tla`. Deadlock is checked in
every run: where the system is over, an explicit step (`Quiet`, `Over`) says so.

**The gate.** `Accounting`: counters equal the reservations that hold what they
count. `LimitsRespected`: among the jobs that run, those admitted under a limit
no wider than that of job *j* are never more than it allows; the same for
each user and for the queue. With constant settings this is the plain limit.
With changing ones it is what the code gives: a queued job keeps the limits it
was admitted with, and a lowered limit binds only later admissions.
`ImplementsSlotPool`: a job waits only
while its limits leave no room, and gives back once. `NoIdleCapacity`: nobody
polls for ever beside room that stays free. It is deliberately no more than
that: newcomers may overtake waiting jobs for ever.

**The conversions.** `FilesPreserved` is the promise of the README's section
"File preservation", for every step that is not a user's own: a path changes
only from free to occupied, or loses the source of a job that asked for it, in
the very version whose conversion by that job is stored. `DoneMeansSaved`: a
task shown as done names a path that holds this job's conversion of what it
downloaded, and that original is gone if it was to be. `NoZombieTask`: a task shown
in progress has a worker and can be cancelled. `NoticeMatchesTask`: every job
that ends tells its owner, and the task goes on saying the same; when no `NEXTCLOUD_URL`
is set nothing is sent, and the job ends in an error that only its task shows.
`OneOutput`: a job leaves one copy of its conversion at most. The worker tries the next
name only after the server has refused the last one; a PUT whose answer was lost, or that
was given up, may be executed at any later time and ends the job. What it leaves may
be an orphan, since the task then says that the upload failed, but it is the only one.
`SlotsMatchWorkers` ties the counters, which know nothing of goroutines, to the
workers that really run; `acquire` returns nil only with a slot. `CancelStopsWork` and `VerdictStands` are about the
race between the cancel handler and the worker: once the handler has answered, no encoder
is started and no PUT or DELETE sent, though the worker may still compute (an encoder that
was just finishing is verified) and sends the last notification; and a verdict is final. `ImplementsGate`: the worker is
one of the clients `JobGate` allows, so what is proved of the gate holds here.

**The encoder.** `NothingLeftBehind`: when `runFFmpeg` returns, no process of the command
is left, its scanner, copier and waiter are over, and no text of an error is lost. (The
notification at half-way is sent by a goroutine of its own, `main.go` 1598, which may
outlast the run and touches nothing of it.) `SuccessIsReal`: a result goes
to the upload only if ffmpeg finished it by itself; under `cpulimit` this rests on
`cpulimit` passing on the exit status of ffmpeg. `RunEnds`: an ended context,
or the end of all processes, ends the run. `ImplementsContract`: whatever pipes, channels,
goroutines and signals do, the run is one of `EncoderContract`; the verdict is handed
over once, after the last process, and always.

**The settings.** `FreshSettings`: a conversion is admitted under settings that
were in force less than the lifetime of the cache before its request came, in
whatever order overlapping fetches are stored; an older version does replace a
newer one now and then, but only with what is left of its own lifetime.
`SettingsTakeEffect`: whatever the rows hold, the settings used are the numbers
written there without their fractions, or the end of the range they lie beyond, so that a
limit is never wider than what was written as far as its range allows, the gate has room for
one job and deadlines lie ahead; the old key of the CPU limit has no say beside the
new one; and the encoder gets that share of all processors and those threads. A number
too large for an `int` counts as the least one of its range on amd64 and the greatest on
arm64; either is accepted.

**The service.** `FilesInUseStay`: a job whose timeout is no longer than the two hours
of `pruneOldTempFiles`, as the default is, finds every file it opens by name, however
long a transfer stalls. Jobs with longer timeouts do lose files: an input that has
come no further for two hours is gone when ffmpeg opens it. `LeftoversGo`: what a dead process
left is removed in the end. `PageShowsOwnFile`: the page opened by the user
who acted last on a file shows the file of that action, unless two hours are over or
the cleanup was just deleting an older entry of it (it reads an entry and deletes its
key in two steps, so that it can delete a new one). `OutputBesideSource`: three pieces of
code clean one path, each in its own way, and yet the output goes to the folder of the
source and never onto it. `FormsRegistered`: a process that was told to, and goes on
running enabled, gets the settings forms registered, whichever requests fail, and rid of the
old ones, through one loop.

**The page.** `ButtonsFollowHandler`: on every way out of the handler the buttons
are those of a page that runs none, so two handlers never share one
`currentTaskId`. `VerdictIsOwn` and `CancelHitsOwn`: while one service runs, a page
shows the end of the conversion it began, and a cancel request stops the one its
user saw or none, also when it arrives after the next submission or after the task
was pruned; both rest on ids never being given out twice. `FormReturns`: no
answer, error or length of a conversion leaves the page busy for ever.

**The rules.** `AcceptedKeepsDepth`: video that is uploaded, after which the
original may go, has the precision demanded or read from the source even when
the encoder silently lowers it. `TagsMatchPixels`: what an output says of its
transfer function is what was done to its pixels. `SubtitlesSurvive`: the two places
that decide about subtitles agree. The last two name what they leave out: a
wide-gamut source with another transfer function *is* tagged `smpte2084`; only the
first subtitle stream is probed; and whether ffmpeg can copy a text codec into the
container (`mov_text` into mkv) is left to ffmpeg, which fails the run if it cannot.

### Four disagreements between the code and its documentation

* `DeletionFailure`. The README says that when the deletion of the original
  fails "the task error includes the saved output path". When it fails because
  the deadline passed during the request, the deferred function replaces that
  error by the timeout (`main.go` 1332-1336), and the user is not told that the
  result exists or where.
* `FileId`. `makeActionHandler` makes the key of `fileInfoCache` of a numeric id with
  `%v`, which its comment calls safe. The id is a `float64`: from 1000000 on it is
  printed in scientific notation (`1.234567e+06`), and the page, asked for
  with the decimal id, finds no entry and has no file to convert. Ids that come as texts are safe.
* `UiRestart`. The page expects "Task ... not found" of a task the service no
  longer has. After a restart ids start again from `task-1`, so a page still
  polling one may be told of another conversion of its user, show that as
  done, and would cancel it. `VerdictIsOwn` and `CancelHitsOwn` say what holds
  without a restart.
* `MediaPrecision`. The README says the original bit-depth option preserves
  precision "rather than silently losing" it. A format whose name has no 9, 10, 12
  or 16 in it (`yuv420p14le`, `rgb48le`) is taken for 8 bits when ffprobe reports no
  bits, and the check of the output has the same eyes. `AcceptedKeepsDepth` is
  relative to the depth that was read.

### Observations

Met while modelling, and no contradiction of any document: a user who shares a file
with somebody who acted on it later gets a page with the other's path. Menu, script, style and
files action are registered once and not tried again after a failure. A name that ends in a blank
is trimmed and becomes another name; a name at the top that begins with two dots is
refused as an attempt to climb. Progress goes from 99, which the line
`progress=end` stands for, back to 90 when the upload begins, though a comment (`main.go`
1548) speaks of 42-89% "so there's no jump". A frame rate or CRF of NaN passes the
comparisons of `validateRequest` and is left to ffmpeg.

### Bounds, and why they are enough

Two jobs of one user and one of another let one fill its own limit, wait and be
refused while the other competes for the total, and two settings
let a narrow and a wide limit for a user meet in both orders and remove the queue. Two
conversions of the same source with the same two output names collide on
every file there is: on the first name, on the second, and on the deletion; two
names also let the loop run out. One user edit is one replaced or removed source,
or one name taken; one restart may fall between any two steps, and a second
would meet the same empty tables. `ConverterQueue` has no
edits or restarts because its properties are about workers and slots. Three
lines with room for two fill the pipe and the channel and force a drop; the
positions are the two ends of the range and the half-way mark. Two conversions let
one id follow another, be pruned, and after the restart be given out again, and
let two pages or one after the other begin them. In `Service` the unit of time is
the two hours of the cleanup: one job has a timeout of one unit and one of three, so that the
second outlives its files; the two users of the file have it in a folder and at the
top, under a name that begins with dots and ends in a blank; typed paths have up to two segments
of detour (`..`, `.`, nothing) before three kinds of names; one restart can fall
between any two steps. The 289 answers put numbers around zero, in each range at its end and above, with
and without fractions, huge ones and no numbers under the keys. `MediaRules` has
no bound: its instance lists formats whose names tell their depth, say nothing of it
or mislead, and its proofs hold for all formats. The time of
`SettingsCache` covers two full lifetimes. `MaxEdits`, `MaxRestarts`, `MaxLines`,
`MaxTime`, `MaxChanges`, `MaxJobs` and `Mixes` bound what the environment does; no bound is
on the program itself, and the 100 output names of the code are the length of `NamesOf`.

### Fairness

`JobGate!Fairness`: the steps of a goroutine inside `acquire`, which are
computation and a ticker. `Converter!FairSpec`: what a handler or a worker does
by itself; a step that waits for the server, ffmpeg or ffprobe is fair only
once an answer has arrived or the context has ended (those calls all take the
context). `EncoderRun!FairSpec`: the goroutines and the kill.
`UiClient!Fairness`: the code of a page runs, its timer fires, a fetch is answered
or fails, as browsers give up dead connections, and time passes.
`Service!Fairness`: time passes, the cleanup loop and the refresh loop tick, timers fire, a
deadline ends its job, requests to Nextcloud end (the client has a timeout of 30
seconds), and a request that is repeated for ever is answered some time (strong fairness: without
it Nextcloud might refuse every single one). Elsewhere nothing makes a
server answer, ffmpeg finish, a deadline pass, a user cancel or an
administrator act.

## 4. What is proved

For every finite set of jobs, all users and all settings (`JobGateProofs`):

* `TypeCorrect`, `AccountingCorrect`, `HeldSlotCorrect`, `LimitsCorrect`,
  `GateImplementsPool`.

For every set of requests and every duration (`AdmittedSettingsProofs`):

* `SettingsTyped`, `SettingsFresh`.

*The argument for the gate.* `Accounting` is not inductive: nothing in it says
that a caller inside `acquire` has a reservation, without which a promotion
would count a job that no set contains. `IInv` adds that (`CallersReserved`) and
the types. The lemmas `SlotTaken`, `SlotGiven`, `QueueTaken` and `QueueGiven` say
what adding or removing one job does to the cardinalities behind the counters,
and each action needs one of them. `decrementUserCount` stops at zero, so
that it subtracts one rests on `Accounting` itself: the job that leaves is counted.
`LimitsRespected` then follows from `CanRun` when a job is added, since the
counters it reads are cardinalities, and from monotonicity when one leaves. The
refinement maps `Running` and `Waiting` to the pool and a reservation's settings to its
limits while it is held; `RoomIsRoom` turns `CanRun` over counters into `HasRoom`
over sets.

*The argument for the settings.* A version still in force at a time was in
force at every earlier one (`StillEarlier`), and a change made now takes nothing
from what was in force at a past time (`StillAfterChange`). `IInv` carries that a
cached value was in force when its lifetime began and a fetched one when its
fetch began, that no recorded time lies in the future, and that requests without
credentials stay apart.

For every finite set of jobs, any sources, lists of names, owners and settings, any number
of edits and restarts (`ConverterProofs`):

* `TypeCorrect`, `SlotsCorrect`, `DoneCorrect`, `NoZombies`, `NoticesCorrect`,
  `VerdictsStand`, `CancelStops`, `FilesArePreserved`, `OneOutputEach`,
  `SavedOutputsNamed`, `ConverterImplementsGate`, `ConversionsAreBounded`, `EachUserIsBounded`.

*The argument for the conversions.* `IInv` has one part for each thing that can disagree
with another. `SlotKnown` ties the reservation to the place of the handler or worker: none
before `reserve`, one until the deferred function releases it, and `call` where `acquire`
left it. `TaskTold` says the same of the task: nothing final before the deferred function
unless it is cancelled, something final from then on; and without `NEXTCLOUD_URL` no job gets
as far as its slot, so that none is done. The heart is what is true of files while
requests are on their way. A request lives longer than the worker, even than the process, that
sent it, so nothing can be said of it through the state of either. `RequestMade` therefore
says what it says by itself: a PUT carries a conversion by its job under a name of that job,
and a DELETE names the version of a source *of which a conversion by the job is stored*. This
stays true only because no step removes or overwrites a stored conversion: a PUT asks that
nothing be there, a DELETE is for a source in a version that a user made (`FileMade`), and
no source is an output. `FilesPreserved` is then what `RequestMade` says at the moment
the server acts (`Serve`). `WorkerKnows` carries, place by place, what the worker may
conclude from an answer: after `ok` to a PUT the file is there, after `ok` or 404 to a DELETE
the version it downloaded is not; `DoneMeansSaved` needs both. `VersionFacts` is what all of this
rests on: the content of an output tells its job and its source, and no output is a version
of a user.

*The gate inside.* `Converter` holds the variables of `JobGate`; `ConverterImplementsGate`
shows that each of its steps is one of `JobGate` or a stutter, and that handlers and workers
begin each call in a state in which `JobGate` lets its clients begin it. `IInv` includes the inductive
invariant of `JobGateProofs`, so that nothing about counters is proved again, and
`ConversionsAreBounded` carries `LimitsCorrect` over the refinement: the workers between
`acquire` and their deferred function are no more than `max_concurrent_jobs` allows.
`EachUserIsBounded` does so for the workers of each user and for the jobs that wait.

*One copy.* `OneOutput` is not inductive: a worker that might send its conversion again beside a
stored copy would break it. `OneCopy` says what keeps it from doing so: a job whose worker has
an upload before it, or was refused its last name, has stored nothing and has no PUT on its way; and
while one is on its way, none is stored. Every other answer to a PUT leads away from the loop
(`PutSaved`, `PutFailed`). This needs nothing of the state of the server but that it acts on a
request once.

*What a failed deletion tells.* `SaveTold`: once the output is known to be saved the worker is
at the deletion, in the deferred function or over, and an error recorded then, unless the job was
cancelled, is the one of the deletion, or the timeout after the deadline really passed.

For any pages, users and number of conversions and restarts (`UiClientProofs`):

* `TypeCorrect`, `ButtonsCorrect`, `VerdictsAreOwn`, `CancelsHitOwn`.

*The argument for the page.* `Names(id, job)` says that the running service has given the id to
the job and to no other: the table still has it so, or has dropped the task, and then the job
is over. Every id that is held somewhere under the present start of the service names the job
it is meant for: in an answer on its way, in `currentTaskId` (`PageKnows`) and in a cancel
request (`CancelKnows`). It stays so because ids only grow until the restart (`JobsCounted`),
and because the cleanup drops a task only when it is over (`TableTold`). What is held from before a
restart is under no such promise, which is what the run `UiRestart` shows.

For every encoder command, number of lines and room in pipe and channel
(`EncoderRunProofs`):

* `RunTyped`, `RunLeavesNothing`, `RunSucceedsForReal`, `ProgressGrows`, and
  `RunKeepsContract`: each step is one of `EncoderContract` or none.

*The argument for the encoder.* A reader stops only when no process is left, and
none is started again, so what ffmpeg wrote to stderr is final when the copier stops
(`ReadersLast`). The verdict exists once the process has been waited for, which waits
for both readers; from then on nothing can be killed any more (`OneVerdict`), and a
verdict that was true stays true (`VerdictTrue`). Progress shown is what was
taken last, and every percentage lies above that of the stage before (`ShownIsLast`).

For every set of jobs, timeouts and lifetimes, all users, files and paths, any requests and
number of restarts (`ServiceProofs`):

* `FilesInUse`, `PagesShowOwnFiles`, `ShortIdsFindFiles`, `OutputsBesideSources`, `TypeCorrect`.

*The argument for the temporary files.* `FilesInUseStay` says nothing of ages. `IInv` adds
that no deadline has been passed (`DeadlinesKept`), that a file is never
older than the job it belongs to (`FilesYoung`), and that the cleanup has not already
picked a file of a job that may still need it (`Spared`): what it picks is older than the
lifetime, hence than the timeout, hence than the job (`OldSpared`). It matters that a
deadline begins to run no later than the files of its job are made.

*The argument for the pages.* `EntriesKept`: under the key of the last action on a file lies what that
action said, or nothing and for a reason (`MayGo`: two hours, or the entry came while an older
one was being deleted), and *the cleanup has that reason before it deletes the key*. The
second half is what makes it inductive over the two steps of `pruneOldFileCache`. Only a page
opened by its id reads the cache. `ShortIdsFindFiles` adds that under a million the key of a number is its
decimal form (`KeyOfShortId`). The types need one fact more, that a process that is down
may start again, and of registration that each request is followed by one of the sequence and
that the loop is started at most once.

For paths of any length (`RemotePathsProofs`):

* `CleanIdempotent`, `RequestsForTheFile`, `RelativePathKeepsName`, `OutputBeside`.

*The argument for the paths.* What the recursive function in `Clean` computes is shown by induction
over its argument. The induction theorems of the library cannot be used here, as they take an operator as a
parameter; but that a non-empty set of naturals has a least member (`LeastNatural`, from
`NatLessThanWellFounded` and `WFMin`) does instead: take the least prefix for which the claim
fails. So the function is what its equation says, cleaning a path by one segment more pushes that
segment, and its results have only ordinary segments (not empty, `.` or `..`), which are
left as they are; hence `CleanIdempotent`. The name of a file is an ordinary segment, so each of the three
functions keeps it as the last one over the same cleaned folder, and the output differs from its source
in that last segment: `sanitizeFilename` and `_converted` never give the old text.
`OutputsBesideSources` carries this to the pages of `Service`, which show places and typed paths only.

For all rows of answers and any number of processors (`AdmittedSettingsProofs`):

* `AnswersTakeEffect`, `SettingsUsable`, `SettingsAlwaysTakeEffect`.

*The argument for the values.* `ClampIsGreatest`: cutting off the fraction and clamping gives
the greatest value of the range that is not above the number, or the least of the range; below
zero, where cutting off goes up, every value of a range lies above the number anyway. Each range
holds its default (`RowsReadable`). `SettingsUsable` closes a gap between modules: limits and timeouts from any answer,
and the defaults, are what `JobGate`, `Converter` and `Service` assume of the settings they are given. The assumption that the `int` of a huge number lies outside of every range
is needed for what `Means` says of those.

For all pixel formats with any names and precisions, and all sources
(`MediaRulesProofs`):

* `TypeCorrect`, `DepthCorrect`, `PrecisionKept`, `TagsCorrect`, `SubtitlesCorrect`.

*The argument for the rules.* `IInv` says stage by stage that what the job knows is
what probe and build computed (`Computed`), and that ffmpeg followed the plan but for
its depth (`Encoded`). The check of an output compares depths read from names;
`OwnFormatsRead` shows that of the three formats the service asks for the reading
is right, reported or not, and `FormatHasDepth` that the format chosen has the
depth aimed at, so an output that passes has it as well.

*Where the violated properties hold.* Four runs show a property violated; theorems say for each how far it
goes. `ShortIdsFindFiles`: pages find their files for all ids of up to six digits (`FileId`).
`PrecisionKept`: precision is kept for every source whose depth is not read as less than it is (`MediaPrecision`).
`SavedOutputsNamed`: without a cancellation the owner of a saved output is told of it, unless the
deadline passed (`DeletionFailure`). For `UiRestart` it is `VerdictsAreOwn` and `CancelsHitOwn`.

The assumptions are the named ones of the modules: the set of jobs is finite, both
concurrency limits are at least 1 (`clampInt`), lifetimes and timeouts are positive,
percentages of the scanner lie in 42-89 (`clampInt` again), the `int` of a huge number lies outside of
0-10080, and the names of `yuv420p`, `yuv420p10le` and `yuv420p12le` say what they hold.
`SourcesAssumption` of `Converter`: no name a job tries for its output is the source of a job.
A user who converts a conversion and has that deleted leaves the first task with the name of a file
that is gone, as does one who removes an output by hand; the assumption sets the former apart as
`UserEdit` does the latter. `TokensAssumption` and `NoTaskAssumption` say
of the stand-ins for nothing (`Absent`, `NoTask`, `NoRequest`, ...) that they are nothing else; in the code these
are `nil`, 404 and absent keys. `PlacesAssumption` of `Service`: files and typed paths consist of segments and end
in a name a file can have. `TextsAssumption`: a text followed by `_converted` is another text, neither empty nor dots,
which is true of all texts; the provers know nothing of joining texts. TLC evaluates all of them on the instances.

TLC finds no violation of these inductive invariants either: `IInv` of `ConverterProofs` on the
instance of the run `Converter` (1.4 million states), that of `UiClientProofs` with one restart
and with two, and `IInv`, `EntriesKept` and `RestInv` of `ServiceProofs` on that of `Service`.

The invariants `OneCopy` and `SaveTold` were checked by TLC in the same way.

Only model-checked: the four properties the code violates; and the liveness properties
(`NoIdleCapacity`, `StoppedJobEnds`, `RunEnds`, `FormReturns`, `LeftoversGo`, `FormsRegistered`, the
fairness in `ImplementsContract`), which are out of the prover's reach. Only proved, and no
property of a run: `HeldSlot` (the run `ConverterQueue` has it as a part of `SlotsMatchWorkers`), `ConversionsBounded`,
`EachUserBounded`, `SavedOutputNamed`, `ShortIdsReachPage`, the lemmas on paths of any length, and that pages
opened with an id and pages opened with a path do not disturb each other, which the instance of
`Service` keeps apart in two mixes.

## 5. What is not modelled

* A panic in a worker (`recover` records it as an error), the contents of temporary
  files, progress during the download.
* The GET of the source is one step of `Converter` that reads one version of the file;
  `TempFiles` has its time.
* Of ffmpeg's arguments: codecs and quality (`qualityToCRF`, `encoderPreset`), size, frame
  rate, audio, metadata. They are independent of each other and of what is
  modelled. The remote probe (`probeRemoteMedia`), which only informs the page.
* A source in which ffprobe finds no pixel format.
* Of the page: the widgets of the form, the file picker, the fetch of metadata. A
  submission whose fetch failed is acted on before the failure or never, not after.
* Authentication (`requestUserID`): a comparison of credentials without state; the models
  let only the owner of a task see and cancel it, as the handlers do.
* `makeInitHandler` (one report of progress, which AppAPI asks for again), the texts of
  forms and assets, listening on a port or a socket, URLs, headers and bodies of requests.
* Packaging: images, scripts and metadata.
* Delivery of notifications.
* Users leave alone the outputs of conversions in `Converter` (`UserEdit`): what
  becomes of them is then the doing of the service alone. The sources are no
  outputs of other modelled jobs.

## 6. Plan

Done, in this order: `SlotPool`, `JobGate` and its proofs; `TaskStore`, `WebDav`,
`Converter`; `EncoderRun`; `SettingsCache` and its proofs; `UiClient`; `MediaRules`
and its proofs; `TempFiles`, `RemotePaths`, `FileInfo`, `Registration` and `Service`, which
composes them; `SettingValues` and `AdmittedSettings`; `EncoderContract`; the proofs
about `EncoderRun`, `AdmittedSettings` and the temporary files; the proofs about `Converter`
(types, slots, the refinement of `JobGate`, tasks and files), `UiClient` and the rest of `Service`; the
proofs about paths, about single copies and limits of single users, about what settings the
gate is given, and about how far the violated properties hold.

What is left: liveness, which needs a prover for `ENABLED`, and with it the fairness in
`ImplementsContract`; lemmas that name the steps of the refinement of `EncoderContract` one by one, as
`ConverterProofs` does for `JobGate`.
