------------------------------ MODULE Service ------------------------------
(***************************************************************************)
(* The process around the conversions: what main in src/ex_app/main.go     *)
(* starts and stops.  Composes TempFiles and FileInfo, which one cleanup   *)
(* loop tidies up, with Registration; they share the process and its ends. *)
(* A start prunes the temporary files before anything else; SIGTERM stops  *)
(* the cleanup; the end of the process, expected or not, forgets all that  *)
(* is in memory and leaves the files.  What becomes of tasks and contexts  *)
(* then is in Converter.                                                   *)
(***************************************************************************)
EXTENDS Naturals, Sequences

CONSTANTS
    Jobs, Timeout, Lifetime,
    Ids, Users, Places, Typed, NoInfo, Dotted,
    Handlers, AtStart, Loop,
    Mixes,       \* bound: what Nextcloud and its users do together
    MaxRestarts  \* bound on restarts of the process

\* clampInt makes no timeout shorter than a minute.
ASSUME TimeAssumption ==
    /\ Lifetime \in Nat \ {0}
    /\ Timeout \in [Jobs -> Nat \ {0}]

ASSUME IdsAssumption == Ids \subseteq Nat

ASSUME MixesAssumption == Mixes \subseteq SUBSET {"jobs", "pages", "typed", "enabling"}

ASSUME RestartsAssumption == MaxRestarts \in Nat

VARIABLES
    process,
    stage, spent, files, age, doomed,
    cache, last, since, raced, sweeping, page,
    manual, auth, told, at, loops, enabled, forms,
    mix, restarts

tempVars == <<stage, spent, files, age, doomed>>
infoVars == <<cache, last, since, raced, sweeping, page>>
regVars == <<manual, auth, told, at, loops, enabled, forms>>
bounds == <<mix, restarts>>
vars == <<process, tempVars, infoVars, regVars, bounds>>

Temp == INSTANCE TempFiles
FileCache == INSTANCE FileInfo
Reg == INSTANCE Registration

\* A file is in a directory under a name, and that is what pages are opened
\* with; the directory may be written in any way.
ASSUME PlacesAssumption ==
    /\ \A p \in Places : p.directory \in Seq(FileCache!Segments) /\ FileCache!IsName(p.name)
    /\ \A p \in Typed : p # <<>> /\ p \in Seq(FileCache!Segments) /\ FileCache!IsName(FileCache!Last(p))

\* True of all texts, but the provers know neither texts nor joining them.
ASSUME TextsAssumption ==
    /\ {".mp4", ".mov", ".mkv"} \subseteq STRING
    /\ \A p \in Places : FileCache!Extends(p.name.text)
    /\ \A p \in Typed : FileCache!Extends(FileCache!Last(p).text)
    /\ FileCache!Extends("video")

Init ==
    /\ Temp!Init
    /\ FileCache!Init
    /\ Reg!Init
    /\ mix \in Mixes
    /\ "enabling" \notin mix => ~manual    \* a part that stands still
    /\ restarts = 0

\* The steps of one part leave the others alone.
OfTemp == UNCHANGED <<infoVars, regVars, bounds>>
OfInfo == UNCHANGED <<tempVars, regVars, bounds>>
OfReg == UNCHANGED <<tempVars, infoVars, bounds>>

Job(j) == (stage[j] = "new" => "jobs" \in mix) /\ Temp!Job(j) /\ OfTemp

OpenPage(u, f) == "pages" \in mix /\ FileCache!OpenPage(u, f) /\ OfInfo
ClosePage == FileCache!ClosePage /\ OfInfo
OpenTyped(u, f, p) == "typed" \in mix /\ FileCache!OpenTyped(u, f, p) /\ OfInfo
Action(u, f, form, p) == "pages" \in mix /\ FileCache!Action(u, f, form, p) /\ OfInfo

PutEnabled(g) == "enabling" \in mix /\ Reg!PutEnabled(g) /\ OfReg
PutDisabled == "enabling" \in mix /\ Reg!PutDisabled /\ OfReg
Heard == "enabling" \in mix /\ Reg!Heard /\ OfReg
ManualStart == "enabling" \in mix /\ Reg!ManualStart /\ OfReg
Post(g) == Reg!Post(g) /\ OfReg
RefreshTick == Reg!RefreshTick /\ OfReg

\* Every ten minutes: pruneOldTasks (in TaskStore), pruneOldFileCache,
\* pruneOldTempFiles.
Sweep ==
    \/ (Temp!Judge \/ \E f \in Temp!Files : Temp!Sweep(f)) /\ OfTemp
    \/ (\E k \in FileCache!Keys : FileCache!SweepRead(k) \/ FileCache!SweepDelete(k)) /\ OfInfo

Tick == Temp!Tick /\ FileCache!Tick /\ UNCHANGED <<regVars, bounds>>

Stop == Temp!Stop /\ UNCHANGED <<infoVars, regVars, bounds>>

Exit ==
    /\ restarts < MaxRestarts
    /\ Temp!Exit /\ FileCache!Exit /\ Reg!Exit
    /\ UNCHANGED bounds

Start ==
    /\ Temp!Start /\ Reg!Start
    /\ restarts' = restarts + 1
    /\ UNCHANGED <<infoVars, mix>>

Next ==
    \/ \E j \in Jobs : Job(j)
    \/ \E u \in Users, f \in Ids :
          \/ OpenPage(u, f)
          \/ \E p \in Typed : OpenTyped(u, f, p)
          \/ \E form \in FileCache!Forms, p \in Places : Action(u, f, form, p)
    \/ ClosePage
    \/ \E g \in Handlers : PutEnabled(g)
    \/ PutDisabled \/ Heard \/ ManualStart \/ RefreshTick
    \/ \E g \in Reg!Goroutines : Post(g)
    \/ Sweep \/ Tick
    \/ Stop \/ Exit \/ Start

Spec == Init /\ [][Next]_vars

-----------------------------------------------------------------------------
(***************************************************************************)
(* Fairness is that of the parts: time, tickers, timers and clients with a *)
(* timeout; nothing is promised of users, jobs and restarts.  Nextcloud    *)
(* executes and answers a request that is made again and again.            *)
(***************************************************************************)
Fairness ==
    /\ WF_vars(Tick)
    /\ WF_vars(Temp!Judge /\ OfTemp)
    /\ WF_vars((\E f \in Temp!Files : Temp!Sweep(f)) /\ OfTemp)
    /\ WF_vars((\E j \in Jobs : Temp!Overdue(j) /\ Temp!End(j)) /\ OfTemp)
    /\ WF_vars(ManualStart)
    /\ WF_vars(RefreshTick)
    /\ WF_vars(\E g \in Reg!Goroutines : Post(g))
    /\ \A r \in Reg!OldForms \union Reg!NewForms :
          SF_vars(at[Loop] = r /\ Reg!Answered(Loop) /\ OfReg)

FairSpec == Spec /\ Fairness

\* The parts keep their types: deadlines are never passed, at most one refresh
\* loop runs, nothing of a process survives in the next one's memory.
TypeOK ==
    /\ Temp!TypeOK
    /\ FileCache!TypeOK
    /\ Reg!TypeOK
    /\ mix \in Mixes
    /\ restarts \in 0..MaxRestarts

\* Stated and explained in TempFiles: a job whose timeout is no longer than
\* the two hours of pruneOldTempFiles finds every file it opens by name.
FilesInUseStay == Temp!FilesInUseStay

\* TempFiles: no temporary file is left for good once its job is over.
LeftoversGo == Temp!LeftoversGo

\* FileInfo: the page of the user who acted last on a file shows that file.
PageShowsOwnFile == FileCache!PageShowsOwnFile

\* FileInfo: so does it for ids of seven digits and more, sent as numbers.
EveryIdReachesPage == FileCache!EveryIdReachesPage

\* FileInfo: a conversion reads the file the page was opened for and writes
\* its output into the same folder.
OutputBesideSource == FileCache!OutputBesideSource

\* Registration: the settings forms are registered in the end.
FormsRegistered == Reg!FormsRegistered
=============================================================================
