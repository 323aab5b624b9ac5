----------------------------- MODULE TempFiles -----------------------------
(***************************************************************************)
(* The temporary files of the conversions and pruneOldTempFiles, which     *)
(* removes them by age whoever may be using them (src/ex_app/main.go).     *)
(*                                                                         *)
(* A job keeps its downloaded input and its output in one directory.  It   *)
(* and the programs it starts open them by name again and again: what has  *)
(* no name any more can still be read by who has it open, but not opened   *)
(* by the next.  A job removes its files when it ends; the files of a      *)
(* process that dies stay.  Age is the time since the last write, counted  *)
(* until the file is older than any comparison asks.                       *)
(***************************************************************************)
EXTENDS Naturals, FiniteSetsExt

CONSTANTS
    Jobs,
    Timeout,    \* JobTimeoutMinutes each job was admitted under, at least 1
    Lifetime    \* the two hours of pruneOldTempFiles

VARIABLES
    process,    \* up, stopping after SIGTERM, or down
    stage,      \* where the worker of each job is
    spent,      \* time since its admission, when its deadline began to run
    files,      \* the temporary files in the directory
    age,        \* time since a file was last written
    doomed      \* files the cleanup has found old and is about to remove

vars == <<process, stage, spent, files, age, doomed>>

\* CreateTemp never gives a name out twice.
Files == Jobs \X {"input", "output"}
In(j) == <<j, "input">>
Out(j) == <<j, "output">>
Own(j) == {In(j), Out(j)}

Oldest == Lifetime + 1
Grown(n) == Min({n + 1, Oldest})

Working == {"waiting", "download", "writing", "probe", "encode", "upload"}
Ended == {"over", "missing", "lost"}
Stages == {"new"} \union Working \union Ended

Running(j) == stage[j] \in Working
Overdue(j) == Running(j) /\ spent[j] = Timeout[j]

\* Mutation of Old: a file counts as old a moment too early.
Old_TooEarly(f) == age[f] >= Lifetime

\* info.ModTime().Before(cutoff)
Old(f) == age[f] > Lifetime

OldFiles == {f \in files : Old(f)}

Goto(j, s) == stage' = [stage EXCEPT ![j] = s]

\* The file is there and has just been written.
Written(f) == files' = files \union {f} /\ age' = [age EXCEPT ![f] = 0]
Remove(fs) == files' = files \ fs /\ age' = [f \in Files |-> IF f \in fs THEN 0 ELSE age[f]]

Init ==
    /\ process = "up"
    /\ stage = [j \in Jobs |-> "new"]
    /\ spent = [j \in Jobs |-> 0]
    /\ files = {}
    /\ age = [f \in Files |-> 0]
    /\ doomed = {}

-----------------------------------------------------------------------------
(***************************************************************************)
(* A job.  Every step is one of a running process.                         *)
(***************************************************************************)
Admit(j) ==
    /\ process # "down"
    /\ stage[j] = "new"
    /\ Goto(j, "waiting")
    /\ UNCHANGED <<process, spent, files, age, doomed>>

\* It has its slot: an empty file for the input, then the request for it.
CreateInput(j) ==
    /\ stage[j] = "waiting"
    /\ Goto(j, "download")
    /\ Written(In(j))
    /\ UNCHANGED <<process, spent, doomed>>

\* The server answers, after whatever time: os.Create truncates the file, or
\* makes it again.
Answered(j) ==
    /\ stage[j] = "download"
    /\ Goto(j, "writing")
    /\ Written(In(j))
    /\ UNCHANGED <<process, spent, doomed>>

\* io.Copy, and ffmpeg, write through an open handle.
Write(j, f) ==
    /\ \/ stage[j] = "writing" /\ f = In(j)
       \/ stage[j] = "encode" /\ f = Out(j)
    /\ f \in files
    /\ Written(f)
    /\ UNCHANGED <<process, stage, spent, doomed>>

\* ffprobe opens the input.
Probe(j) ==
    /\ stage[j] = "writing"
    /\ In(j) \in files
    /\ Goto(j, "probe")
    /\ UNCHANGED <<process, spent, files, age, doomed>>

\* ffmpeg opens it again, and the output.
Encode(j) ==
    /\ stage[j] = "probe"
    /\ In(j) \in files
    /\ Goto(j, "encode")
    /\ Written(Out(j))
    /\ UNCHANGED <<process, spent, doomed>>

\* ffprobe opens the output, then each attempt of the upload does.
Verify(j) ==
    /\ stage[j] = "encode"
    /\ Out(j) \in files
    /\ Goto(j, "upload")
    /\ UNCHANGED <<process, spent, files, age, doomed>>

\* What a stage opens by name before it is over.
Needed(j) ==
    {f \in Own(j) : \/ f = In(j) /\ stage[j] \in {"writing", "probe"}
                    \/ f = Out(j) /\ stage[j] \in {"encode", "upload"}}

\* A file cannot be opened: the job fails.
Missing(j) ==
    /\ ~(Needed(j) \subseteq files)
    /\ Goto(j, "missing")
    /\ Remove(Own(j))
    /\ UNCHANGED <<process, spent, doomed>>

\* It succeeds, fails, is cancelled or meets its deadline: both files are
\* removed by deferred calls.
End(j) ==
    /\ Running(j)
    /\ Goto(j, "over")
    /\ Remove(Own(j))
    /\ UNCHANGED <<process, spent, doomed>>

Job(j) ==
    \/ Admit(j) \/ CreateInput(j) \/ Answered(j) \/ (\E f \in Own(j) : Write(j, f))
    \/ Probe(j) \/ Encode(j) \/ Verify(j) \/ Missing(j) \/ End(j)

(***************************************************************************)
(* Time, the cleanup and the process.                                      *)
(***************************************************************************)

\* A deadline does not pass unnoticed: every call of a job takes its context.
Tick ==
    /\ \A j \in Jobs : ~Overdue(j)
    /\ spent' = [j \in Jobs |-> IF Running(j) THEN spent[j] + 1 ELSE spent[j]]
    /\ age' = [f \in Files |-> IF f \in files THEN Grown(age[f]) ELSE age[f]]
    /\ UNCHANGED <<process, stage, files, doomed>>

\* Mutation of Judge: the prefix of the outputs is forgotten.
Judge_InputsOnly ==
    /\ process = "up"
    /\ doomed = {}
    /\ doomed' = {f \in OldFiles : f[2] = "input"}
    /\ UNCHANGED <<process, stage, spent, files, age>>

\* The ticker fires: the entries of the directory are looked at ...
Judge ==
    /\ process = "up"
    /\ doomed = {}
    /\ doomed' = OldFiles
    /\ UNCHANGED <<process, stage, spent, files, age>>

\* ... and removed by name, whatever became of them meanwhile.
Sweep(f) ==
    /\ f \in doomed
    /\ doomed' = doomed \ {f}
    /\ Remove({f})
    /\ UNCHANGED <<process, stage, spent>>

\* SIGTERM ends the contexts and the cleanup loop; jobs may still finish.
Stop ==
    /\ process = "up"
    /\ process' = "stopping"
    /\ UNCHANGED <<stage, spent, files, age, doomed>>

\* The process ends, or dies: no deferred call runs.
Exit ==
    /\ process # "down"
    /\ process' = "down"
    /\ stage' = [j \in Jobs |-> IF Running(j) THEN "lost" ELSE stage[j]]
    /\ doomed' = {}
    /\ UNCHANGED <<spent, files, age>>

\* The first thing main does is pruneOldTempFiles.
Start ==
    /\ process = "down"
    /\ process' = "up"
    /\ Remove(OldFiles)
    /\ UNCHANGED <<stage, spent, doomed>>

Step == (\E j \in Jobs : Job(j)) \/ Tick \/ Judge \/ (\E f \in Files : Sweep(f))

Next == Step \/ Stop \/ Exit \/ Start

Spec == Init /\ [][Next]_vars

-----------------------------------------------------------------------------
(***************************************************************************)
(* Properties.                                                             *)
(***************************************************************************)
TypeOK ==
    /\ process \in {"up", "stopping", "down"}
    /\ stage \in [Jobs -> Stages]
    /\ spent \in [Jobs -> Nat]
    /\ files \subseteq Files
    /\ age \in [Files -> 0..Oldest]
    /\ doomed \subseteq Files

\* The cleanup asks nobody whether a file is in use.  A job whose timeout is
\* no longer than the two hours (the default of job_timeout_minutes is 120)
\* nevertheless finds every file it opens by name, however long a transfer
\* stalls.  Longer timeouts have no such promise: Missing.
FilesInUseStay ==
    \A j \in Jobs : Timeout[j] <= Lifetime => Needed(j) \subseteq files /\ stage[j] # "missing"

\* Nothing is left in the directory for good once its job is over, also when
\* the process died under it, as long as a service goes on running.
LeftoversGo ==
    <>[](process = "up") =>
        \A f \in Files : (f \in files /\ stage[f[1]] \in Ended) ~> f \notin files
=============================================================================
