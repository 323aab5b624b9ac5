----------------------------- MODULE EncoderRun -----------------------------
(***************************************************************************)
(* One run of the encoder: runFFmpeg in src/ex_app/main.go, and what       *)
(* configureProcessCancellation (process_linux.go) makes of the end of its *)
(* context.                                                                *)
(*                                                                         *)
(* The processes of the command write into two pipes.  One goroutine scans *)
(* stdout for progress and puts percentages into a buffered channel        *)
(* without ever blocking; one copies stderr; one waits for both and then   *)
(* for the process and hands over the verdict; the caller of runFFmpeg     *)
(* selects between progress and verdict.  os/exec adds a fifth goroutine,  *)
(* which kills when the context ends.                                      *)
(***************************************************************************)
EXTENDS Integers, Sequences

CONSTANTS
    Procs,      \* the processes of the command: ffmpeg, or cpulimit and its children
    Leader,     \* the one exec started and Wait reaps
    Encoder,    \* ffmpeg itself
    Positions,  \* percentages the scanner can compute, see Percentage
    MaxLines,   \* bound on the lines ffmpeg writes to stdout
    PipeRoom,   \* lines that fit into the stdout pipe
    ChanRoom    \* capacity of progressCh (32 in the code)

ASSUME ProcsAssumption == Leader \in Procs /\ Encoder \in Procs

\* pct is clamped to 42..89, whatever out_time and the duration are.
ASSUME PositionsAssumption == Positions \subseteq 42..89

ASSUME BoundsAssumption ==
    /\ MaxLines \in Nat
    /\ PipeRoom \in Nat \ {0}
    /\ ChanRoom \in Nat \ {0}

VARIABLES
    \* the processes
    alive,      \* those that run, and hold both pipes open
    exit,       \* how ffmpeg ended
    lines,      \* number of lines it has written to stdout
    stdout,     \* lines in the pipe
    complained, \* it has written to stderr
    \* the goroutines
    ctx,        \* the context: live or ended
    watch,      \* os/exec: watching the context, killed, off once reaped
    scanner, progressCh,
    copier, stderrBuf,
    waiter, doneCh,
    main,       \* the select loop, then what the caller does
    lastProgress, halfNotices, errText,
    shown       \* Task.Progress

procVars == <<alive, exit, lines, stdout, complained>>
chanVars == <<progressCh, doneCh>>
mainVars == <<main, lastProgress, halfNotices, errText, shown>>
vars == <<procVars, ctx, watch, scanner, copier, stderrBuf, waiter, chanVars, mainVars>>

End == 99              \* the line "progress=end", and the percentage it stands for
Lines == Positions \union {End}
Verdicts == {"ok", "error"}
Eof == alive = {}      \* no process holds a pipe

Init ==
    /\ alive = Procs
    /\ exit = "none"
    /\ lines = 0
    /\ stdout = <<>>
    /\ complained = FALSE
    /\ ctx = "live"
    /\ watch = "watching"
    /\ scanner = "scanning" /\ progressCh = <<>>
    /\ copier = "copying" /\ stderrBuf = FALSE
    /\ waiter = "readers" /\ doneCh = "none"
    /\ main = "loop"
    /\ lastProgress = 0
    /\ halfNotices = 0
    /\ errText = FALSE
    /\ shown = 41      \* the stage before, "Podgotovka"

-----------------------------------------------------------------------------
(***************************************************************************)
(* The processes.                                                          *)
(***************************************************************************)

\* ffmpeg reports a position, in any order, or the end.
WriteLine ==
    /\ Encoder \in alive
    /\ lines < MaxLines
    /\ Len(stdout) < PipeRoom
    /\ \E line \in Lines : stdout' = Append(stdout, line)
    /\ lines' = lines + 1
    /\ UNCHANGED <<alive, exit, complained, ctx, watch, scanner, copier, stderrBuf, waiter,
                   chanVars, mainVars>>

WriteError ==
    /\ Encoder \in alive
    /\ ~complained
    /\ complained' = TRUE
    /\ UNCHANGED <<alive, exit, lines, stdout, ctx, watch, scanner, copier, stderrBuf, waiter,
                   chanVars, mainVars>>

\* ffmpeg ends by itself.
EncoderExits ==
    /\ Encoder \in alive
    /\ exit' \in Verdicts
    /\ alive' = alive \ {Encoder}
    /\ UNCHANGED <<lines, stdout, complained, ctx, watch, scanner, copier, stderrBuf, waiter,
                   chanVars, mainVars>>

\* cpulimit and its limiter end after ffmpeg, in any order.
HelperExits ==
    /\ Encoder \notin alive
    /\ \E p \in alive : alive' = alive \ {p}
    /\ UNCHANGED <<exit, lines, stdout, complained, ctx, watch, scanner, copier, stderrBuf,
                   waiter, chanVars, mainVars>>

ContextEnds ==
    /\ ctx = "live"
    /\ ctx' = "ended"
    /\ UNCHANGED <<procVars, watch, scanner, copier, stderrBuf, waiter, chanVars, mainVars>>

\* Mutation of Kill: the parent process alone is killed.
Kill_LeaderOnly ==
    /\ watch = "watching"
    /\ ctx = "ended"
    /\ watch' = "killed"
    /\ exit' = IF Leader = Encoder /\ Encoder \in alive THEN "killed" ELSE exit
    /\ alive' = alive \ {Leader}
    /\ UNCHANGED <<lines, stdout, complained, ctx, scanner, copier, stderrBuf, waiter,
                   chanVars, mainVars>>

\* cmd.Cancel: SIGKILL to the whole process group, of which at least the
\* leader still exists since it has not been reaped.
Kill ==
    /\ watch = "watching"
    /\ ctx = "ended"
    /\ watch' = "killed"
    /\ exit' = IF Encoder \in alive THEN "killed" ELSE exit
    /\ alive' = {}
    /\ UNCHANGED <<lines, stdout, complained, ctx, scanner, copier, stderrBuf, waiter,
                   chanVars, mainVars>>

-----------------------------------------------------------------------------
(***************************************************************************)
(* The goroutines of runFFmpeg.                                            *)
(***************************************************************************)

\* A line becomes a percentage; when the channel is full it is dropped.
Scan ==
    /\ scanner = "scanning"
    /\ stdout # <<>>
    /\ stdout' = Tail(stdout)
    /\ progressCh' = IF Len(progressCh) < ChanRoom
                     THEN Append(progressCh, Head(stdout)) ELSE progressCh
    /\ UNCHANGED <<alive, exit, lines, complained, ctx, watch, scanner, copier, stderrBuf,
                   waiter, doneCh, mainVars>>

\* close(progressCh): scanner # "scanning" is the closed channel.
ScanEof ==
    /\ scanner = "scanning"
    /\ stdout = <<>>
    /\ Eof
    /\ scanner' = "done"
    /\ UNCHANGED <<procVars, ctx, watch, copier, stderrBuf, waiter, chanVars, mainVars>>

Copy ==
    /\ copier = "copying"
    /\ complained # stderrBuf
    /\ stderrBuf' = complained
    /\ UNCHANGED <<procVars, ctx, watch, scanner, copier, waiter, chanVars, mainVars>>

CopyEof ==
    /\ copier = "copying"
    /\ complained = stderrBuf
    /\ Eof
    /\ copier' = "done"
    /\ UNCHANGED <<procVars, ctx, watch, scanner, stderrBuf, waiter, chanVars, mainVars>>

\* Mutation of WaitReaders: the process is waited for at once.
WaitReaders_No ==
    /\ waiter = "readers"
    /\ waiter' = "process"
    /\ UNCHANGED <<procVars, ctx, watch, scanner, copier, stderrBuf, chanVars, mainVars>>

\* wg.Wait
WaitReaders ==
    /\ waiter = "readers"
    /\ scanner = "done"
    /\ copier = "done"
    /\ waiter' = "process"
    /\ UNCHANGED <<procVars, ctx, watch, scanner, copier, stderrBuf, chanVars, mainVars>>

\* Mutation of Reap: the exit status alone decides, and is not there when the
\* process was killed.
Reap_IgnoresKill ==
    /\ waiter = "process"
    /\ Leader \notin alive
    /\ doneCh' = IF exit # "error" THEN "ok" ELSE "error"
    /\ watch' = IF watch = "watching" THEN "off" ELSE watch
    /\ waiter' = "done"
    /\ UNCHANGED <<procVars, ctx, scanner, progressCh, copier, stderrBuf, mainVars>>

\* cmd.Wait: no error only when the process succeeded and was not killed.
Reap ==
    /\ waiter = "process"
    /\ Leader \notin alive
    /\ doneCh' = IF exit = "ok" /\ watch # "killed" THEN "ok" ELSE "error"
    /\ watch' = IF watch = "watching" THEN "off" ELSE watch
    /\ waiter' = "done"
    /\ UNCHANGED <<procVars, ctx, scanner, progressCh, copier, stderrBuf, mainVars>>

\* Mutations of TakeProgress: progress may fall, and half-way is notified
\* each time.
TakeProgress_Any ==
    /\ main = "loop"
    /\ progressCh # <<>>
    /\ progressCh' = Tail(progressCh)
    /\ lastProgress' = Head(progressCh)
    /\ shown' = Head(progressCh)
    /\ halfNotices' = IF halfNotices = 0 /\ Head(progressCh) >= 65
                      THEN 1 ELSE halfNotices
    /\ UNCHANGED <<procVars, ctx, watch, scanner, copier, stderrBuf, waiter, doneCh,
                   main, errText>>
TakeProgress_NotifiesAgain ==
    /\ main = "loop"
    /\ progressCh # <<>>
    /\ progressCh' = Tail(progressCh)
    /\ IF Head(progressCh) > lastProgress
       THEN /\ lastProgress' = Head(progressCh)
            /\ shown' = Head(progressCh)
            /\ halfNotices' = IF Head(progressCh) >= 65
                              THEN halfNotices + 1 ELSE halfNotices
       ELSE UNCHANGED <<lastProgress, shown, halfNotices>>
    /\ UNCHANGED <<procVars, ctx, watch, scanner, copier, stderrBuf, waiter, doneCh,
                   main, errText>>

\* case p := <-progressCh
TakeProgress ==
    /\ main = "loop"
    /\ progressCh # <<>>
    /\ progressCh' = Tail(progressCh)
    /\ IF Head(progressCh) > lastProgress
       THEN /\ lastProgress' = Head(progressCh)
            /\ shown' = Head(progressCh)
            /\ halfNotices' = IF halfNotices = 0 /\ Head(progressCh) >= 65
                              THEN 1 ELSE halfNotices
       ELSE UNCHANGED <<lastProgress, shown, halfNotices>>
    /\ UNCHANGED <<procVars, ctx, watch, scanner, copier, stderrBuf, waiter, doneCh,
                   main, errText>>

\* case err := <-doneCh, whatever progress is still in the channel: runFFmpeg
\* returns the verdict, with the text of stderr when there is one.
TakeVerdict ==
    /\ main = "loop"
    /\ doneCh # "none"
    /\ main' = doneCh
    /\ doneCh' = "none"
    /\ errText' = (doneCh = "error" /\ stderrBuf)
    /\ UNCHANGED <<procVars, ctx, watch, scanner, progressCh, copier, stderrBuf, waiter,
                   lastProgress, halfNotices, shown>>

\* processTask goes on to the upload, which starts at 90.
Upload ==
    /\ main = "ok"
    /\ main' = "upload"
    /\ shown' = 90
    /\ UNCHANGED <<procVars, ctx, watch, scanner, copier, stderrBuf, waiter, chanVars,
                   lastProgress, halfNotices, errText>>

\* The run is over.
Over ==
    /\ main \in {"error", "upload"}
    /\ UNCHANGED vars

Goroutine ==
    \/ Scan \/ ScanEof \/ Copy \/ CopyEof \/ WaitReaders \/ Reap
    \/ TakeProgress \/ TakeVerdict \/ Upload

Next ==
    \/ WriteLine \/ WriteError \/ EncoderExits \/ HelperExits
    \/ ContextEnds \/ Kill
    \/ Goroutine
    \/ Over

Spec == Init /\ [][Next]_vars

-----------------------------------------------------------------------------
(***************************************************************************)
(* Safety.                                                                 *)
(***************************************************************************)
Returned == main # "loop"

\* The state has the shape the code declares; half-way is notified once.
TypeOK ==
    /\ alive \subseteq Procs
    /\ exit \in Verdicts \union {"none", "killed"}
    /\ lines \in 0..MaxLines
    /\ stdout \in Seq(Lines) /\ Len(stdout) <= PipeRoom
    /\ complained \in BOOLEAN /\ stderrBuf \in BOOLEAN /\ errText \in BOOLEAN
    /\ ctx \in {"live", "ended"}
    /\ watch \in {"watching", "killed", "off"}
    /\ scanner \in {"scanning", "done"}
    /\ copier \in {"copying", "done"}
    /\ waiter \in {"readers", "process", "done"}
    /\ progressCh \in Seq(Lines) /\ Len(progressCh) <= ChanRoom
    /\ doneCh \in Verdicts \union {"none"}
    /\ main \in Verdicts \union {"loop", "upload"}
    /\ lastProgress \in Lines \union {0}
    /\ halfNotices \in 0..1
    /\ shown \in Lines \union {41, 90}

\* "cancelled encoder kept running" (process_linux_test.go): when runFFmpeg
\* returns, no process of the command is left, so that the temporary files
\* can be removed and the slot given to another conversion; scanner, copier
\* and waiter are over, and the error carries all ffmpeg wrote to stderr.
\* (The notification of half-way has a goroutine of its own, which may last
\* longer and shares nothing with the run.)
NothingLeftBehind ==
    Returned =>
        /\ alive = {}
        /\ scanner = "done" /\ copier = "done" /\ waiter = "done"
        /\ main = "error" => errText = complained

\* "cancelled conversion returned success" (process_linux_test.go): the output
\* goes on to the upload only when ffmpeg finished it by itself.
SuccessIsReal == main \in {"ok", "upload"} => exit = "ok" /\ watch # "killed"

\* ffmpeg's word is not trusted: the progress of the task never falls while
\* the encoder runs.
ProgressNeverFalls == [][main' = "loop" => shown' >= shown]_vars

-----------------------------------------------------------------------------
(***************************************************************************)
(* Liveness.  The goroutines and the kill are fair; ffmpeg is not, and its *)
(* helpers need not end by themselves.                                     *)
(***************************************************************************)
FairSpec == Spec /\ WF_vars(Goroutine) /\ WF_vars(Kill)

\* README: "cancellation and job timeouts stop the complete encoder process
\* group": the run ends once its context has ended, and it does when all its
\* processes have.
RunEnds == (ctx = "ended" \/ alive = {}) ~> Returned

Result == IF main = "loop" THEN "none" ELSE IF main = "upload" THEN "gone on" ELSE main

\* What processTask relies on, and Converter's encoding stage abstracts.
Promise ==
    INSTANCE EncoderContract WITH
        working <- alive # {}, stopped <- ctx = "ended", progress <- shown,
        result <- Result,
        Prepared <- 41, Ready <- 90

\* Every step of the run is one of the contract or changes nothing in it, and
\* the run does not end in a state from which it should go on: the verdict is
\* handed over exactly once, after the last process, whatever happens to
\* progress, context and pipes meanwhile.
ImplementsContract == Promise!Contract
=============================================================================
