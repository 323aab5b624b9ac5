-------------------------- MODULE EncoderRunProofs --------------------------
(***************************************************************************)
(* Proofs about a run of the encoder, for any processes, any number of     *)
(* lines and any room in pipe and channel.                                 *)
(***************************************************************************)
EXTENDS EncoderRun, TLAPS

\* A reader stops when no process is left that could write, and the copier
\* has then copied everything.
ReadersLast ==
    /\ scanner = "done" => alive = {}
    /\ copier = "done" => alive = {} /\ stderrBuf = complained
    /\ waiter # "readers" => scanner = "done" /\ copier = "done"

\* The verdict exists once the process has been waited for, and is taken once.
OneVerdict ==
    /\ doneCh # "none" => main = "loop"
    /\ doneCh # "none" \/ main # "loop" => waiter = "done"
    /\ waiter = "done" => watch # "watching"

VerdictTrue ==
    /\ doneCh = "ok" => exit = "ok" /\ watch # "killed"
    /\ main = "error" => errText = stderrBuf

\* Progress is that of the stage before or the last one taken.
ShownIsLast ==
    main = "loop" => \/ lastProgress = 0 /\ shown = 41
                     \/ shown = lastProgress

IInv ==
    /\ TypeOK
    /\ ReadersLast
    /\ OneVerdict
    /\ VerdictTrue
    /\ SuccessIsReal
    /\ ShownIsLast

USE DEF Lines, End, Verdicts, Eof

LEMMA LinesAbove == \A line \in Lines : line \in Nat /\ line > 41
BY PositionsAssumption

LEMMA InitIInv == Init => IInv
<1> SUFFICES ASSUME Init PROVE IInv
    OBVIOUS
<1>1. /\ stdout \in Seq(Lines) /\ Len(stdout) <= PipeRoom
      /\ progressCh \in Seq(Lines) /\ Len(progressCh) <= ChanRoom
    BY BoundsAssumption DEF Init
<1>2. TypeOK
    <2>1. alive \subseteq Procs /\ lines \in 0..MaxLines /\ halfNotices \in 0..1
        BY BoundsAssumption DEF Init
    <2> QED
        BY <1>1, <2>1 DEF Init, TypeOK
<1> QED
    BY <1>2 DEF Init, IInv, ReadersLast, OneVerdict, VerdictTrue, SuccessIsReal, ShownIsLast

\* Steps of the processes.
LEMMA ProcessesIInv ==
    ASSUME IInv, WriteLine \/ WriteError \/ EncoderExits \/ HelperExits \/ ContextEnds \/ Kill
    PROVE  IInv'
<1> USE DEF IInv, chanVars, mainVars, procVars
<1>1. CASE WriteLine
    <2>1. TypeOK'
        BY <1>1, PositionsAssumption, BoundsAssumption DEF WriteLine, TypeOK
    <2> QED
        BY <1>1, <2>1 DEF WriteLine, ReadersLast, OneVerdict, VerdictTrue, SuccessIsReal, ShownIsLast
<1>2. CASE WriteError
    <2>1. copier # "done"
        BY <1>2 DEF WriteError, ReadersLast
    <2>2. TypeOK'
        BY <1>2 DEF WriteError, TypeOK
    <2> QED
        BY <1>2, <2>1, <2>2 DEF WriteError, ReadersLast, OneVerdict, VerdictTrue, SuccessIsReal, ShownIsLast
<1>3. CASE EncoderExits
    <2>1. scanner # "done" /\ copier # "done" /\ waiter = "readers"
        BY <1>3 DEF EncoderExits, ReadersLast, TypeOK
    <2> QED
        BY <1>3, <2>1 DEF EncoderExits, TypeOK, ReadersLast, OneVerdict, VerdictTrue, SuccessIsReal, ShownIsLast
<1>4. CASE HelperExits
    BY <1>4 DEF HelperExits, TypeOK, ReadersLast, OneVerdict, VerdictTrue, SuccessIsReal, ShownIsLast
<1>5. CASE ContextEnds
    BY <1>5 DEF ContextEnds, TypeOK, ReadersLast, OneVerdict, VerdictTrue, SuccessIsReal, ShownIsLast
<1>6. CASE Kill
    BY <1>6 DEF Kill, TypeOK, ReadersLast, OneVerdict, VerdictTrue, SuccessIsReal, ShownIsLast
<1> QED
    BY <1>1, <1>2, <1>3, <1>4, <1>5, <1>6

\* Steps of the goroutines.
LEMMA GoroutinesIInv ==
    ASSUME IInv, Goroutine
    PROVE  IInv'
<1> USE DEF IInv, chanVars, mainVars, procVars
<1>1. CASE Scan
    <2>1. TypeOK'
        BY <1>1, BoundsAssumption DEF Scan, TypeOK
    <2> QED
        BY <1>1, <2>1 DEF Scan, ReadersLast, OneVerdict, VerdictTrue, SuccessIsReal, ShownIsLast
<1>2. CASE ScanEof
    BY <1>2 DEF ScanEof, TypeOK, ReadersLast, OneVerdict, VerdictTrue, SuccessIsReal, ShownIsLast
<1>3. CASE Copy
    BY <1>3 DEF Copy, TypeOK, ReadersLast, OneVerdict, VerdictTrue, SuccessIsReal, ShownIsLast
<1>4. CASE CopyEof
    BY <1>4 DEF CopyEof, TypeOK, ReadersLast, OneVerdict, VerdictTrue, SuccessIsReal, ShownIsLast
<1>5. CASE WaitReaders
    BY <1>5 DEF WaitReaders, TypeOK, ReadersLast, OneVerdict, VerdictTrue, SuccessIsReal, ShownIsLast
<1>6. CASE Reap
    BY <1>6 DEF Reap, TypeOK, ReadersLast, OneVerdict, VerdictTrue, SuccessIsReal, ShownIsLast
<1>7. CASE TakeProgress
    <2>1. Head(progressCh) \in Lines /\ Tail(progressCh) \in Seq(Lines)
          /\ Len(Tail(progressCh)) <= ChanRoom
        BY <1>7, BoundsAssumption DEF TakeProgress, TypeOK
    <2>2. TypeOK'
        BY <1>7, <2>1 DEF TakeProgress, TypeOK
    <2> QED
        BY <1>7, <2>2 DEF TakeProgress, ReadersLast, OneVerdict, VerdictTrue, SuccessIsReal, ShownIsLast
<1>8. CASE TakeVerdict
    BY <1>8 DEF TakeVerdict, TypeOK, ReadersLast, OneVerdict, VerdictTrue, SuccessIsReal, ShownIsLast
<1>9. CASE Upload
    BY <1>9 DEF Upload, TypeOK, ReadersLast, OneVerdict, VerdictTrue, SuccessIsReal, ShownIsLast
<1> QED
    BY <1>1, <1>2, <1>3, <1>4, <1>5, <1>6, <1>7, <1>8, <1>9 DEF Goroutine

LEMMA NextIInv == IInv /\ [Next]_vars => IInv'
<1> SUFFICES ASSUME IInv, [Next]_vars
             PROVE  IInv'
    OBVIOUS
<1>1. CASE UNCHANGED vars \/ Over
    BY <1>1 DEF Over, vars, procVars, chanVars, mainVars, IInv, TypeOK, ReadersLast, OneVerdict,
                VerdictTrue, SuccessIsReal, ShownIsLast
<1> QED
    BY <1>1, ProcessesIInv, GoroutinesIInv DEF Next

THEOREM AlwaysIInv == Spec => []IInv
BY InitIInv, NextIInv, PTL DEF Spec

\* The state keeps its type, and half-way is notified once at most.
THEOREM RunTyped == Spec => []TypeOK
<1>1. IInv => TypeOK
    BY DEF IInv
<1> QED
    BY <1>1, AlwaysIInv, PTL

\* When runFFmpeg returns, no process of the command is left, readers and waiter
\* are over, and the error has all of stderr.
THEOREM RunLeavesNothing == Spec => []NothingLeftBehind
<1>1. IInv => NothingLeftBehind
    BY DEF IInv, OneVerdict, ReadersLast, VerdictTrue, NothingLeftBehind, Returned
<1> QED
    BY <1>1, AlwaysIInv, PTL

\* A success is one of ffmpeg itself, not of a process that was killed.
THEOREM RunSucceedsForReal == Spec => []SuccessIsReal
<1>1. IInv => SuccessIsReal
    BY DEF IInv
<1> QED
    BY <1>1, AlwaysIInv, PTL

\* Every step before the return keeps progress or raises it.
LEMMA StepRaisesProgress ==
    ASSUME IInv, [Next]_vars, main' = "loop"
    PROVE  /\ main = "loop"
           /\ shown' = shown \/ shown' > shown
           /\ shown \in Nat /\ shown' \in Nat
<1> USE DEF IInv, TypeOK
<1>1. shown \in Nat
    BY LinesAbove
<1>2. CASE TakeProgress
    <2>1. Head(progressCh) \in Lines
        BY <1>2 DEF TakeProgress
    <2>2. Head(progressCh) \in Nat /\ Head(progressCh) > 41
        BY <2>1, LinesAbove, Zenon
    <2>3. lastProgress \in Nat
        BY LinesAbove
    <2> QED
        BY <1>1, <1>2, <2>2, <2>3 DEF TakeProgress, ShownIsLast
<1>3. CASE TakeVerdict \/ Upload
    BY <1>3 DEF TakeVerdict, Upload
<1>4. CASE ~(TakeProgress \/ TakeVerdict \/ Upload)
    <2>1. main' = main /\ shown' = shown
        BY <1>4 DEF Next, Goroutine, WriteLine, WriteError, EncoderExits, HelperExits, ContextEnds, Kill,
                    Scan, ScanEof, Copy, CopyEof, WaitReaders, Reap, Over, vars, mainVars
    <2> QED
        BY <1>1, <2>1
<1> QED
    BY <1>2, <1>3, <1>4

THEOREM ProgressGrows == Spec => ProgressNeverFalls
<1>1. IInv /\ [Next]_vars => [main' = "loop" => shown' >= shown]_vars
    BY StepRaisesProgress
<1> QED
    BY <1>1, AlwaysIInv, PTL DEF Spec, ProgressNeverFalls

-----------------------------------------------------------------------------
(***************************************************************************)
(* The contract, without its fairness.                                     *)
(***************************************************************************)
LEMMA InitContract == Init => Promise!Init
BY ProcsAssumption DEF Init, Promise!Init, Result

LEMMA StepContract == IInv /\ [Next]_vars => [Promise!Next]_(Promise!vars)
<1> SUFFICES ASSUME IInv, [Next]_vars
             PROVE  Promise!Next \/ UNCHANGED Promise!vars
    BY DEF Promise!vars
<1> USE DEF Promise!vars, Promise!Next, Result
<1>1. CASE EncoderExits \/ HelperExits
    BY <1>1 DEF EncoderExits, HelperExits, Promise!Finish, mainVars
<1>2. CASE Kill
    BY <1>2 DEF Kill, Promise!Finish, mainVars
<1>3. CASE ContextEnds
    BY <1>3 DEF ContextEnds, Promise!Stop, procVars, mainVars
<1>4. CASE TakeProgress
    <2>1. main' = "loop" /\ main = "loop" /\ UNCHANGED <<alive, ctx>>
        BY <1>4 DEF TakeProgress, procVars
    <2>2. shown' = shown \/ shown' > shown
        BY <2>1, StepRaisesProgress
    <2> QED
        BY <2>1, <2>2 DEF Promise!Advance
<1>5. CASE TakeVerdict
    <2>1. doneCh \in {"ok", "error"} /\ main = "loop" /\ main' = doneCh /\ UNCHANGED <<alive, ctx, shown>>
        BY <1>5 DEF TakeVerdict, IInv, TypeOK, procVars
    <2>2. alive = {}
        BY <2>1 DEF IInv, OneVerdict, ReadersLast
    <2> QED
        BY <2>1, <2>2 DEF Promise!Return
<1>6. CASE Upload
    BY <1>6 DEF Upload, Promise!GoOn, procVars
<1>7. CASE ~(\/ EncoderExits \/ HelperExits \/ Kill \/ ContextEnds \/ TakeProgress \/ TakeVerdict \/ Upload)
    <2>1. UNCHANGED <<alive, ctx, main, shown>>
        BY <1>7 DEF Next, Goroutine, WriteLine, WriteError, Scan, ScanEof, Copy, CopyEof, WaitReaders, Reap,
                    Over, vars, mainVars, procVars
    <2> QED
        BY <2>1
<1> QED
    BY <1>1, <1>2, <1>3, <1>4, <1>5, <1>6, <1>7

\* Every step of the run is one of EncoderContract or changes nothing in it.
THEOREM RunKeepsContract == Spec => Promise!Init /\ [][Promise!Next]_(Promise!vars)
BY InitContract, StepContract, AlwaysIInv, PTL DEF Spec
=============================================================================
