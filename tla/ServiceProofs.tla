--------------------------- MODULE ServiceProofs ---------------------------
(***************************************************************************)
(* Proofs about Service, for any number of jobs, users and files, any      *)
(* durations and any paths: the cleanup never takes a temporary file from  *)
(* a job whose timeout is no longer than the lifetime of such files; a     *)
(* page shows the file of the last action; its output is written beside    *)
(* its source; and the parts keep their types.                             *)
(***************************************************************************)
EXTENDS Service, TLAPS

TempTypeOK == Temp!TypeOK

Coming(j) == stage[j] = "new" \/ Temp!Running(j)

\* No deadline has been passed.
DeadlinesKept == \A j \in Jobs : Coming(j) => spent[j] <= Timeout[j]

\* A file is no older than the job at work on it; a job that has not begun
\* has none.
FilesYoung ==
    \A j \in Jobs : \A f \in Temp!Own(j) :
        /\ Temp!Running(j) /\ f \in files => age[f] <= spent[j]
        /\ stage[j] = "new" => f \notin files

\* The cleanup has not found a file of a job that still needs it.
Spared ==
    \A j \in Jobs : Timeout[j] <= Lifetime /\ Coming(j) => Temp!Own(j) \cap doomed = {}

IInv ==
    /\ TempTypeOK
    /\ DeadlinesKept
    /\ FilesYoung
    /\ Spared
    /\ FilesInUseStay

USE DEF TempTypeOK

LEMMA OwnFiles ==
    ASSUME NEW j \in Jobs
    PROVE  /\ Temp!Own(j) = {<<j, "input">>, <<j, "output">>}
           /\ Temp!In(j) = <<j, "input">> /\ Temp!Out(j) = <<j, "output">>
           /\ Temp!Own(j) \subseteq Temp!Files
           /\ Temp!Needed(j) \subseteq Temp!Own(j)
           /\ \A k \in Jobs : k # j => Temp!Own(j) \cap Temp!Own(k) = {}
BY DEF Temp!Own, Temp!In, Temp!Out, Temp!Files, Temp!Needed

LEMMA AgeGrows ==
    ASSUME TimeAssumption, NEW n \in 0..Temp!Oldest
    PROVE  Temp!Grown(n) \in 0..Temp!Oldest /\ Temp!Grown(n) <= n + 1
<1> DEFINE S == {n + 1, Temp!Oldest}
<1>1. Temp!Oldest \in Nat
    BY DEF TimeAssumption, Temp!Oldest
<1>2. \E x \in S : \A y \in S : x <= y
    BY <1>1
<1>3. Temp!Grown(n) \in S /\ \A y \in S : Temp!Grown(n) <= y
    BY <1>2 DEF Temp!Grown, Temp!Min
<1> QED
    BY <1>1, <1>3

LEMMA InitIInv == Init => IInv
BY TimeAssumption DEF Init, Temp!Init, IInv, Temp!TypeOK, Temp!Stages, DeadlinesKept, FilesYoung, Spared,
   Coming, FilesInUseStay, Temp!FilesInUseStay, Temp!Running, Temp!Working, Temp!Needed, Temp!Oldest, Temp!Files

(***************************************************************************)
(* What a step of one job does: only its own stage and files change.       *)
(***************************************************************************)

\* A job creates, writes or removes files of its own, of which it then has
\* those it needs, and they are no older than the job.
LEMMA OwnStep ==
    ASSUME IInv, NEW j \in Jobs, NEW s \in Temp!Stages \ {"new", "missing"},
           stage' = [stage EXCEPT ![j] = s],
           s \in Temp!Working => Coming(j),
           files' \in SUBSET Temp!Files, age' \in [Temp!Files -> 0..Temp!Oldest],
           \A f \in Temp!Files \ Temp!Own(j) : (f \in files' <=> f \in files) /\ age'[f] = age[f],
           \A f \in Temp!Own(j) : f \in files' => age'[f] <= spent[j],
           Timeout[j] <= Lifetime => Temp!Needed(j)' \subseteq files',
           UNCHANGED <<process, spent, doomed>>
    PROVE  IInv'
<1> USE TimeAssumption DEF IInv
<1>1. stage'[j] = s /\ stage' \in [Jobs -> Temp!Stages] /\ \A k \in Jobs \ {j} : stage'[k] = stage[k]
    BY DEF Temp!TypeOK
<1>2. TempTypeOK'
    BY <1>1 DEF Temp!TypeOK
<1>3. DeadlinesKept'
    BY <1>1 DEF DeadlinesKept, Temp!Running, Coming
<1>4. FilesYoung'
    <2> SUFFICES ASSUME NEW k \in Jobs, NEW f \in Temp!Own(k)
                 PROVE  /\ Temp!Running(k)' /\ f \in files' => age'[f] <= spent'[k]
                        /\ stage'[k] = "new" => f \notin files'
        BY DEF FilesYoung, Temp!Own, Temp!In, Temp!Out
    <2>1. CASE k = j
        BY <1>1, <2>1
    <2>2. CASE k # j
        <3>1. f \in Temp!Files \ Temp!Own(j)
            BY <2>2, OwnFiles
        <3> QED
            BY <1>1, <2>2, <3>1 DEF FilesYoung, Temp!Running
    <2> QED
        BY <2>1, <2>2
<1>5. Spared'
    BY <1>1 DEF Spared, Coming, Temp!Running, Temp!Own, Temp!In, Temp!Out
<1>6. FilesInUseStay'
    <2> SUFFICES ASSUME NEW k \in Jobs, Timeout[k] <= Lifetime
                 PROVE  Temp!Needed(k)' \subseteq files' /\ stage'[k] # "missing"
        BY DEF FilesInUseStay, Temp!FilesInUseStay
    <2>1. CASE k = j
        BY <1>1, <2>1
    <2>2. CASE k # j
        <3>1. Temp!Needed(k)' = Temp!Needed(k)
            BY <1>1, <2>2 DEF Temp!Needed, Temp!Own, Temp!In, Temp!Out
        <3>2. Temp!Needed(k) \subseteq files /\ stage[k] # "missing"
            BY DEF FilesInUseStay, Temp!FilesInUseStay
        <3>3. Temp!Needed(k) \subseteq Temp!Files \ Temp!Own(j)
            BY <2>2, OwnFiles
        <3> QED
            BY <1>1, <2>2, <3>1, <3>2, <3>3
    <2> QED
        BY <2>1, <2>2
<1> QED
    BY <1>2, <1>3, <1>4, <1>5, <1>6

\* No job with a short timeout misses a file; what becomes of another that does
\* is no matter of those.
LEMMA MissingIInv ==
    ASSUME IInv, NEW j \in Jobs, Temp!Missing(j)
    PROVE  IInv'
<1> USE TimeAssumption DEF IInv
<1>1. ~(Timeout[j] <= Lifetime)
    BY DEF Temp!Missing, FilesInUseStay, Temp!FilesInUseStay
<1>2. stage'[j] = "missing" /\ \A k \in Jobs \ {j} : stage'[k] = stage[k]
    BY DEF Temp!Missing, Temp!Goto, Temp!TypeOK
<1>3. /\ files' = files \ Temp!Own(j)
      /\ \A f \in Temp!Files \ Temp!Own(j) : age'[f] = age[f]
      /\ UNCHANGED <<process, spent, doomed>>
    BY DEF Temp!Missing, Temp!Remove
<1>4. TempTypeOK'
    BY DEF Temp!Missing, Temp!Goto, Temp!Remove, Temp!TypeOK, Temp!Oldest, Temp!Stages, Temp!Ended
<1>5. DeadlinesKept' /\ Spared'
    BY <1>1, <1>2, <1>3 DEF DeadlinesKept, Spared, Coming, Temp!Running, Temp!Working, Temp!Own, Temp!In,
                            Temp!Out
<1>6. FilesYoung'
    <2> SUFFICES ASSUME NEW k \in Jobs, NEW f \in Temp!Own(k), f \in files'
                 PROVE  (Temp!Running(k)' => age'[f] <= spent'[k]) /\ stage'[k] # "new"
        BY DEF FilesYoung, Temp!Own, Temp!In, Temp!Out
    <2>1. f \in Temp!Files \ Temp!Own(j) /\ k # j
        BY <1>3, OwnFiles
    <2> QED
        BY <1>2, <1>3, <2>1 DEF FilesYoung, Temp!Running
<1>7. FilesInUseStay'
    <2> SUFFICES ASSUME NEW k \in Jobs, Timeout[k] <= Lifetime
                 PROVE  Temp!Needed(k)' \subseteq files' /\ stage'[k] # "missing"
        BY DEF FilesInUseStay, Temp!FilesInUseStay
    <2>1. k # j
        BY <1>1
    <2>2. Temp!Needed(k)' = Temp!Needed(k)
        BY <1>2, <2>1 DEF Temp!Needed, Temp!Own, Temp!In, Temp!Out
    <2>3. Temp!Needed(k) \subseteq files /\ stage[k] # "missing"
        BY DEF FilesInUseStay, Temp!FilesInUseStay
    <2> QED
        BY <1>2, <1>3, <2>1, <2>2, <2>3, OwnFiles
<1> QED
    BY <1>4, <1>5, <1>6, <1>7

LEMMA JobIInv ==
    ASSUME IInv, NEW j \in Jobs, Temp!Job(j)
    PROVE  IInv'
<1> USE TimeAssumption
<1>own. Temp!In(j) \in Temp!Own(j) /\ Temp!Out(j) \in Temp!Own(j) /\ Temp!Own(j) \subseteq Temp!Files
    BY OwnFiles
<1>old. Temp!Oldest \in Nat /\ spent[j] \in Nat /\ stage \in [Jobs -> Temp!Stages]
    BY DEF IInv, Temp!Oldest, Temp!TypeOK
<1>files. files \subseteq Temp!Files /\ age \in [Temp!Files -> 0..Temp!Oldest]
    BY DEF IInv, Temp!TypeOK
<1>stays. Timeout[j] <= Lifetime => Temp!Needed(j) \subseteq files
    BY DEF IInv, FilesInUseStay, Temp!FilesInUseStay
<1>young. \A f \in Temp!Own(j) : f \in files =>
              (Temp!Running(j) => age[f] <= spent[j]) /\ stage[j] # "new"
    BY DEF IInv, FilesYoung
<1>written. ASSUME NEW f \in Temp!Own(j), Temp!Written(f), Temp!Running(j)
            PROVE  /\ files' \in SUBSET Temp!Files /\ age' \in [Temp!Files -> 0..Temp!Oldest]
                   /\ \A g \in Temp!Files \ Temp!Own(j) : (g \in files' <=> g \in files) /\ age'[g] = age[g]
                   /\ \A g \in Temp!Own(j) : g \in files' => age'[g] <= spent[j]
                   /\ f \in files' /\ files \subseteq files'
    BY <1>written, <1>own, <1>old, <1>files, <1>young DEF Temp!Written
<1>1. CASE Temp!Admit(j)
    <2>1. Temp!Needed(j)' = {}
        BY <1>1, <1>old DEF Temp!Admit, Temp!Goto, Temp!Needed
    <2> QED
        BY <1>1, <1>young, <1>files, <2>1, OwnStep
        DEF Temp!Admit, Temp!Goto, Temp!Stages, Temp!Working, Coming
<1>2. CASE Temp!CreateInput(j)
    <2>1. Temp!Needed(j)' = {}
        BY <1>2, <1>old DEF Temp!CreateInput, Temp!Goto, Temp!Needed
    <2>2. Temp!Running(j)
        BY <1>2 DEF Temp!CreateInput, Temp!Running, Temp!Working
    <2> QED
        BY <1>2, <1>own, <1>written, <2>1, <2>2, OwnStep
        DEF Temp!CreateInput, Temp!Goto, Temp!Stages, Temp!Working, Coming
<1>3. CASE Temp!Answered(j)
    <2>1. Temp!Needed(j)' \subseteq {Temp!In(j)}
        BY <1>3, <1>old DEF Temp!Answered, Temp!Goto, Temp!Needed
    <2>2. Temp!Running(j)
        BY <1>3 DEF Temp!Answered, Temp!Running, Temp!Working
    <2> QED
        BY <1>3, <1>own, <1>written, <2>1, <2>2, OwnStep
        DEF Temp!Answered, Temp!Goto, Temp!Stages, Temp!Working, Coming
<1>4. ASSUME NEW f \in Temp!Own(j), Temp!Write(j, f)
      PROVE  IInv'
    <2>1. Temp!Running(j)
        BY <1>4 DEF Temp!Write, Temp!Running, Temp!Working
    <2>2. stage' = [stage EXCEPT ![j] = stage[j]] /\ Temp!Needed(j)' = Temp!Needed(j)
        BY <1>4, <1>old DEF Temp!Write, Temp!Needed, Temp!Own, Temp!In, Temp!Out
    <2>3. stage[j] \in Temp!Stages \ {"new", "missing"}
        BY <1>4 DEF Temp!Write, Temp!Stages, Temp!Working
    <2> QED
        BY <1>4, <1>written, <1>stays, <2>1, <2>2, <2>3, OwnStep
        DEF Temp!Write, Coming
<1>5. CASE Temp!Probe(j)
    <2>1. Temp!Needed(j)' \subseteq {Temp!In(j)}
        BY <1>5, <1>old DEF Temp!Probe, Temp!Goto, Temp!Needed
    <2>2. Temp!Running(j)
        BY <1>5 DEF Temp!Probe, Temp!Running, Temp!Working
    <2> QED
        BY <1>5, <1>own, <1>files, <1>young, <2>1, <2>2, OwnStep
        DEF Temp!Probe, Temp!Goto, Temp!Stages, Temp!Working, Coming
<1>6. CASE Temp!Encode(j)
    <2>1. Temp!Needed(j)' \subseteq {Temp!Out(j)}
        BY <1>6, <1>old DEF Temp!Encode, Temp!Goto, Temp!Needed
    <2>2. Temp!Running(j)
        BY <1>6 DEF Temp!Encode, Temp!Running, Temp!Working
    <2> QED
        BY <1>6, <1>own, <1>written, <2>1, <2>2, OwnStep
        DEF Temp!Encode, Temp!Goto, Temp!Stages, Temp!Working, Coming
<1>7. CASE Temp!Verify(j)
    <2>1. Temp!Needed(j)' \subseteq {Temp!Out(j)}
        BY <1>7, <1>old DEF Temp!Verify, Temp!Goto, Temp!Needed
    <2>2. Temp!Running(j)
        BY <1>7 DEF Temp!Verify, Temp!Running, Temp!Working
    <2> QED
        BY <1>7, <1>own, <1>files, <1>young, <2>1, <2>2, OwnStep
        DEF Temp!Verify, Temp!Goto, Temp!Stages, Temp!Working, Coming
<1>8. CASE Temp!End(j)
    <2>1. Temp!Needed(j)' = {}
        BY <1>8, <1>old DEF Temp!End, Temp!Goto, Temp!Needed
    <2>2. /\ files' \in SUBSET Temp!Files /\ age' \in [Temp!Files -> 0..Temp!Oldest]
          /\ \A g \in Temp!Files \ Temp!Own(j) : (g \in files' <=> g \in files) /\ age'[g] = age[g]
          /\ \A g \in Temp!Own(j) : g \notin files'
        BY <1>8, <1>old, <1>files DEF Temp!End, Temp!Remove
    <2> QED
        BY <1>8, <2>1, <2>2, OwnStep
        DEF Temp!End, Temp!Goto, Temp!Stages, Temp!Working, Temp!Ended
<1>9. CASE Temp!Missing(j)
    BY <1>9, MissingIInv
<1> QED
    BY <1>1, <1>2, <1>3, <1>4, <1>5, <1>6, <1>7, <1>8, <1>9 DEF Temp!Job

(***************************************************************************)
(* Time, the cleanup and the process.                                      *)
(***************************************************************************)
LEMMA TickIInv ==
    ASSUME IInv, Temp!Tick
    PROVE  IInv'
<1> USE TimeAssumption DEF IInv
<1>1. /\ \A f \in Temp!Files : /\ age'[f] \in 0..Temp!Oldest
                               /\ age[f] \in Nat /\ age'[f] <= age[f] + 1
      /\ age' = [f \in Temp!Files |-> age'[f]]
    BY AgeGrows DEF Temp!Tick, Temp!TypeOK, Temp!Oldest
<1>2. \A j \in Jobs : /\ spent[j] \in Nat /\ Timeout[j] \in Nat /\ spent'[j] \in Nat
                      /\ spent'[j] = IF Temp!Running(j) THEN spent[j] + 1 ELSE spent[j]
    BY DEF Temp!Tick, Temp!TypeOK
<1>3. UNCHANGED <<process, stage, files, doomed>>
    BY DEF Temp!Tick
<1>4. TempTypeOK'
    BY <1>1, <1>2, <1>3 DEF Temp!Tick, Temp!TypeOK
<1>5. DeadlinesKept'
    <2> SUFFICES ASSUME NEW j \in Jobs, Coming(j)
                 PROVE  spent'[j] <= Timeout[j]
        BY <1>3 DEF DeadlinesKept, Coming, Temp!Running
    <2>1. spent[j] <= Timeout[j] /\ (Temp!Running(j) => spent[j] # Timeout[j])
        BY DEF DeadlinesKept, Temp!Tick, Temp!Overdue
    <2> QED
        BY <1>2, <2>1
<1>6. FilesYoung'
    <2> SUFFICES ASSUME NEW j \in Jobs, NEW f \in Temp!Own(j), f \in files
                 PROVE  (Temp!Running(j) => age'[f] <= spent'[j]) /\ stage[j] # "new"
        BY <1>3 DEF FilesYoung, Temp!Running, Temp!Own, Temp!In, Temp!Out
    <2>1. f \in Temp!Files
        BY OwnFiles
    <2> QED
        BY <1>1, <1>2, <2>1 DEF FilesYoung
<1>7. Spared' /\ FilesInUseStay'
    BY <1>3 DEF Spared, Coming, FilesInUseStay, Temp!FilesInUseStay, Temp!Running, Temp!Needed,
                Temp!Own, Temp!In, Temp!Out
<1> QED
    BY <1>4, <1>5, <1>6, <1>7

\* What the cleanup takes is older than any job with a short timeout.
LEMMA OldSpared ==
    ASSUME IInv, NEW j \in Jobs, Timeout[j] <= Lifetime, Coming(j)
    PROVE  Temp!Own(j) \cap Temp!OldFiles = {}
<1> USE TimeAssumption DEF IInv
<1> SUFFICES ASSUME NEW f \in Temp!Own(j), f \in files, Temp!Old(f)
             PROVE  FALSE
    BY DEF Temp!OldFiles
<1>1. f \in Temp!Files
    BY OwnFiles
<1>2. age[f] <= spent[j] /\ spent[j] <= Timeout[j]
    BY DEF FilesYoung, DeadlinesKept, Coming
<1>3. age[f] \in Nat /\ spent[j] \in Nat /\ Timeout[j] \in Nat /\ Lifetime \in Nat
    BY <1>1 DEF Temp!TypeOK, Temp!Oldest
<1> QED
    BY <1>2, <1>3 DEF Temp!Old

LEMMA JudgeIInv ==
    ASSUME IInv, Temp!Judge
    PROVE  IInv'
<1> USE DEF IInv
<1>1. TempTypeOK'
    BY DEF Temp!Judge, Temp!TypeOK, Temp!OldFiles
<1>2. Spared'
    BY OldSpared DEF Temp!Judge, Spared, Coming, Temp!Running, Temp!Own, Temp!In, Temp!Out
<1>3. DeadlinesKept' /\ FilesYoung' /\ FilesInUseStay'
    BY DEF Temp!Judge, DeadlinesKept, Coming, FilesYoung, FilesInUseStay, Temp!FilesInUseStay,
           Temp!Running, Temp!Needed, Temp!Own, Temp!In, Temp!Out
<1> QED
    BY <1>1, <1>2, <1>3

\* Removing files that no job with a short timeout needs.
LEMMA RemoveIInv ==
    ASSUME IInv, NEW fs \in SUBSET Temp!Files, Temp!Remove(fs),
           \A j \in Jobs : Timeout[j] <= Lifetime /\ Coming(j) => Temp!Own(j) \cap fs = {},
           process' \in {"up", "stopping", "down"}, doomed' \subseteq doomed,
           UNCHANGED <<stage, spent>>
    PROVE  IInv'
<1> USE TimeAssumption DEF IInv
<1>1. files' = files \ fs /\ \A f \in files' : age'[f] = age[f]
    BY DEF Temp!Remove, Temp!TypeOK
<1>2. TempTypeOK'
    BY DEF Temp!Remove, Temp!TypeOK, Temp!Oldest
<1>3. DeadlinesKept' /\ Spared'
    BY DEF DeadlinesKept, Spared, Coming, Temp!Running, Temp!Own, Temp!In, Temp!Out
<1>4. FilesYoung'
    BY <1>1 DEF FilesYoung, Temp!Running, Temp!Own, Temp!In, Temp!Out
<1>5. FilesInUseStay'
    <2> SUFFICES ASSUME NEW j \in Jobs, Timeout[j] <= Lifetime
                 PROVE  Temp!Needed(j) \subseteq files' /\ stage[j] # "missing"
        BY DEF FilesInUseStay, Temp!FilesInUseStay, Temp!Needed, Temp!Own, Temp!In, Temp!Out
    <2>1. Temp!Needed(j) \subseteq files /\ stage[j] # "missing"
        BY DEF FilesInUseStay, Temp!FilesInUseStay
    <2>2. Temp!Needed(j) # {} => Coming(j)
        BY DEF Temp!Needed, Coming, Temp!Running, Temp!Working
    <2> QED
        BY <1>1, <2>1, <2>2, OwnFiles
<1> QED
    BY <1>2, <1>3, <1>4, <1>5

LEMMA SweepIInv ==
    ASSUME IInv, NEW f \in Temp!Files, Temp!Sweep(f)
    PROVE  IInv'
<1>1. f \in doomed /\ Temp!Remove({f}) /\ doomed' \subseteq doomed /\ UNCHANGED <<process, stage, spent>>
    BY DEF Temp!Sweep
<1>2. \A j \in Jobs : Timeout[j] <= Lifetime /\ Coming(j) => Temp!Own(j) \cap {f} = {}
    BY <1>1 DEF IInv, Spared
<1>3. process \in {"up", "stopping", "down"}
    BY DEF IInv, Temp!TypeOK
<1> QED
    BY <1>1, <1>2, <1>3, RemoveIInv

LEMMA StartIInv ==
    ASSUME IInv, Temp!Start
    PROVE  IInv'
<1>1. Temp!OldFiles \in SUBSET Temp!Files
    BY DEF IInv, Temp!OldFiles, Temp!TypeOK
<1> QED
    BY <1>1, OldSpared, RemoveIInv DEF Temp!Start

LEMMA ExitIInv ==
    ASSUME IInv, Temp!Exit
    PROVE  IInv'
<1> USE DEF IInv
<1>1. \A j \in Jobs : /\ stage'[j] = IF Temp!Running(j) THEN "lost" ELSE stage[j]
                      /\ stage[j] \in Temp!Stages
    BY DEF Temp!Exit, Temp!TypeOK
<1>2. doomed' = {} /\ UNCHANGED <<spent, files, age>>
    BY DEF Temp!Exit
<1>3. TempTypeOK'
    BY <1>1 DEF Temp!Exit, Temp!TypeOK, Temp!Stages, Temp!Ended
<1>4. DeadlinesKept' /\ FilesYoung' /\ Spared'
    BY <1>1, <1>2 DEF DeadlinesKept, FilesYoung, Spared, Coming, Temp!Running, Temp!Working,
                      Temp!Own, Temp!In, Temp!Out
<1>5. FilesInUseStay'
    BY <1>1, <1>2 DEF FilesInUseStay, Temp!FilesInUseStay, Temp!Needed, Temp!Running, Temp!Working,
                      Temp!Own, Temp!In, Temp!Out
<1> QED
    BY <1>3, <1>4, <1>5

\* Steps of the other parts.
LEMMA OthersIInv ==
    ASSUME IInv, UNCHANGED tempVars, process' \in {"up", "stopping", "down"}
    PROVE  IInv'
BY DEF tempVars, IInv, Temp!TypeOK, DeadlinesKept, FilesYoung, Spared, Coming, FilesInUseStay,
       Temp!FilesInUseStay, Temp!Running, Temp!Needed, Temp!Own, Temp!In, Temp!Out

LEMMA NextIInv == IInv /\ [Next]_vars => IInv'
<1> SUFFICES ASSUME IInv, [Next]_vars
             PROVE  IInv'
    OBVIOUS
<1>typed. process \in {"up", "stopping", "down"}
    BY DEF IInv, Temp!TypeOK
<1>1. ASSUME NEW j \in Jobs, Job(j)
      PROVE  IInv'
    BY <1>1, JobIInv DEF Job
<1>2. ASSUME NEW u \in Users, NEW f \in Ids,
             \/ OpenPage(u, f)
             \/ \E p \in Typed : OpenTyped(u, f, p)
             \/ \E form \in FileCache!Forms, p \in Places : Action(u, f, form, p)
      PROVE  IInv'
    BY <1>2, <1>typed, OthersIInv
    DEF OpenPage, FileCache!OpenPage, OpenTyped, FileCache!OpenTyped, Action, FileCache!Action, OfInfo
<1>3. ASSUME ClosePage
      PROVE  IInv'
    BY <1>3, <1>typed, OthersIInv DEF ClosePage, FileCache!ClosePage, OfInfo
<1>4. ASSUME (\E g \in Handlers : PutEnabled(g)) \/ PutDisabled \/ Heard \/ ManualStart \/ RefreshTick
      PROVE  IInv'
    BY <1>4, <1>typed, OthersIInv
    DEF PutEnabled, Reg!PutEnabled, PutDisabled, Reg!PutDisabled, Heard, Reg!Heard, ManualStart,
        Reg!ManualStart, RefreshTick, Reg!RefreshTick, OfReg
<1>5. ASSUME NEW g \in Reg!Goroutines, Post(g)
      PROVE  IInv'
    BY <1>5, <1>typed, OthersIInv
    DEF Post, Reg!Post, Reg!Answered, Reg!AnswerLost, Reg!Failed, OfReg
<1>6. ASSUME Sweep
      PROVE  IInv'
    <2>1. CASE Temp!Judge
        BY <2>1, JudgeIInv
    <2>2. ASSUME NEW f \in Temp!Files, Temp!Sweep(f)
          PROVE  IInv'
        BY <2>2, SweepIInv
    <2>3. ASSUME NEW k \in FileCache!Keys, FileCache!SweepRead(k) \/ FileCache!SweepDelete(k), OfInfo
          PROVE  IInv'
        BY <2>3, <1>typed, OthersIInv DEF FileCache!SweepRead, FileCache!SweepDelete, OfInfo
    <2> QED
        BY <1>6, <2>1, <2>2, <2>3 DEF Sweep
<1>7. ASSUME Tick
      PROVE  IInv'
    BY <1>7, TickIInv DEF Tick
<1>8. ASSUME Stop
      PROVE  IInv'
    BY <1>8, OthersIInv DEF Stop, Temp!Stop, tempVars
<1>9. ASSUME Exit
      PROVE  IInv'
    BY <1>9, ExitIInv DEF Exit
<1>10. ASSUME Start
       PROVE  IInv'
    BY <1>10, StartIInv DEF Start
<1>11. CASE UNCHANGED vars
    BY <1>11, <1>typed, OthersIInv DEF vars
<1> QED
    BY <1>1, <1>2, <1>3, <1>4, <1>5, <1>6, <1>7, <1>8, <1>9, <1>10, <1>11 DEF Next

\* A job whose timeout is no longer than the lifetime of temporary files finds
\* every file it opens by name: its deadline runs from its admission, and a
\* file is never older than its job.
THEOREM FilesInUse == Spec => []FilesInUseStay
<1>1. IInv => FilesInUseStay
    BY DEF IInv
<1> QED
    BY <1>1, InitIInv, NextIInv, PTL DEF Spec

(***************************************************************************)
(* The pages: what the cache says of the last action on a file, and that   *)
(* the cleanup deletes the entry of that action only when it may.          *)
(***************************************************************************)

\* An entry may go, or be gone, without its page being wronged.
MayGo(k) == since[k] > Lifetime \/ raced[k]

\* Under the key of the last action on a file lies what the action said, or
\* nothing and that for a reason; and the cleanup has that reason before it
\* deletes the key.
EntriesKept ==
    \A f \in Ids, k \in FileCache!Keys : last[f] # NoInfo /\ last[f].key = k =>
        /\ k[1] = f
        /\ cache[k] # last[f].info => cache[k] = NoInfo /\ MayGo(k)
        /\ k \in sweeping => MayGo(k)

InfoTypeOK == FileCache!TypeOK
InfoInv == InfoTypeOK /\ EntriesKept

USE DEF InfoTypeOK

LEMMA InitInfo == Init => InfoInv
BY TimeAssumption DEF Init, FileCache!Init, InfoInv, FileCache!TypeOK, FileCache!Oldest, EntriesKept

LEMMA SinceGrows ==
    ASSUME NEW n \in 0..FileCache!Oldest, NEW m, m = FileCache!Min({n + 1, FileCache!Oldest})
    PROVE  m \in 0..FileCache!Oldest /\ (n > Lifetime => m > Lifetime)
<1>1. FileCache!Oldest \in Nat /\ FileCache!Oldest = Lifetime + 1 /\ Lifetime \in Nat
    BY TimeAssumption DEF FileCache!Oldest
<1>2. \E x \in {n + 1, FileCache!Oldest} : \A y \in {n + 1, FileCache!Oldest} : x <= y
    BY <1>1
<1>3. m \in {n + 1, FileCache!Oldest} /\ m <= FileCache!Oldest
    BY <1>2 DEF FileCache!Min
<1> QED
    BY <1>1, <1>3

LEMMA ActionInfo ==
    ASSUME InfoInv, NEW u \in Users, NEW f \in Ids, NEW form \in FileCache!Forms, NEW p \in Places,
           FileCache!Action(u, f, form, p)
    PROVE  InfoInv'
<1> DEFINE k == FileCache!KeyOf(f, form)
           i == FileCache!CachedFileInfo(u, p)
<1>1. k \in FileCache!Keys /\ k[1] = f
    BY DEF FileCache!KeyOf, FileCache!Keys
<1>2. i \in FileCache!Infos
    BY DEF FileCache!Infos
<1> HIDE DEF k, i
<1>3. /\ last' = [last EXCEPT ![f] = [key |-> k, info |-> i]]
      /\ cache' = [cache EXCEPT ![k] = i]
      /\ since' = [since EXCEPT ![k] = 0]
      /\ raced' = [raced EXCEPT ![k] = k \in sweeping]
      /\ UNCHANGED <<sweeping, page>>
    BY DEF FileCache!Action, k, i
<1>4. InfoTypeOK'
    BY <1>1, <1>2, <1>3, TimeAssumption DEF InfoInv, FileCache!TypeOK, FileCache!Oldest
<1>5. EntriesKept'
    <2> SUFFICES ASSUME NEW g \in Ids, NEW l \in FileCache!Keys, last'[g] # NoInfo, last'[g].key = l
                 PROVE  /\ l[1] = g
                        /\ cache'[l] # last'[g].info => cache'[l] = NoInfo /\ MayGo(l)'
                        /\ l \in sweeping' => MayGo(l)'
        BY DEF EntriesKept
    <2>1. CASE g = f
        <3>1. last'[f] = [key |-> k, info |-> i] /\ l = k /\ last'[f].info = i
            BY <1>3, <2>1 DEF InfoInv, FileCache!TypeOK
        <3>2. cache'[k] = i /\ raced'[k] = (k \in sweeping)
            BY <1>1, <1>3 DEF InfoInv, FileCache!TypeOK
        <3> QED
            BY <1>1, <1>3, <2>1, <3>1, <3>2 DEF MayGo
    <2>2. CASE g # f
        <3>1. last'[g] = last[g]
            BY <1>3, <2>2 DEF InfoInv, FileCache!TypeOK
        <3>2. /\ l[1] = g
              /\ cache[l] # last[g].info => cache[l] = NoInfo /\ MayGo(l)
              /\ l \in sweeping => MayGo(l)
            BY <3>1 DEF InfoInv, EntriesKept
        <3>3. l # k
            BY <1>1, <2>2, <3>2
        <3>4. cache'[l] = cache[l] /\ since'[l] = since[l] /\ raced'[l] = raced[l]
            BY <1>3, <3>3 DEF InfoInv, FileCache!TypeOK
        <3> QED
            BY <1>3, <3>1, <3>2, <3>4 DEF MayGo
    <2> QED
        BY <2>1, <2>2
<1> QED
    BY <1>4, <1>5 DEF InfoInv

\* What pages and the cleanup's look at an entry leave of it.
LEMMA SameEntriesInfo ==
    ASSUME InfoInv, InfoTypeOK', UNCHANGED <<cache, last, since, raced>>,
           \A k \in sweeping' \ sweeping : MayGo(k)
    PROVE  InfoInv'
BY DEF InfoInv, EntriesKept, MayGo

LEMMA PageInfo ==
    ASSUME InfoInv,
           \/ FileCache!ClosePage
           \/ \E u \in Users, f \in Ids : \/ FileCache!OpenPage(u, f)
                                          \/ \E p \in Typed : FileCache!OpenTyped(u, f, p)
    PROVE  InfoInv'
<1>1. UNCHANGED <<cache, last, since, raced, sweeping>>
    BY DEF FileCache!ClosePage, FileCache!OpenPage, FileCache!OpenTyped
<1>2. InfoTypeOK'
    <2>1. CASE FileCache!ClosePage
        BY <2>1 DEF InfoInv, FileCache!TypeOK, FileCache!ClosePage
    <2>2. ASSUME NEW u \in Users, NEW f \in Ids, FileCache!OpenPage(u, f)
          PROVE  InfoTypeOK'
        <3>1. cache[FileCache!Decimal(f)] \in FileCache!Infos \union {NoInfo}
            BY DEF InfoInv, FileCache!TypeOK, FileCache!Decimal, FileCache!Keys
        <3> QED
            BY <2>2, <3>1 DEF InfoInv, FileCache!TypeOK, FileCache!OpenPage, FileCache!PageById
    <2>3. ASSUME NEW u \in Users, NEW f \in Ids, NEW p \in Typed, FileCache!OpenTyped(u, f, p)
          PROVE  InfoTypeOK'
        BY <2>3 DEF InfoInv, FileCache!TypeOK, FileCache!OpenTyped, FileCache!TypedPage
    <2> QED
        BY <2>1, <2>2, <2>3
<1> QED
    BY <1>1, <1>2, SameEntriesInfo

LEMMA SweepReadInfo ==
    ASSUME InfoInv, NEW k \in FileCache!Keys, FileCache!SweepRead(k)
    PROVE  InfoInv'
<1>1. InfoTypeOK'
    BY DEF InfoInv, FileCache!TypeOK, FileCache!SweepRead
<1>2. MayGo(k) /\ sweeping' \ sweeping \subseteq {k}
    BY DEF FileCache!SweepRead, FileCache!Expired, MayGo
<1> QED
    BY <1>1, <1>2, SameEntriesInfo DEF FileCache!SweepRead

LEMMA SweepDeleteInfo ==
    ASSUME InfoInv, NEW k \in FileCache!Keys, FileCache!SweepDelete(k)
    PROVE  InfoInv'
<1>1. InfoTypeOK'
    BY DEF InfoInv, FileCache!TypeOK, FileCache!SweepDelete
<1>2. EntriesKept'
    <2> SUFFICES ASSUME NEW g \in Ids, NEW l \in FileCache!Keys, last[g] # NoInfo, last[g].key = l
                 PROVE  /\ l[1] = g
                        /\ cache'[l] # last[g].info => cache'[l] = NoInfo /\ MayGo(l)'
                        /\ l \in sweeping' => MayGo(l)'
        BY DEF EntriesKept, FileCache!SweepDelete
    <2>1. /\ l[1] = g
          /\ cache[l] # last[g].info => cache[l] = NoInfo /\ MayGo(l)
          /\ l \in sweeping => MayGo(l)
        BY DEF InfoInv, EntriesKept
    <2>2. cache'[l] = IF l = k THEN NoInfo ELSE cache[l]
        BY DEF InfoInv, FileCache!TypeOK, FileCache!SweepDelete
    <2> QED
        BY <2>1, <2>2 DEF FileCache!SweepDelete, MayGo
<1> QED
    BY <1>1, <1>2 DEF InfoInv

LEMMA TickInfo ==
    ASSUME InfoInv, FileCache!Tick
    PROVE  InfoInv'
<1>1. \A k \in FileCache!Keys : /\ since[k] \in 0..FileCache!Oldest
                                /\ since'[k] \in 0..FileCache!Oldest
                                /\ since[k] > Lifetime => since'[k] > Lifetime
    BY SinceGrows DEF InfoInv, FileCache!TypeOK, FileCache!Tick
<1>2. InfoTypeOK'
    BY <1>1 DEF InfoInv, FileCache!TypeOK, FileCache!Tick
<1>3. EntriesKept'
    <2> SUFFICES ASSUME NEW g \in Ids, NEW l \in FileCache!Keys, last[g] # NoInfo, last[g].key = l
                 PROVE  /\ l[1] = g
                        /\ cache'[l] # last[g].info => cache'[l] = NoInfo /\ MayGo(l)'
                        /\ l \in sweeping' => MayGo(l)'
        BY DEF EntriesKept, FileCache!Tick
    <2>1. /\ l[1] = g
          /\ cache[l] # last[g].info => cache[l] = NoInfo /\ MayGo(l)
          /\ l \in sweeping => MayGo(l)
        BY DEF InfoInv, EntriesKept
    <2> QED
        BY <1>1, <2>1 DEF FileCache!Tick, MayGo
<1> QED
    BY <1>2, <1>3 DEF InfoInv

LEMMA ExitInfo ==
    ASSUME InfoInv, FileCache!Exit
    PROVE  InfoInv'
BY TimeAssumption DEF InfoInv, FileCache!TypeOK, FileCache!Oldest, EntriesKept, FileCache!Exit

\* Steps of the other parts.
LEMMA OthersInfo ==
    ASSUME InfoInv, UNCHANGED infoVars
    PROVE  InfoInv'
BY DEF infoVars, InfoInv, FileCache!TypeOK, EntriesKept, MayGo

LEMMA NextInfo == InfoInv /\ [Next]_vars => InfoInv'
<1> SUFFICES ASSUME InfoInv, [Next]_vars
             PROVE  InfoInv'
    OBVIOUS
<1>1. ASSUME NEW u \in Users, NEW f \in Ids, OpenPage(u, f) \/ \E p \in Typed : OpenTyped(u, f, p)
      PROVE  InfoInv'
    BY <1>1, PageInfo DEF OpenPage, OpenTyped
<1>2. ASSUME NEW u \in Users, NEW f \in Ids, NEW form \in FileCache!Forms, NEW p \in Places,
             Action(u, f, form, p)
      PROVE  InfoInv'
    BY <1>2, ActionInfo DEF Action
<1>3. ASSUME ClosePage
      PROVE  InfoInv'
    BY <1>3, PageInfo DEF ClosePage
<1>4. ASSUME \/ \E j \in Jobs : Job(j)
             \/ (Temp!Judge \/ \E f \in Temp!Files : Temp!Sweep(f)) /\ OfTemp
      PROVE  InfoInv'
    BY <1>4, OthersInfo DEF Job, OfTemp, infoVars
<1>5. ASSUME \/ \E g \in Handlers : PutEnabled(g)
             \/ PutDisabled \/ Heard \/ ManualStart \/ RefreshTick
             \/ \E g \in Reg!Goroutines : Post(g)
      PROVE  InfoInv'
    BY <1>5, OthersInfo DEF PutEnabled, PutDisabled, Heard, ManualStart, RefreshTick, Post, OfReg, infoVars
<1>6. ASSUME NEW k \in FileCache!Keys, FileCache!SweepRead(k) \/ FileCache!SweepDelete(k)
      PROVE  InfoInv'
    BY <1>6, SweepReadInfo, SweepDeleteInfo
<1>7. ASSUME Tick
      PROVE  InfoInv'
    BY <1>7, TickInfo DEF Tick
<1>8. ASSUME Exit
      PROVE  InfoInv'
    BY <1>8, ExitInfo DEF Exit
<1>9. ASSUME Stop \/ Start \/ UNCHANGED vars
      PROVE  InfoInv'
    BY <1>9, OthersInfo DEF Stop, Start, vars
<1> QED
    BY <1>1, <1>2, <1>3, <1>4, <1>5, <1>6, <1>7, <1>8, <1>9 DEF Next, Sweep

\* A page by id gets what the cache holds; no other step opens one.
LEMMA OpensOwnId ==
    ASSUME [Next]_vars, FileCache!OpensById
    PROVE  page'.id \in Ids /\ page'.info = cache[FileCache!Decimal(page'.id)]
<1>1. page' # page /\ page'.open /\ page'.byId
    BY DEF FileCache!OpensById, FileCache!Closed
<1>2. PICK u \in Users, f \in Ids : OpenPage(u, f)
    <2>1. ~UNCHANGED infoVars
        BY <1>1 DEF infoVars
    <2>2. UNCHANGED page \/ ClosePage \/ \E u \in Users, f \in Ids : OpenPage(u, f) \/ \E p \in Typed : OpenTyped(u, f, p)
        BY DEF Next, Job, Action, FileCache!Action, PutEnabled, PutDisabled, Heard, ManualStart, RefreshTick,
               Post, Sweep, FileCache!SweepRead, FileCache!SweepDelete, Tick, FileCache!Tick, Stop, Exit,
               FileCache!Exit, Start, OfTemp, OfReg, infoVars, vars
    <2>3. ~ClosePage
        BY <1>1 DEF ClosePage, FileCache!ClosePage, FileCache!Closed
    <2>4. ASSUME NEW u \in Users, NEW f \in Ids, NEW p \in Typed, OpenTyped(u, f, p)
          PROVE  FALSE
        BY <1>1, <2>4 DEF OpenTyped, FileCache!OpenTyped, FileCache!TypedPage
    <2> QED
        BY <1>1, <2>2, <2>3, <2>4
<1>3. page'.id = f /\ page'.info = cache[FileCache!Decimal(f)]
    BY <1>2 DEF OpenPage, FileCache!OpenPage, FileCache!PageById
<1> QED
    BY <1>2, <1>3

\* That is the file of the last action, if that action used the same key.
LEMMA OpensOwnFile ==
    ASSUME InfoInv, [Next]_vars, FileCache!OpensById, last[page'.id] # NoInfo,
           last[page'.id].key = FileCache!Decimal(page'.id)
    PROVE  FileCache!Shows(page'.info, last[page'.id].key)
BY OpensOwnId DEF InfoInv, EntriesKept, MayGo, FileCache!Shows, FileCache!Decimal, FileCache!Keys

\* The page opened by the user whose action on a file was the last shows that
\* file, under an id that came as a text or has up to six digits, unless two
\* hours are over or the cleanup was just deleting an older entry: whatever
\* other users, files, pages and restarts come between.
THEOREM PagesShowOwnFiles == Spec => PageShowsOwnFile
<1> DEFINE Shown == FileCache!OpensById =>
                        LET f == page'.id
                        IN  last[f] # NoInfo /\ last[f].info.user = page'.user /\ last[f].key = FileCache!Decimal(f)
                               => FileCache!Shows(page'.info, last[f].key)
<1>1. InfoInv /\ [Next]_vars => [Shown]_(FileCache!vars)
    BY OpensOwnFile
<1>2. PageShowsOwnFile <=> [][Shown]_(FileCache!vars)
    BY DEF PageShowsOwnFile, FileCache!PageShowsOwnFile
<1> QED
    BY <1>1, <1>2, InitInfo, NextInfo, PTL DEF Spec

\* Up to six digits an id is the same key, as a text or as a number.
KeysOfShortIds == \A f \in Ids : last[f] # NoInfo /\ f < 1000000 => last[f].key = FileCache!Decimal(f)

LEMMA KeyOfShortId ==
    ASSUME NEW f \in Ids, f < 1000000, NEW form \in FileCache!Forms
    PROVE  FileCache!KeyOf(f, form) = FileCache!Decimal(f)
<1>1. ~(f >= 1000000)
    BY IdsAssumption
<1> QED
    BY <1>1 DEF FileCache!KeyOf, FileCache!Decimal

LEMMA NextKeys == InfoInv /\ KeysOfShortIds /\ [Next]_vars => KeysOfShortIds'
<1> SUFFICES ASSUME InfoInv, KeysOfShortIds, [Next]_vars
             PROVE  KeysOfShortIds'
    OBVIOUS
<1>1. ASSUME NEW u \in Users, NEW f \in Ids, NEW form \in FileCache!Forms, NEW p \in Places,
             Action(u, f, form, p)
      PROVE  KeysOfShortIds'
    <2> DEFINE k == FileCache!KeyOf(f, form)
               i == FileCache!CachedFileInfo(u, p)
    <2>1. last' = [last EXCEPT ![f] = [key |-> k, info |-> i]] /\ DOMAIN last = Ids
        BY <1>1 DEF Action, FileCache!Action, InfoInv, FileCache!TypeOK
    <2>2. f < 1000000 => k = FileCache!Decimal(f)
        BY KeyOfShortId
    <2> HIDE DEF k, i
    <2> QED
        BY <2>1, <2>2 DEF KeysOfShortIds
<1>2. CASE UNCHANGED last
    BY <1>2 DEF KeysOfShortIds
<1>3. CASE Exit
    BY <1>3 DEF Exit, FileCache!Exit, KeysOfShortIds
<1>4. ASSUME NEW u \in Users, NEW f \in Ids, OpenPage(u, f) \/ \E p \in Typed : OpenTyped(u, f, p)
      PROVE  UNCHANGED last
    BY <1>4 DEF OpenPage, OpenTyped, FileCache!OpenPage, FileCache!OpenTyped
<1>5. UNCHANGED last \/ Exit \/ \E u \in Users, f \in Ids, form \in FileCache!Forms, p \in Places :
                                    Action(u, f, form, p)
    BY <1>4 DEF Next, Job, ClosePage, FileCache!ClosePage, PutEnabled, PutDisabled, Heard, ManualStart,
                RefreshTick, Post, Sweep, FileCache!SweepRead, FileCache!SweepDelete, Tick, FileCache!Tick,
                Stop, Start, OfTemp, OfReg, infoVars, vars
<1> QED
    BY <1>1, <1>2, <1>3, <1>5

\* What EveryIdReachesPage says of every id, and the code does not do for long
\* ones (run FileId), it does for those of up to six digits: the page of the
\* user who acted last on the file shows it, in whatever form the ids came.
ShortIdsReachPage ==
    [][FileCache!OpensById =>
          LET f == page'.id
          IN  f < 1000000 /\ last[f] # NoInfo /\ last[f].info.user = page'.user
                 => FileCache!Shows(page'.info, last[f].key)]_(FileCache!vars)

THEOREM ShortIdsFindFiles == Spec => ShortIdsReachPage
<1> DEFINE Shown == FileCache!OpensById =>
                        LET f == page'.id
                        IN  f < 1000000 /\ last[f] # NoInfo /\ last[f].info.user = page'.user
                               => FileCache!Shows(page'.info, last[f].key)
<1>1. InfoInv /\ KeysOfShortIds /\ [Next]_vars => [Shown]_(FileCache!vars)
    <2> SUFFICES ASSUME InfoInv, KeysOfShortIds, [Next]_vars, FileCache!OpensById,
                        page'.id < 1000000, last[page'.id] # NoInfo
                 PROVE  FileCache!Shows(page'.info, last[page'.id].key)
        OBVIOUS
    <2>1. page'.id \in Ids
        BY OpensOwnId
    <2> QED
        BY <2>1, OpensOwnFile DEF KeysOfShortIds
<1>2. ShortIdsReachPage <=> [][Shown]_(FileCache!vars)
    BY DEF ShortIdsReachPage
<1>3. Init => KeysOfShortIds
    BY DEF Init, FileCache!Init, KeysOfShortIds
<1> QED
    BY <1>1, <1>2, <1>3, InitInfo, NextInfo, NextKeys, PTL DEF Spec

(***************************************************************************)
(* The paths of a page: what RemotePathsProofs says of any path, of those  *)
(* that a page can have.                                                   *)
(***************************************************************************)
Paths == INSTANCE RemotePathsProofs

LEMMA SameClean == \A p : FileCache!Clean(p) = Paths!Clean(p)
BY DEF FileCache!Clean, Paths!Clean, FileCache!Push, Paths!Push, FileCache!Nothing, Paths!Nothing,
       FileCache!Here, Paths!Here, FileCache!Up, Paths!Up, FileCache!Segment, Paths!Segment,
       FileCache!Front, Paths!Front

LEMMA SamePaths ==
    /\ FileCache!Refused = Paths!Refused
    /\ \A p : FileCache!CleanRemotePath(p) = Paths!CleanRemotePath(p)
    /\ \A d, s : FileCache!BuildRelativePath(d, s) = Paths!BuildRelativePath(d, s)
    /\ \A p, s, c : FileCache!BuildRemoteOutputPath(p, s, c) = Paths!BuildRemoteOutputPath(p, s, c)
<1>1. \A p : FileCache!TrimSpace(p) = Paths!TrimSpace(p)
    BY DEF FileCache!TrimSpace, Paths!TrimSpace
<1>2. FileCache!Refused = Paths!Refused
    BY DEF FileCache!Refused, Paths!Refused
<1>3. \A p : FileCache!CleanRemotePath(p) = Paths!CleanRemotePath(p)
    BY <1>1, <1>2, SameClean DEF FileCache!CleanRemotePath, Paths!CleanRemotePath
<1>4. \A d, s : FileCache!BuildRelativePath(d, s) = Paths!BuildRelativePath(d, s)
    BY <1>1, SameClean DEF FileCache!BuildRelativePath, Paths!BuildRelativePath
<1>5. \A p, s, c : FileCache!BuildRemoteOutputPath(p, s, c) = Paths!BuildRemoteOutputPath(p, s, c)
    <2>1. \A text, ext : FileCache!Segment(text, ext) = Paths!Segment(text, ext)
        BY DEF FileCache!Segment, Paths!Segment
    <2>2. \A text : FileCache!Converted(text) = Paths!Converted(text)
        BY DEF FileCache!Converted, Paths!Converted, FileCache!SanitizeFilename, Paths!SanitizeFilename
    <2>3. \A p : FileCache!Front(p) = Paths!Front(p)
        BY DEF FileCache!Front, Paths!Front
    <2> QED
        BY <2>1, <2>2, <2>3, SameClean DEF FileCache!BuildRemoteOutputPath, Paths!BuildRemoteOutputPath
<1> QED
    BY <1>2, <1>3, <1>4, <1>5

LEMMA SameNames ==
    /\ FileCache!Segments = Paths!Segments
    /\ \A s : FileCache!IsName(s) = Paths!IsName(s)
    /\ \A text : FileCache!Extends(text) = Paths!Extends(text)
    /\ \A p : FileCache!Front(p) = Paths!Front(p) /\ FileCache!Last(p) = Paths!Last(p)
BY DEF FileCache!Segments, Paths!Segments, FileCache!IsName, Paths!IsName, FileCache!Extends, Paths!Extends,
       FileCache!Trimmed, Paths!Trimmed, FileCache!Nothing, Paths!Nothing, FileCache!Here, Paths!Here,
       FileCache!Up, Paths!Up, FileCache!Segment, Paths!Segment, FileCache!Front, Paths!Front,
       FileCache!Last, Paths!Last

Segs == FileCache!Segments

\* What OutputBesideSource says of a page with the entry i.
Sent(i) == FileCache!CleanRemotePath(i.path)
Stored(i, c) == FileCache!CleanRemotePath(FileCache!BuildRemoteOutputPath(i.path, i.name, c))

SourceIsFile(i) == FileCache!Plain(i.file) => Sent(i) \in {FileCache!Clean(i.file), FileCache!Refused}
OutputIsBeside(i) ==
    \A c \in {".mp4", ".mov", ".mkv"} :
        Sent(i) # FileCache!Refused /\ Stored(i, c) # FileCache!Refused
            => FileCache!Front(Stored(i, c)) = FileCache!Front(Sent(i)) /\ Stored(i, c) # Sent(i)

LEMMA PathBeside ==
    ASSUME NEW q \in Seq(Segs), NEW i, FileCache!IsName(i.name), FileCache!Extends(i.name.text),
           i.path = Append(q, i.name)
    PROVE  OutputIsBeside(i)
<1> SUFFICES ASSUME NEW c \in {".mp4", ".mov", ".mkv"}, Sent(i) # FileCache!Refused, Stored(i, c) # FileCache!Refused
             PROVE  FileCache!Front(Stored(i, c)) = FileCache!Front(Sent(i)) /\ Stored(i, c) # Sent(i)
    BY DEF OutputIsBeside
<1>1. Sent(i) = Paths!CleanRemotePath(Append(q, i.name))
    BY SamePaths DEF Sent
<1>2. Stored(i, c) = Paths!CleanRemotePath(Paths!BuildRemoteOutputPath(Append(q, i.name), i.name, c))
    BY SamePaths DEF Stored
<1>3. /\ q \in Seq(Paths!Segments) /\ Paths!IsName(i.name)
      /\ Paths!Extends(i.name.text) /\ Paths!Extends("video")
    BY SameNames, TextsAssumption DEF Segs
<1>4. Sent(i) # Paths!Refused /\ Stored(i, c) # Paths!Refused
    BY SamePaths
<1>5. c \in STRING /\ c # ""
    <2>1. c \in STRING
        BY TextsAssumption
    <2>2. c # ""
        BY Zenon
    <2> QED
        BY <2>1, <2>2, Zenon
<1>6. Paths!Front(Stored(i, c)) = Paths!Front(Sent(i)) /\ Stored(i, c) # Sent(i)
    BY <1>1, <1>2, <1>3, <1>4, <1>5, Paths!OutputBeside, Zenon
<1> QED
    BY <1>6, SameNames

LEMMA CachedBeside ==
    ASSUME NEW u \in Users, NEW p \in Places
    PROVE  LET i == FileCache!CachedFileInfo(u, p) IN SourceIsFile(i) /\ OutputIsBeside(i)
<1> DEFINE i == FileCache!CachedFileInfo(u, p)
           d == Paths!Clean(Paths!TrimSpace(p.directory))
<1>1. /\ p.directory \in Seq(Segs) /\ p.directory \in Seq(Paths!Segments)
      /\ Paths!IsName(p.name) /\ FileCache!IsName(p.name)
      /\ FileCache!Extends(p.name.text) /\ p.name \in Paths!Segments
    BY PlacesAssumption, TextsAssumption, SameNames DEF Segs, Paths!IsName
<1>2. /\ i.file = Append(p.directory, p.name) /\ i.name = p.name
      /\ i.path = FileCache!BuildRelativePath(p.directory, p.name)
    BY DEF FileCache!CachedFileInfo
<1>3. i.path = Append(d, p.name)
    BY <1>1, <1>2, SamePaths, Paths!RelativePathKeepsName
<1> HIDE DEF i
<1>4. d \in Seq(Paths!Segments) /\ Paths!Clean(d) = d
    BY <1>1, Paths!TrimTyped, Paths!CleanOrdinary, Paths!CleanIdempotent, Paths!SeqMonotonic DEF Paths!Ordinary
<1>5. OutputIsBeside(i)
    BY <1>1, <1>2, <1>3, <1>4, SameNames, PathBeside DEF Segs
<1>6. ASSUME FileCache!Plain(i.file)
      PROVE  Sent(i) \in {FileCache!Clean(i.file), FileCache!Refused}
    <2>1. ~p.name.blank /\ Paths!TrimSpace(p.directory) = p.directory
        <3>1. /\ Len(i.file) = Len(p.directory) + 1 /\ Len(p.directory) \in Nat
              /\ i.file[Len(p.directory) + 1] = p.name
              /\ \A n \in 1..Len(p.directory) : i.file[n] = p.directory[n]
            BY <1>1, <1>2, Paths!AppendProperties, Paths!LenProperties
        <3>2. ~p.name.blank /\ \A n \in 1..Len(p.directory) : ~p.directory[n].blank
            BY <1>6, <3>1 DEF FileCache!Plain
        <3> QED
            BY <1>1, <3>2, Paths!TrimTyped
    <2>2. Sent(i) \in {Paths!Clean(Append(d, p.name)), Paths!Refused}
        BY <1>1, <1>3, <1>4, <2>1, SamePaths, Paths!RequestsForTheFile DEF Sent
    <2>3. Paths!Clean(Append(d, p.name)) = Append(d, p.name)
        BY <1>1, <1>4, Paths!NamesOrdinary, Paths!CleanFile
    <2>4. Paths!Clean(i.file) = Append(d, p.name)
        BY <1>1, <1>2, <2>1, Paths!NamesOrdinary, Paths!CleanFile
    <2> QED
        BY <2>2, <2>3, <2>4, SameClean, SamePaths
<1> QED
    BY <1>5, <1>6 DEF SourceIsFile, i

LEMMA TypedBeside ==
    ASSUME NEW u \in Users, NEW p \in Typed
    PROVE  LET i == FileCache!TypedInfo(u, p) IN SourceIsFile(i) /\ OutputIsBeside(i)
<1> DEFINE i == FileCache!TypedInfo(u, p)
<1>1. p \in Seq(Segs) /\ p \in Seq(Paths!Segments) /\ p # <<>>
    BY PlacesAssumption, SameNames DEF Segs
<1>2. PICK q \in Seq(Paths!Segments), s \in Paths!Segments : p = Append(q, s)
    BY <1>1, Paths!SequenceEmptyOrAppend
<1>3. Paths!Last(p) = s
    BY <1>2, Paths!FrontOfAppend
<1>4. Paths!IsName(s) /\ FileCache!IsName(s) /\ FileCache!Extends(s.text)
    BY <1>3, PlacesAssumption, TextsAssumption, SameNames
<1>5. i.file = Paths!Clean(p) /\ i.name = s /\ i.path = Append(q, s)
    BY <1>2, <1>3, SameClean, SameNames DEF FileCache!TypedInfo
<1> HIDE DEF i
<1>6. OutputIsBeside(i)
    BY <1>2, <1>4, <1>5, SameNames, PathBeside DEF Segs
<1>7. ASSUME FileCache!Plain(i.file)
      PROVE  Sent(i) \in {FileCache!Clean(i.file), FileCache!Refused}
    <2>1. Paths!Clean(p) = Append(Paths!Clean(q), s) /\ Paths!Clean(q) \in Seq(Paths!Ordinary) /\ s \in Paths!Ordinary
        BY <1>2, <1>4, Paths!NamesOrdinary, Paths!CleanFile
    <2>2. ~s.blank
        <3>1. /\ Len(i.file) = Len(Paths!Clean(q)) + 1 /\ Len(Paths!Clean(q)) \in Nat
              /\ i.file[Len(Paths!Clean(q)) + 1] = s
            BY <1>5, <2>1, Paths!AppendProperties, Paths!LenProperties
        <3> QED
            BY <1>7, <3>1 DEF FileCache!Plain
    <2>3. Sent(i) \in {Paths!Clean(p), Paths!Refused}
        BY <1>2, <1>4, <1>5, <2>2, SamePaths, Paths!RequestsForTheFile DEF Sent
    <2>4. FileCache!Clean(i.file) = Paths!Clean(p)
        BY <1>1, <1>5, SameClean, Paths!CleanIdempotent
    <2> QED
        BY <2>3, <2>4, SamePaths
<1> QED
    BY <1>6, <1>7 DEF SourceIsFile, i

LEMMA PageBeside == InfoInv => OutputBesideSource
<1> SUFFICES ASSUME InfoInv, page.open, page.info # NoInfo
             PROVE  SourceIsFile(page.info) /\ OutputIsBeside(page.info)
    BY DEF OutputBesideSource, FileCache!OutputBesideSource, SourceIsFile, OutputIsBeside, Sent, Stored
<1>1. page # FileCache!Closed
    BY DEF FileCache!Closed
<1>2. /\ page.user \in Users
      /\ page.info \in FileCache!Infos \/ page.info \in {FileCache!TypedInfo(page.user, p) : p \in Typed}
    BY <1>1 DEF InfoInv, FileCache!TypeOK
<1>3. CASE page.info \in FileCache!Infos
    BY <1>3, CachedBeside DEF FileCache!Infos
<1>4. CASE page.info \in {FileCache!TypedInfo(page.user, p) : p \in Typed}
    BY <1>2, <1>4, TypedBeside
<1> QED
    BY <1>2, <1>3, <1>4

\* However a file's directory was written, by the Files app or in the address
\* of the page: its conversion asks for that file or for none, and stores the
\* output in the same folder under another name.
THEOREM OutputsBesideSources == Spec => []OutputBesideSource
BY InitInfo, NextInfo, PageBeside, PTL DEF Spec

(***************************************************************************)
(* Types: registration, the bounds and all parts together.                 *)
(***************************************************************************)
RegTypeOK == Reg!TypeOK

\* A process that is down may start again.
RestInv ==
    /\ RegTypeOK
    /\ mix \in Mixes
    /\ restarts \in 0..MaxRestarts
    /\ process = "down" => restarts < MaxRestarts

USE DEF RegTypeOK

\* Where a goroutine can be.
Steps == Reg!Requests \union {"off", "sleep", "tick"}

LEMMA IdleTyped ==
    /\ Reg!Idle \in [Reg!Goroutines -> Steps]
    /\ [g \in Reg!Goroutines |-> "off"] \in [Reg!Goroutines -> Steps]
<1>1. "sleep" \in Steps /\ "off" \in Steps
    BY DEF Steps
<1> HIDE DEF Steps
<1> QED
    BY <1>1 DEF Reg!Idle

LEMMA InitRest == Init => RestInv
<1> SUFFICES ASSUME Init
             PROVE  RestInv
    OBVIOUS
<1>1. Reg!Init /\ process = "up" /\ mix \in Mixes /\ restarts = 0
    BY DEF Init, FileCache!Init
<1>2. RegTypeOK
    <2>1. at \in [Reg!Goroutines -> Steps]
        BY <1>1, IdleTyped DEF Reg!Init
    <2>2. manual \in BOOLEAN /\ auth \in BOOLEAN /\ told \in BOOLEAN /\ enabled \in BOOLEAN
        BY <1>1 DEF Reg!Init
    <2>3. loops \in 0..1 /\ forms \subseteq Reg!OldForms \union Reg!NewForms
        BY <1>1 DEF Reg!Init
    <2> QED
        BY <2>1, <2>2, <2>3 DEF Reg!TypeOK, Steps
<1> QED
    BY <1>1, <1>2, RestartsAssumption DEF RestInv

\* The next request is one, or there is none.
LEMMA AdvanceTyped ==
    ASSUME RegTypeOK, NEW g \in Reg!Goroutines, at[g] \in Reg!Requests, NEW ok \in BOOLEAN,
           Reg!Advance(g, ok)
    PROVE  at' \in [Reg!Goroutines -> Steps] /\ loops' \in 0..1
<1>1. Reg!After(g, at[g], ok) \in Reg!Requests \union {"off", "tick"}
    BY DEF Reg!After, Reg!AfterSettings, Reg!Requests, Reg!OldForms, Reg!NewForms, Reg!Elements
<1>2. PICK next \in Steps : next = Reg!After(g, at[g], ok)
    BY <1>1 DEF Steps
<1>3. /\ at \in [Reg!Goroutines -> Steps] /\ loops \in 0..1
      /\ Loop \in Reg!Goroutines /\ "tick" \in Steps
    BY DEF Reg!TypeOK, Steps, Reg!Goroutines
<1>4. /\ \/ at' = [at EXCEPT ![g] = next]
         \/ at' = [at EXCEPT ![g] = next, ![Loop] = "tick"]
      /\ loops' \in {1, loops}
    BY <1>2 DEF Reg!Advance
<1> QED
    BY <1>3, <1>4

LEMMA PostTyped ==
    ASSUME RegTypeOK, NEW g \in Reg!Goroutines, Reg!Post(g)
    PROVE  RegTypeOK'
<1>1. at[g] \in Reg!Requests /\ UNCHANGED <<manual, auth, told, enabled>>
    BY DEF Reg!Post, Reg!Answered, Reg!AnswerLost, Reg!Failed
<1>2. forms' \subseteq Reg!OldForms \union Reg!NewForms
    BY DEF Reg!TypeOK, Reg!Post, Reg!Answered, Reg!AnswerLost, Reg!Failed, Reg!Executed
<1>3. Reg!Advance(g, TRUE) \/ Reg!Advance(g, FALSE)
    BY DEF Reg!Post, Reg!Answered, Reg!AnswerLost, Reg!Failed
<1>4. at' \in [Reg!Goroutines -> Steps] /\ loops' \in 0..1
    BY <1>1, <1>3, AdvanceTyped
<1> QED
    BY <1>1, <1>2, <1>4 DEF Reg!TypeOK, Steps

\* What the service is told, and the end and the start of a process.
LEMMA ToldTyped ==
    ASSUME RegTypeOK,
           \/ \E g \in Handlers : Reg!PutEnabled(g)
           \/ Reg!PutDisabled \/ Reg!Heard \/ Reg!ManualStart \/ Reg!RefreshTick \/ Reg!Exit \/ Reg!Start
    PROVE  RegTypeOK'
<1>1. /\ Handlers \subseteq Reg!Goroutines
      /\ {"legacy", "sleep", "off"} \subseteq Reg!Requests \union {"off", "sleep", "tick"}
    BY DEF Reg!Goroutines, Reg!Requests, Reg!OldForms
<1>2. CASE (\E g \in Handlers : Reg!PutEnabled(g)) \/ Reg!PutDisabled \/ Reg!Heard
    BY <1>1, <1>2 DEF Reg!TypeOK, Reg!PutEnabled, Reg!PutDisabled, Reg!Heard
<1>3. CASE Reg!ManualStart \/ Reg!RefreshTick
    BY <1>1, <1>3 DEF Reg!TypeOK, Reg!ManualStart, Reg!RefreshTick
<1>4. CASE Reg!Exit \/ Reg!Start
    <2>1. at' \in [Reg!Goroutines -> Steps]
        BY <1>4, IdleTyped DEF Reg!Exit, Reg!Start
    <2>2. manual' \in BOOLEAN /\ auth' \in BOOLEAN /\ told' \in BOOLEAN /\ enabled' \in BOOLEAN
        BY <1>4 DEF Reg!TypeOK, Reg!Exit, Reg!Start
    <2>3. loops' \in 0..1 /\ forms' \subseteq Reg!OldForms \union Reg!NewForms
        BY <1>4 DEF Reg!TypeOK, Reg!Exit, Reg!Start
    <2> QED
        BY <2>1, <2>2, <2>3 DEF Reg!TypeOK, Steps
<1> QED
    BY <1>2, <1>3, <1>4

\* Steps in which neither registration nor the process takes part; SIGTERM
\* does not end it yet.
LEMMA OthersRest ==
    ASSUME RestInv, UNCHANGED <<regVars, bounds>>, process' = process \/ process' # "down"
    PROVE  RestInv'
BY DEF RestInv, Reg!TypeOK, regVars, bounds

LEMMA RegRest ==
    ASSUME RestInv, RegTypeOK', UNCHANGED <<process, bounds>>
    PROVE  RestInv'
BY DEF RestInv, bounds

LEMMA NextRest == RestInv /\ [Next]_vars => RestInv'
<1> SUFFICES ASSUME RestInv, [Next]_vars
             PROVE  RestInv'
    OBVIOUS
<1>typed. RegTypeOK
    BY DEF RestInv
<1>1. ASSUME NEW j \in Jobs, Job(j)
      PROVE  RestInv'
    BY <1>1, OthersRest
    DEF Job, Temp!Job, Temp!Admit, Temp!CreateInput, Temp!Answered, Temp!Write, Temp!Probe, Temp!Encode,
        Temp!Verify, Temp!End, Temp!Missing, OfTemp
<1>2. ASSUME NEW u \in Users, NEW f \in Ids,
             \/ OpenPage(u, f)
             \/ \E p \in Typed : OpenTyped(u, f, p)
             \/ \E form \in FileCache!Forms, p \in Places : Action(u, f, form, p)
      PROVE  RestInv'
    BY <1>2, OthersRest
    DEF OpenPage, FileCache!OpenPage, OpenTyped, FileCache!OpenTyped, Action, FileCache!Action, OfInfo
<1>3. ASSUME ClosePage \/ Sweep \/ Tick
      PROVE  RestInv'
    BY <1>3, OthersRest
    DEF ClosePage, FileCache!ClosePage, Sweep, Temp!Judge, Temp!Sweep, FileCache!SweepRead,
        FileCache!SweepDelete, Tick, Temp!Tick, OfTemp, OfInfo
<1>4. ASSUME (\E g \in Handlers : PutEnabled(g)) \/ PutDisabled \/ Heard \/ ManualStart \/ RefreshTick
      PROVE  RestInv'
    <2>1. RegTypeOK'
        BY <1>4, <1>typed, ToldTyped DEF PutEnabled, PutDisabled, Heard, ManualStart, RefreshTick
    <2>2. UNCHANGED <<process, bounds>>
        BY <1>4 DEF PutEnabled, Reg!PutEnabled, PutDisabled, Reg!PutDisabled, Heard, Reg!Heard, ManualStart,
                    Reg!ManualStart, RefreshTick, Reg!RefreshTick, OfReg
    <2> QED
        BY <2>1, <2>2, RegRest
<1>5. ASSUME NEW g \in Reg!Goroutines, Post(g)
      PROVE  RestInv'
    <2>1. RegTypeOK'
        BY <1>5, <1>typed, PostTyped DEF Post
    <2>2. UNCHANGED <<process, bounds>>
        BY <1>5 DEF Post, Reg!Post, Reg!Answered, Reg!AnswerLost, Reg!Failed, OfReg
    <2> QED
        BY <2>1, <2>2, RegRest
<1>6. ASSUME Stop
      PROVE  RestInv'
    BY <1>6, OthersRest DEF Stop, Temp!Stop
<1>7. ASSUME Exit
      PROVE  RestInv'
    <2>1. RegTypeOK'
        BY <1>7, <1>typed, ToldTyped DEF Exit
    <2> QED
        BY <1>7, <2>1 DEF RestInv, Exit, bounds
<1>8. ASSUME Start
      PROVE  RestInv'
    <2>1. RegTypeOK'
        BY <1>8, <1>typed, ToldTyped DEF Start
    <2>2. process = "down" /\ process' = "up" /\ restarts' = restarts + 1 /\ mix' = mix
        BY <1>8 DEF Start, Reg!Start
    <2> QED
        BY <2>1, <2>2, RestartsAssumption DEF RestInv
<1>9. CASE UNCHANGED vars
    BY <1>9, OthersRest DEF vars
<1> QED
    BY <1>1, <1>2, <1>3, <1>4, <1>5, <1>6, <1>7, <1>8, <1>9 DEF Next

\* The service keeps its types: no deadline of a job is passed, entries and
\* pages are those of actions, at most one refresh loop runs however often the
\* app is enabled, for any jobs, files, paths, requests and restarts.
THEOREM TypeCorrect == Spec => []TypeOK
<1>1. IInv /\ InfoInv /\ RestInv => TypeOK
    BY DEF IInv, InfoInv, RestInv, TypeOK
<1> QED
    BY <1>1, InitIInv, NextIInv, InitInfo, NextInfo, InitRest, NextRest, PTL DEF Spec
=============================================================================
