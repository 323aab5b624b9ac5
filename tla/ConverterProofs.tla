-------------------------- MODULE ConverterProofs --------------------------
(***************************************************************************)
(* Theorems about Converter, for any finite set of jobs with any sources,  *)
(* names and owners, any settings and any number of edits and restarts.    *)
(***************************************************************************)
EXTENDS Converter, FiniteSetTheorems, TLAPS

\* The theorems about JobGate, to be used for the gate of the conversions.
GateProofs == INSTANCE JobGateProofs

-----------------------------------------------------------------------------
(***************************************************************************)
(* The inductive invariant.                                                *)
(***************************************************************************)
Working == {"accepted", "acquire"} \union Stages
Holding == Waits \union Stages \union {"unwind", "release"}

\* Where a job is says what it has of the gate.
SlotKnown(j) ==
    /\ Gate!Held(j) <=> pc[j] \in Holding
    /\ pc[j] \in {"admitted", "accepted"} => call[j] = "held"
    /\ pc[j] = "acquire" => call[j] \in Gate!Acquiring \union {"ok", "err"}
    /\ pc[j] \in Stages => call[j] = "ok"
    /\ call[j] \in Gate!Acquiring => pc[j] = "acquire"
    /\ call[j] = "ok" => j \in active

\* And what its task says: nothing final before the deferred function unless
\* it is cancelled, something final from then on.  Without NEXTCLOUD_URL no
\* job gets as far as asking for its slot, and none tells its owner.
TaskTold(j) ==
    /\ pc[j] \in {"idle", "admitted", "refused", "lost"} => ~Store!Stored(j)
    /\ pc[j] \in Working \union Deferred => Store!Stored(j)
    /\ ~configured => pc[j] \notin {"acquire"} \union Stages
    /\ pc[j] = "ended" => (notice[j] # "none" <=> configured)
    /\ Store!Stored(j) =>
           /\ ~configured => task[j].status # "done"
           /\ task[j].cancelled =>
                  task[j].status = "error" /\ task[j].error = "cancelled" /\ ~Live(j)
           /\ pc[j] \in Working =>
                  task[j].cancel /\ (~task[j].cancelled => task[j].status \notin Store!Terminal)
           /\ pc[j] \notin Working => task[j].status \in Store!Terminal
           /\ pc[j] = "ended" /\ configured => notice[j] = task[j].status

\* A path holds what a user has put there so far, or what a job, one of whose
\* names it is, made of such a file.
UserVersions == {Dav!UserFile(n) : n \in 0..edits}
Saves(j, p) == \E i \in 1..Len(NamesOf[j]) : NamesOf[j][i] = p

FileMade(p) ==
    \/ files[p] = Absent
    \/ files[p] \in UserVersions
    \/ \E j \in Jobs, c \in Contents : Saves(j, p) /\ files[p] = Dav!Output(j, c)

\* A request on its way saves a conversion under a name of the job, or removes
\* a source of which a conversion by the job is stored, in that version.  It
\* may have been sent by a worker, or a process, that is no more.
RequestMade(j) ==
    \/ wire[j] = NoRequest
    \/ \E p \in Paths, c \in Contents :
           Saves(j, p) /\ wire[j] = Dav!Put(p, Dav!Output(j, c))
    \/ /\ j \in DeleteOriginal
       /\ \E c \in Contents, q \in Paths :
              wire[j] = Dav!Delete(SourceOf[j], c) /\ files[q] = Dav!Output(j, c)

\* What a worker knows of the files, place by place.
Converting == {"probe", "encode", "encoding", "verify", "put", "putting", "delete", "deleting"}
Name(j) == NamesOf[j][attempt[j]]
Conversion(j) == Dav!Output(j, original[j])

WorkerKnows(j) ==
    /\ original[j] \in UserVersions \union {Absent}
    /\ pc[j] \in Converting \/ Store!Done(j) => original[j] # Absent
    /\ pc[j] \in {"put", "putting"} => attempt[j] # 0
    /\ pc[j] = "putting" =>
           /\ wire[j] \in {NoRequest, Dav!Put(Name(j), Conversion(j))}
           /\ answer[j] = "ok" => files[Name(j)] = Conversion(j)
    /\ pc[j] \in {"delete", "deleting"} =>
           /\ j \in DeleteOriginal
           /\ saved[j] \in Paths
           /\ files[saved[j]] = Conversion(j)
    /\ pc[j] = "deleting" =>
           /\ wire[j] \in {NoRequest, Dav!Delete(SourceOf[j], original[j])}
           /\ answer[j] \in {"ok", "missing"} => files[SourceOf[j]] # original[j]

GateInv == GateProofs!IInv /\ Gate!TypeOK
SlotsKnown == \A j \in Jobs : SlotKnown(j)
TasksTold == \A j \in Jobs : TaskTold(j)
FilesMade == \A p \in Paths : FileMade(p)
RequestsMade == \A j \in Jobs : RequestMade(j)
WorkersKnow == \A j \in Jobs : WorkerKnows(j)

IInv ==
    /\ TypeOK /\ GateInv
    /\ SlotsKnown /\ TasksTold
    /\ FilesMade /\ RequestsMade /\ WorkersKnow /\ DoneMeansSaved

-----------------------------------------------------------------------------
(***************************************************************************)
(* The gate of the conversions is a JobGate.                               *)
(***************************************************************************)

\* GateProofs has definitions of its own, which say the same.
LEMMA SameGateInit == Gate!Init <=> GateProofs!Init
BY DEF Gate!Init, GateProofs!Init

LEMMA SameReserve ==
    ASSUME NEW j \in Jobs, NEW s \in Settings
    PROVE  Gate!Reserve(j, s) <=> GateProofs!Reserve(j, s)
<1>1. Gate!Free(j) <=> GateProofs!Free(j)
  BY DEF Gate!Free, GateProofs!Free, Gate!Held, GateProofs!Held,
         Gate!Acquiring, GateProofs!Acquiring
<1>2. Gate!CanRun(s, UserOf[j]) <=> GateProofs!CanRun(s, UserOf[j])
  BY DEF Gate!CanRun, GateProofs!CanRun
<1>3. QED
  BY <1>1, <1>2
     DEF Gate!Reserve, Gate!ReserveSlot, Gate!ReserveQueued, Gate!ReserveRefused,
         GateProofs!Reserve, GateProofs!ReserveSlot, GateProofs!ReserveQueued,
         GateProofs!ReserveRefused, Gate!Increment, GateProofs!Increment

LEMMA SameAcquire ==
    ASSUME NEW j \in Jobs
    PROVE  /\ Gate!AcquireStart(j) <=> GateProofs!AcquireStart(j)
           /\ Gate!AcquireCheck(j) <=> GateProofs!AcquireCheck(j)
           /\ Gate!AcquireLock(j) <=> GateProofs!AcquireLock(j)
           /\ Gate!AcquireTick(j) <=> GateProofs!AcquireTick(j)
           /\ Gate!AcquireDone(j) <=> GateProofs!AcquireDone(j)
<1>1. Gate!CanRun(settings[j], UserOf[j]) <=> GateProofs!CanRun(settings[j], UserOf[j])
  BY DEF Gate!CanRun, GateProofs!CanRun
<1>2. Gate!AcquireLock(j) <=> GateProofs!AcquireLock(j)
  BY <1>1
     DEF Gate!AcquireLock, Gate!AcquireReleased, Gate!AcquireActive, Gate!AcquirePromote,
         Gate!AcquireBlocked, GateProofs!AcquireLock, GateProofs!AcquireReleased,
         GateProofs!AcquireActive, GateProofs!AcquirePromote, GateProofs!AcquireBlocked,
         Gate!Increment, GateProofs!Increment, Gate!Decrement, GateProofs!Decrement,
         Gate!gateVars, GateProofs!gateVars
<1>3. QED
  BY <1>2
     DEF Gate!AcquireStart, Gate!AcquireCheck, Gate!AcquireTick, Gate!AcquireDone,
         GateProofs!AcquireStart, GateProofs!AcquireCheck, GateProofs!AcquireTick,
         GateProofs!AcquireDone, Gate!gateVars, GateProofs!gateVars

LEMMA SameRelease ==
    ASSUME NEW j \in Jobs
    PROVE  /\ Gate!Release(j) <=> GateProofs!Release(j)
           /\ \A why \in EndReasons : Gate!EndContext(j, why) <=> GateProofs!EndContext(j, why)
<1>1. Gate!Held(j) <=> GateProofs!Held(j)
  BY DEF Gate!Held, GateProofs!Held
<1>2. Gate!Release(j) <=> GateProofs!Release(j)
  BY <1>1 DEF Gate!Release, GateProofs!Release, Gate!Decrement, GateProofs!Decrement
<1>3. QED
  BY <1>1, <1>2
     DEF Gate!EndContext, GateProofs!EndContext, Gate!Free, GateProofs!Free,
         Gate!Acquiring, GateProofs!Acquiring, Gate!gateVars, GateProofs!gateVars

LEMMA SameGateStep ==
    [Gate!Next]_(Gate!vars) => [GateProofs!Next]_(GateProofs!vars)
<1>1. ASSUME NEW j \in Jobs, Gate!JobStep(j) PROVE GateProofs!JobStep(j)
  BY <1>1, SameReserve, SameAcquire, SameRelease DEF Gate!JobStep, GateProofs!JobStep
<1>2. Gate!Restart => GateProofs!Restart
  BY DEF Gate!Restart, GateProofs!Restart
<1>3. UNCHANGED Gate!vars => UNCHANGED GateProofs!vars
  BY DEF Gate!vars, GateProofs!vars, Gate!gateVars, GateProofs!gateVars
<1>4. QED
  BY <1>1, <1>2, <1>3 DEF Gate!Next, GateProofs!Next

LEMMA SameGateType == Gate!TypeOK <=> GateProofs!TypeOK
BY DEF Gate!TypeOK, GateProofs!TypeOK, Gate!Calls, GateProofs!Calls, Gate!Acquiring,
       GateProofs!Acquiring, Gate!CtxStates, GateProofs!CtxStates

\* What JobGateProofs shows of every JobGate therefore holds here.
LEMMA GateInvInit == Gate!Init => GateInv
<1>1. GateProofs!IsFiniteSet(Jobs) /\ "live" \notin EndReasons
  BY ConverterAssumption, GateAssumption DEF IsFiniteSet, GateProofs!IsFiniteSet
<1>2. GateProofs!Init => GateProofs!IInv
  BY <1>1, GateAssumption, GateProofs!IInvInit
<1>3. GateProofs!IInv => GateProofs!TypeOK
  BY DEF GateProofs!IInv
<1>4. QED
  BY <1>2, <1>3, SameGateInit, SameGateType DEF GateInv

LEMMA GateInvNext ==
    ASSUME GateInv, [Gate!Next]_(Gate!vars)
    PROVE  GateInv'
<1>1. GateProofs!IsFiniteSet(Jobs) /\ "live" \notin EndReasons
  BY ConverterAssumption, GateAssumption DEF IsFiniteSet, GateProofs!IsFiniteSet
<1>2. GateProofs!IInv'
  BY <1>1, GateAssumption, SameGateStep, GateProofs!IInvNext DEF GateInv
<1>3. GateProofs!TypeOK'
  BY <1>2 DEF GateProofs!IInv
<1>4. Gate!TypeOK'
  BY <1>3
     DEF Gate!TypeOK, GateProofs!TypeOK, Gate!Calls, GateProofs!Calls, Gate!Acquiring,
         GateProofs!Acquiring, Gate!CtxStates, GateProofs!CtxStates
<1>5. QED
  BY <1>2, <1>4 DEF GateInv

-----------------------------------------------------------------------------
(***************************************************************************)
(* Slots.                                                                  *)
(***************************************************************************)

\* A worker that leaves the gate alone goes on among the places that agree
\* with what it has of it.
LEMMA SlotMoves ==
    ASSUME IInv, NEW j \in Jobs, NEW l, Goto(j, l), UNCHANGED <<gateVars, call>>,
           \/ pc[j] = "admitted" /\ l = "accepted"
           \/ pc[j] = "acquire" /\ call[j] = "ok" /\ l \in Stages
           \/ pc[j] = "acquire" /\ call[j] = "err" /\ l = "unwind"
           \/ pc[j] = "accepted" /\ l = "unwind"
           \/ pc[j] \in Stages /\ l \in Stages \union {"unwind"}
           \/ pc[j] = "unwind" /\ l = "release"
           \/ pc[j] = "report" /\ l = "ended"
    PROVE  SlotsKnown'
<1>1. pc \in [Jobs -> Waits \union Stages \union Deferred \union Over]
  BY DEF IInv, TypeOK
<1>2. ASSUME NEW k \in Jobs PROVE Gate!Held(k)' <=> Gate!Held(k)
  BY DEF gateVars, Gate!Held
<1>3. SlotKnown(j)'
  BY <1>1, <1>2
     DEF IInv, SlotsKnown, SlotKnown, Goto, gateVars, Holding, Waits, Stages, Gate!Acquiring
<1>4. ASSUME NEW k \in Jobs \ {j} PROVE SlotKnown(k)'
  BY <1>1, <1>2 DEF IInv, SlotsKnown, SlotKnown, Goto, gateVars
<1>5. QED
  BY <1>3, <1>4 DEF SlotsKnown

\* Nothing of it changes when no worker moves and the gate stays as it is.
LEMMA SlotsStay ==
    ASSUME IInv, UNCHANGED <<gateVars, call, pc>>
    PROVE  SlotsKnown'
BY DEF IInv, SlotsKnown, SlotKnown, gateVars, Gate!Held

\* A step inside acquire.
LEMMA SlotsAcquire ==
    ASSUME IInv, NEW j \in Jobs, Acquire(j)
    PROVE  SlotsKnown'
<1>1. /\ pc' = pc /\ settings' = settings /\ released' = released
      /\ active' \in {active, active \union {j}}
      /\ \E c \in Gate!Acquiring \union {"ok", "err"} :
             /\ call' = [call EXCEPT ![j] = c]
             /\ c = "ok" => j \in active'
  BY DEF Acquire, Gate!AcquireCheck, Gate!AcquireLock, Gate!AcquireReleased,
         Gate!AcquireActive, Gate!AcquirePromote, Gate!AcquireBlocked, Gate!AcquireTick,
         Gate!AcquireDone, Gate!gateVars, Gate!Acquiring
<1>2. call \in [Jobs -> Gate!Calls]
  BY DEF IInv, GateInv, Gate!TypeOK
<1>3. pc[j] = "acquire"
  BY DEF Acquire
<1>4. QED
  BY <1>1, <1>2, <1>3
     DEF IInv, SlotsKnown, SlotKnown, Gate!Held, Gate!Acquiring, Stages

\* reserve and acquire are called, release is called, the process restarts.
LEMMA SlotsAdmit ==
    ASSUME IInv, NEW j \in Jobs, Admit(j)
    PROVE  SlotsKnown'
<1>1. PICK s \in Settings : Gate!Reserve(j, s)
  BY DEF Admit
<1>2. /\ released' = released \ {j}
      /\ active' \in {active \union {j}, active \ {j}}
      /\ \/ settings' = [settings EXCEPT ![j] = s] /\ call' = [call EXCEPT ![j] = "held"]
         \/ /\ settings' = [settings EXCEPT ![j] = NoSettings]
            /\ call' = [call EXCEPT ![j] = "refused"]
  BY <1>1 DEF Gate!Reserve, Gate!ReserveSlot, Gate!ReserveQueued, Gate!ReserveRefused
<1>3. /\ settings \in [Jobs -> Settings \union {NoSettings}]
      /\ call \in [Jobs -> Gate!Calls]
  BY DEF IInv, GateInv, Gate!TypeOK
<1>4. /\ pc \in [Jobs -> Waits \union Stages \union Deferred \union Over]
      /\ pc' = [pc EXCEPT ![j] = IF call'[j] = "held" THEN "admitted" ELSE "refused"]
  BY DEF IInv, TypeOK, Admit, Goto
<1>5. SlotKnown(j)'
  BY <1>2, <1>3, <1>4, GateAssumption
     DEF SlotKnown, Gate!Held, Holding, Waits, Stages, Gate!Acquiring
<1>6. ASSUME NEW k \in Jobs \ {j} PROVE SlotKnown(k)'
  <2>1. /\ pc'[k] = pc[k] /\ settings'[k] = settings[k] /\ call'[k] = call[k]
        /\ k \in active' <=> k \in active
        /\ k \in released' <=> k \in released
    BY <1>2, <1>3, <1>4
  <2>2. QED
    BY <2>1 DEF IInv, SlotsKnown, SlotKnown, Gate!Held
<1>7. QED
  BY <1>5, <1>6 DEF SlotsKnown

LEMMA SlotsBegin ==
    ASSUME IInv, NEW j \in Jobs, Begin(j)
    PROVE  SlotsKnown'
<1>1. /\ pc \in [Jobs -> Waits \union Stages \union Deferred \union Over]
      /\ call \in [Jobs -> Gate!Calls]
  BY DEF IInv, TypeOK, GateInv, Gate!TypeOK
<1>2. /\ pc[j] = "accepted"
      /\ pc' = [pc EXCEPT ![j] = "acquire"]
      /\ call' = [call EXCEPT ![j] = "check"]
      /\ UNCHANGED <<settings, released, active>>
  BY DEF Begin, Goto, Gate!AcquireStart, Gate!gateVars
<1>3. QED
  BY <1>1, <1>2
     DEF IInv, SlotsKnown, SlotKnown, Gate!Held, Gate!Acquiring, Holding, Waits, Stages

LEMMA SlotsRelease ==
    ASSUME IInv, NEW j \in Jobs, ReleaseSlot(j)
    PROVE  SlotsKnown'
<1>1. pc \in [Jobs -> Waits \union Stages \union Deferred \union Over]
  BY DEF IInv, TypeOK
<1>2. /\ pc[j] = "release"
      /\ pc' = [pc EXCEPT ![j] = "report"]
      /\ released' = released \union {j}
      /\ UNCHANGED <<settings, active, call>>
  BY DEF ReleaseSlot, Goto, Gate!Release
<1>3. QED
  BY <1>1, <1>2
     DEF IInv, SlotsKnown, SlotKnown, Gate!Held, Gate!Acquiring, Holding, Waits, Stages

LEMMA SlotsRestart ==
    ASSUME IInv, Restart
    PROVE  SlotsKnown'
<1>1. /\ pc' = [j \in Jobs |-> IF Alive(j) THEN "lost" ELSE pc[j]]
      /\ settings' = [j \in Jobs |-> NoSettings]
      /\ call' = [j \in Jobs |-> "idle"]
  BY DEF Restart, Gate!Restart
<1>2. QED
  BY <1>1
     DEF SlotsKnown, SlotKnown, Gate!Held, Gate!Acquiring, Holding, Waits, Stages, Alive, Over

LEMMA SlotsWorker ==
    ASSUME IInv, NEW j \in Jobs, Worker(j)
    PROVE  SlotsKnown'
<1>1. CASE Begin(j) \/ Acquire(j) \/ ReleaseSlot(j)
  BY <1>1, SlotsBegin, SlotsAcquire, SlotsRelease
<1>2. CASE BeginUnconfigured(j) \/ AcquireFailed(j) \/ Start(j)
  BY <1>2, SlotMoves DEF BeginUnconfigured, AcquireFailed, Start, Fail, Stages
<1>3. CASE DownloadOk(j) \/ DownloadNoETag(j) \/ DownloadFailed(j) \/ ProbeOk(j) \/ ProbeFailed(j)
  BY <1>3, SlotMoves
     DEF DownloadOk, DownloadNoETag, DownloadFailed, ProbeOk, ProbeFailed, Fail, FailRequest,
         Stages
<1>4. CASE EncodeProgress(j)
  BY <1>4, SlotsStay DEF EncodeProgress
<1>5. CASE EncodeStart(j) \/ EncodeOk(j) \/ EncodeFailed(j) \/ VerifyOk(j) \/ VerifyFailed(j)
  BY <1>5, SlotMoves
     DEF EncodeStart, EncodeOk, EncodeFailed, VerifyOk, VerifyFailed, Fail, Stages
<1>6. CASE PutSend(j) \/ PutSaved(j) \/ PutTaken(j) \/ PutFailed(j)
  BY <1>6, SlotMoves DEF PutSend, PutSaved, PutTaken, PutFailed, Fail, FailRequest, Stages
<1>7. CASE DeleteSend(j) \/ Deleted(j) \/ DeleteFailed(j)
  BY <1>7, SlotMoves DEF DeleteSend, Deleted, DeleteFailed, Fail, Stages
<1>8. CASE Unwind(j) \/ Report(j)
  BY <1>8, SlotMoves DEF Unwind, Report
<1>9. QED
  BY <1>1, <1>2, <1>3, <1>4, <1>5, <1>6, <1>7, <1>8 DEF Worker

LEMMA SlotsNext ==
    ASSUME IInv, [Next]_vars
    PROVE  SlotsKnown'
<1>1. ASSUME NEW j \in Jobs, Admit(j) \/ Accept(j) \/ Worker(j) PROVE SlotsKnown'
  BY <1>1, SlotsAdmit, SlotsWorker, SlotMoves DEF Accept
<1>2. ASSUME NEW j \in Jobs,
             Cancel(j) \/ Deadline(j) \/ Shutdown(j) \/ PruneTask(j) \/ Serve(j)
      PROVE  SlotsKnown'
  BY <1>2, SlotsStay
     DEF Cancel, Deadline, Shutdown, PruneTask, Serve, Gate!EndContext, Gate!gateVars, gateVars
<1>3. CASE UserEdit \/ Quiet \/ UNCHANGED vars
  BY <1>3, SlotsStay DEF UserEdit, Quiet, vars
<1>4. QED
  BY <1>1, <1>2, <1>3, SlotsRestart DEF Next

\* Every step of the conversions is a step of the gate or changes nothing of
\* it.  Two of them do not say so themselves: the worker that calls cancel()
\* in the deferred function, and the cancel handler, whose task has a worker
\* that still holds its reservation.
LEMMA StepIsGateStep ==
    ASSUME IInv, [Next]_vars
    PROVE  [Gate!Next]_(Gate!vars)
<1> USE DEF Gate!Next, Gate!JobStep, Gate!vars, Gate!gateVars, gateVars
<1>1. ASSUME NEW j \in Jobs, Admit(j) PROVE Gate!Next
  BY <1>1 DEF Admit
<1>2. ASSUME NEW j \in Jobs, Worker(j) PROVE [Gate!Next]_(Gate!vars)
  <2>1. CASE Begin(j) \/ Acquire(j) \/ ReleaseSlot(j)
    BY <2>1 DEF Begin, Acquire, ReleaseSlot
  <2>2. CASE Unwind(j)
    <3>1. ~Gate!Free(j)
      BY <2>2 DEF Unwind, IInv, SlotsKnown, SlotKnown, Holding, Gate!Free
    <3>2. \/ UNCHANGED ctx
          \/ ctx[j] = "live" /\ ctx' = [ctx EXCEPT ![j] = "canceled"]
      BY <2>2 DEF Unwind, Live, IInv, GateInv, Gate!TypeOK
    <3>3. UNCHANGED Gate!vars \/ Gate!EndContext(j, "canceled")
      BY <2>2, <3>1, <3>2 DEF Unwind, Gate!EndContext
    <3>4. QED
      BY <3>3, ConverterAssumption
  <2>3. CASE UNCHANGED <<gateVars, call, ctx>>
    BY <2>3
  <2>4. QED
    BY <1>2, <2>1, <2>2, <2>3
       DEF Worker, BeginUnconfigured, AcquireFailed, Start, DownloadOk, DownloadNoETag,
           DownloadFailed, ProbeOk, ProbeFailed, EncodeStart, EncodeProgress, EncodeOk,
           EncodeFailed, VerifyOk, VerifyFailed, PutSend, PutSaved, PutTaken, PutFailed,
           DeleteSend, Deleted, DeleteFailed, Report
<1>3. ASSUME NEW j \in Jobs, Cancel(j) PROVE [Gate!Next]_(Gate!vars)
  <2>1. pc[j] \in Working
    BY <1>3 DEF Cancel, Store!Cancellable, IInv, TasksTold, TaskTold
  <2>2. ~Gate!Free(j)
    BY <2>1 DEF Working, IInv, SlotsKnown, SlotKnown, Holding, Waits, Gate!Free
  <2>3. \/ UNCHANGED ctx
        \/ ctx[j] = "live" /\ ctx' = [ctx EXCEPT ![j] = "canceled"]
    BY <1>3 DEF Cancel, Live, IInv, GateInv, Gate!TypeOK
  <2>4. UNCHANGED Gate!vars \/ Gate!EndContext(j, "canceled")
    BY <1>3, <2>2, <2>3 DEF Cancel, Gate!EndContext
  <2>5. QED
    BY <2>4, ConverterAssumption
<1>4. ASSUME NEW j \in Jobs, Deadline(j) \/ Shutdown(j) PROVE Gate!Next
  BY <1>4, ConverterAssumption DEF Deadline, Shutdown
<1>5. ASSUME NEW j \in Jobs, Accept(j) \/ PruneTask(j) \/ Serve(j) PROVE UNCHANGED Gate!vars
  BY <1>5 DEF Accept, PruneTask, Serve
<1>6. CASE UserEdit \/ Quiet \/ UNCHANGED vars
  BY <1>6 DEF UserEdit, Quiet, vars
<1>7. Restart => Gate!Next
  BY DEF Restart
<1>8. QED
  BY <1>1, <1>2, <1>3, <1>4, <1>5, <1>6, <1>7 DEF Next

-----------------------------------------------------------------------------
(***************************************************************************)
(* Tasks.                                                                  *)
(***************************************************************************)
TaskType == Store!Task(Paths) \union {NoTask}

\* What may become of one task in a step, the others staying as they are.
OneTask(j) ==
    /\ task' \in [Jobs -> TaskType]
    /\ \A k \in Jobs \ {j} : task'[k] = task[k]
    /\ Store!Stored(j)' <=> Store!Stored(j)

\* updateTask changes no task that is gone or cancelled.
LEMMA UpdateTaskEffect ==
    ASSUME IInv, NEW j \in Jobs, NEW t, Store!UpdateTask(j, t),
           Store!Stored(j) => t \in Store!Task(Paths)
    PROVE  /\ OneTask(j)
           /\ task'[j] = IF Store!Stored(j) /\ ~task[j].cancelled THEN t ELSE task[j]
<1>1. task \in [Jobs -> TaskType]
  BY DEF IInv, TypeOK, TaskType
<1>2. QED
  BY <1>1, TokensAssumption DEF Store!UpdateTask, Store!Stored, OneTask, TaskType

LEMMA TaskFields ==
    ASSUME IInv, NEW j \in Jobs, Store!Stored(j)
    PROVE  /\ task[j] \in Store!Task(Paths)
           /\ task[j].status \in Store!Statuses
           /\ task[j].error \in Store!Errors
           /\ task[j].output \in Paths \union {NoPath}
           /\ task[j].cancelled \in BOOLEAN
           /\ task[j].cancel \in BOOLEAN
<1>1. task[j] \in Store!Task(Paths)
  BY DEF IInv, TypeOK, Store!Stored
<1>2. QED
  BY <1>1 DEF Store!Task

LEMMA SetTaskStatusEffect ==
    ASSUME IInv, NEW j \in Jobs, NEW status \in Store!Statuses, Store!SetTaskStatus(j, status)
    PROVE  /\ OneTask(j)
           /\ Store!Stored(j) /\ ~task[j].cancelled =>
                  task'[j] = [task[j] EXCEPT !.status = status]
           /\ ~Store!Stored(j) \/ task[j].cancelled => task'[j] = task[j]
<1>1. Store!Stored(j) => [task[j] EXCEPT !.status = status] \in Store!Task(Paths)
  BY TaskFields DEF Store!Task
<1>2. QED
  BY <1>1, UpdateTaskEffect DEF Store!SetTaskStatus

LEMMA SetTaskErrorEffect ==
    ASSUME IInv, NEW j \in Jobs, NEW error \in Store!Errors, Store!SetTaskError(j, error)
    PROVE  /\ OneTask(j)
           /\ Store!Stored(j) /\ ~task[j].cancelled =>
                  task'[j] = [task[j] EXCEPT !.status = "error", !.error = error]
           /\ ~Store!Stored(j) \/ task[j].cancelled => task'[j] = task[j]
<1>1. Store!Stored(j) =>
          [task[j] EXCEPT !.status = "error", !.error = error] \in Store!Task(Paths)
  BY TaskFields DEF Store!Task, Store!Statuses
<1>2. QED
  BY <1>1, UpdateTaskEffect DEF Store!SetTaskError

LEMMA SetTaskDoneEffect ==
    ASSUME IInv, NEW j \in Jobs, NEW path \in Paths \union {NoPath}, Store!SetTaskDone(j, path)
    PROVE  /\ OneTask(j)
           /\ Store!Stored(j) /\ ~task[j].cancelled =>
                  task'[j] = [task[j] EXCEPT !.status = "done", !.output = path]
           /\ ~Store!Stored(j) \/ task[j].cancelled => task'[j] = task[j]
<1>1. Store!Stored(j) =>
          [task[j] EXCEPT !.status = "done", !.output = path] \in Store!Task(Paths)
  BY TaskFields DEF Store!Task, Store!Statuses
<1>2. QED
  BY <1>1, UpdateTaskEffect DEF Store!SetTaskDone

LEMMA MarkCancelledEffect ==
    ASSUME IInv, NEW j \in Jobs, Store!Stored(j), Store!MarkCancelled(j)
    PROVE  /\ OneTask(j)
           /\ task'[j] = [task[j] EXCEPT !.cancelled = TRUE, !.status = "error",
                                         !.error = "cancelled"]
<1>1. task \in [Jobs -> TaskType]
  BY DEF IInv, TypeOK, TaskType
<1>2. [task[j] EXCEPT !.cancelled = TRUE, !.status = "error", !.error = "cancelled"]
          \in Store!Task(Paths)
  BY TaskFields DEF Store!Task, Store!Statuses, Store!Errors
<1>3. task' = [task EXCEPT ![j] = [task[j] EXCEPT !.cancelled = TRUE, !.status = "error",
                                                  !.error = "cancelled"]]
  BY <1>1 DEF Store!MarkCancelled
<1>4. QED
  BY <1>1, <1>2, <1>3, TokensAssumption DEF OneTask, TaskType, Store!Stored

LEMMA DropCancelEffect ==
    ASSUME IInv, NEW j \in Jobs, Store!DropCancel(j)
    PROVE  /\ OneTask(j)
           /\ Store!Stored(j) => task'[j] = [task[j] EXCEPT !.cancel = FALSE]
<1>1. task \in [Jobs -> TaskType]
  BY DEF IInv, TypeOK, TaskType
<1>2. Store!Stored(j) => [task[j] EXCEPT !.cancel = FALSE] \in Store!Task(Paths)
  BY TaskFields DEF Store!Task
<1>3. task' = IF Store!Stored(j) THEN [task EXCEPT ![j] = [task[j] EXCEPT !.cancel = FALSE]]
                                 ELSE task
  BY <1>1 DEF Store!DropCancel
<1>4. QED
  BY <1>1, <1>2, <1>3, TokensAssumption DEF OneTask, TaskType, Store!Stored

\* VerdictStands, of one task in one step.
VerdictKept(j) ==
    Store!Stored(j) /\ Store!Stored(j)' =>
        /\ task[j].status = "done" \/ task[j].cancelled =>
               task'[j] = [task[j] EXCEPT !.cancel = task'[j].cancel]
        /\ task[j].status = "error" =>
               /\ task'[j].status = "error"
               /\ task'[j].error \in {task[j].error, "timeout"}

\* What each step has to do about the tasks.
TasksKept ==
    /\ task' \in [Jobs -> TaskType]
    /\ TasksTold'
    /\ \A j \in Jobs : VerdictKept(j)

LEMMA SameVerdict ==
    ASSUME IInv, NEW j \in Jobs, task'[j] = task[j]
    PROVE  VerdictKept(j)
<1>1. Store!Stored(j) => task[j] = [task[j] EXCEPT !.cancel = task[j].cancel]
  BY TaskFields DEF Store!Task
<1>2. QED
  BY <1>1 DEF VerdictKept

\* A step that concerns one job leaves the other tasks right.
LEMMA OthersKept ==
    ASSUME IInv, NEW j \in Jobs,
           OneTask(j) \/ UNCHANGED task,
           \A k \in Jobs \ {j} : /\ pc'[k] = pc[k]
                                 /\ ctx'[k] = ctx[k]
                                 /\ notice'[k] = notice[k],
           TaskTold(j)', VerdictKept(j), UNCHANGED configured
    PROVE  TasksKept
<1>1. \A k \in Jobs \ {j} : task'[k] = task[k]
  BY DEF OneTask
<1>2. task' \in [Jobs -> TaskType]
  BY DEF IInv, TypeOK, OneTask, TaskType
<1>3. ASSUME NEW k \in Jobs \ {j} PROVE TaskTold(k)'
  BY <1>1 DEF IInv, TasksTold, TaskTold, Store!Stored, Live
<1>4. ASSUME NEW k \in Jobs \ {j} PROVE VerdictKept(k)
  BY <1>1, SameVerdict
<1>5. QED
  BY <1>2, <1>3, <1>4 DEF TasksKept, TasksTold

\* Nobody who touches neither task nor worker nor context can make it wrong.
LEMMA TasksStay ==
    ASSUME IInv, UNCHANGED <<task, pc, ctx, notice, configured>>
    PROVE  TasksKept
<1>1. task' \in [Jobs -> TaskType]
  BY DEF IInv, TypeOK, TaskType
<1>2. TasksTold'
  BY DEF IInv, TasksTold, TaskTold, Store!Stored, Live
<1>3. QED
  BY <1>1, <1>2, SameVerdict DEF TasksKept

\* A worker goes on: it may show a stage, which is nothing final.
LEMMA TaskGoesOn ==
    ASSUME IInv, NEW j \in Jobs, NEW l \in Working,
           pc[j] \in Working, pc' \in {pc, [pc EXCEPT ![j] = l]},
           configured, UNCHANGED <<ctx, notice, configured>>,
           \/ UNCHANGED task
           \/ \E status \in Store!Statuses \ Store!Terminal : Store!SetTaskStatus(j, status)
    PROVE  TasksKept
<1>1. /\ OneTask(j) \/ UNCHANGED task
      /\ Store!Stored(j)' <=> Store!Stored(j)
      /\ \/ task'[j] = task[j]
         \/ /\ ~task[j].cancelled
            /\ \E status \in Store!Statuses \ Store!Terminal :
                   task'[j] = [task[j] EXCEPT !.status = status]
  BY SetTaskStatusEffect DEF OneTask, Store!Stored
<1>2. pc \in [Jobs -> Waits \union Stages \union Deferred \union Over]
  BY DEF IInv, TypeOK
<1>3. Store!Stored(j) /\ pc'[j] \in Working
  BY <1>2 DEF IInv, TasksTold, TaskTold
<1>4. TaskTold(j)
  BY DEF IInv, TasksTold
<1>5. TaskTold(j)' /\ VerdictKept(j)
  <2>1. CASE task'[j] = task[j]
    <3>1. TaskTold(j)'
      BY <1>1, <1>3, <1>4, <2>1 DEF TaskTold, Live, Working, Stages, Deferred
    <3>2. QED
      BY <2>1, <3>1, SameVerdict
  <2>2. ASSUME ~task[j].cancelled, NEW status \in Store!Statuses \ Store!Terminal,
               task'[j] = [task[j] EXCEPT !.status = status]
        PROVE  TaskTold(j)' /\ VerdictKept(j)
    <3>1. /\ task'[j].status = status /\ task'[j].cancelled = task[j].cancelled
          /\ task'[j].cancel = task[j].cancel
      BY <1>3, <2>2, TaskFields DEF Store!Task
    <3>2. task[j].status \notin Store!Terminal
      BY <1>4, <1>3, <2>2 DEF TaskTold
    <3>3. TaskTold(j)'
      BY <1>1, <1>3, <1>4, <2>2, <3>1 DEF TaskTold, Live, Working, Stages, Deferred
    <3>4. VerdictKept(j)
      BY <2>2, <3>2 DEF VerdictKept, Store!Terminal
    <3>5. QED
      BY <3>3, <3>4
  <2>3. QED
    BY <1>1, <2>1, <2>2
<1>6. \A k \in Jobs \ {j} : pc'[k] = pc[k] /\ ctx'[k] = ctx[k] /\ notice'[k] = notice[k]
  BY <1>2
<1>7. QED
  BY <1>1, <1>5, <1>6, OthersKept

\* A worker comes to its deferred function, with a success or an error; one
\* whose task is cancelled finds that it can say nothing any more.
LEMMA TaskEnds ==
    ASSUME IInv, NEW j \in Jobs,
           pc[j] \in Working, Goto(j, "unwind"),
           UNCHANGED <<ctx, notice, configured>>,
           \/ \E error \in Store!Errors : Store!SetTaskError(j, error)
           \/ configured /\ \E path \in Paths : Store!SetTaskDone(j, path)
    PROVE  TasksKept
<1>1. pc \in [Jobs -> Waits \union Stages \union Deferred \union Over]
  BY DEF IInv, TypeOK
<1>2. Store!Stored(j) /\ pc'[j] = "unwind" /\ TaskTold(j)
  BY <1>1 DEF IInv, TasksTold, TaskTold, Goto
<1>3. /\ OneTask(j)
      /\ task[j].cancelled => task'[j] = task[j]
      /\ ~task[j].cancelled =>
            /\ task'[j].status \in Store!Terminal
            /\ ~configured => task'[j].status # "done"
            /\ task'[j].cancelled = FALSE
  BY <1>2, SetTaskErrorEffect, SetTaskDoneEffect, TaskFields DEF Store!Task, Store!Terminal
<1>4. Store!Stored(j)'
  BY <1>2, <1>3 DEF OneTask
<1>5. TaskTold(j)'
  BY <1>2, <1>3, <1>4 DEF TaskTold, Live, Working, Stages, Deferred, Waits, Store!Terminal
<1>6. VerdictKept(j)
  <2>1. CASE task[j].cancelled
    BY <1>3, <2>1, SameVerdict
  <2>2. CASE ~task[j].cancelled
    BY <1>2, <2>2 DEF TaskTold, VerdictKept, Store!Terminal
  <2>3. QED
    BY <2>1, <2>2
<1>7. \A k \in Jobs \ {j} : pc'[k] = pc[k] /\ ctx'[k] = ctx[k] /\ notice'[k] = notice[k]
  BY <1>1 DEF Goto
<1>8. QED
  BY <1>3, <1>5, <1>6, <1>7, OthersKept

\* The name a worker uploads to.
LEMMA NameIsPath ==
    ASSUME IInv, NEW j \in Jobs, pc[j] \in {"put", "putting"}
    PROVE  /\ attempt[j] \in 1..Len(NamesOf[j])
           /\ Name(j) \in Paths
           /\ Saves(j, Name(j))
<1>1. attempt[j] \in 1..Len(NamesOf[j])
  BY DEF IInv, TypeOK, WorkersKnow, WorkerKnows
<1>2. NamesOf[j] \in Seq(Paths)
  BY ConverterAssumption
<1>3. QED
  BY <1>1, <1>2 DEF Name, Saves

LEMMA TasksWorker ==
    ASSUME IInv, NEW j \in Jobs, Worker(j)
    PROVE  TasksKept
<1> USE DEF Fail, FailRequest, Working, Stages, workVars, process
<1>0. pc[j] \in {"acquire"} \union Stages => configured
  BY DEF IInv, TasksTold, TaskTold
<1>1. CASE Begin(j)
  BY <1>1, TaskGoesOn DEF Begin, Gate!AcquireStart, Goto, Store!Statuses, Store!Terminal
<1>2. CASE BeginUnconfigured(j) \/ AcquireFailed(j)
  BY <1>2, TaskEnds DEF BeginUnconfigured, AcquireFailed, Store!Errors
<1>3. CASE Acquire(j)
  <2>1. ctx' = ctx
    BY <1>3 DEF Acquire, Gate!AcquireCheck, Gate!AcquireLock, Gate!AcquireReleased,
                Gate!AcquireActive, Gate!AcquirePromote, Gate!AcquireBlocked,
                Gate!AcquireTick, Gate!AcquireDone
  <2>2. QED
    BY <1>0, <1>3, <2>1, TaskGoesOn DEF Acquire
<1>4. CASE Start(j)
  BY <1>0, <1>4, TaskGoesOn DEF Start, Goto, Store!Statuses, Store!Terminal
<1>5. CASE DownloadOk(j)
  BY <1>0, <1>5, TaskGoesOn DEF DownloadOk, Goto
<1>6. CASE DownloadNoETag(j) \/ DownloadFailed(j) \/ ProbeFailed(j) \/ EncodeFailed(j)
           \/ VerifyFailed(j) \/ PutFailed(j) \/ DeleteFailed(j)
  BY <1>6, TaskEnds
     DEF DownloadNoETag, DownloadFailed, ProbeFailed, EncodeFailed, VerifyFailed, PutFailed,
         DeleteFailed, Store!Errors
<1>7. CASE ProbeOk(j) \/ EncodeProgress(j) \/ VerifyOk(j)
  BY <1>0, <1>7, TaskGoesOn
     DEF ProbeOk, EncodeProgress, VerifyOk, Goto, Store!Statuses, Store!Terminal
<1>8. CASE EncodeStart(j) \/ EncodeOk(j) \/ PutSend(j) \/ DeleteSend(j)
  BY <1>0, <1>8, TaskGoesOn DEF EncodeStart, EncodeOk, PutSend, DeleteSend, Goto
<1>9. CASE PutSaved(j)
  <2>1. saved' = [saved EXCEPT ![j] = Name(j)] /\ pc[j] = "putting"
    BY <1>9 DEF PutSaved, Name
  <2>2. saved'[j] \in Paths
    BY <2>1, NameIsPath DEF IInv, TypeOK
  <2>3. QED
    BY <1>0, <1>9, <2>2, TaskGoesOn, TaskEnds DEF PutSaved, Goto, Store!Statuses, Store!Terminal
<1>10. CASE PutTaken(j)
  BY <1>0, <1>10, TaskGoesOn, TaskEnds DEF PutTaken, Goto, Store!Errors
<1>11. CASE Deleted(j)
  <2>1. saved[j] \in Paths
    BY <1>11 DEF Deleted, IInv, WorkersKnow, WorkerKnows
  <2>2. QED
    BY <1>0, <1>11, <2>1, TaskEnds DEF Deleted
<1>12. CASE Unwind(j)
  <2>1. pc \in [Jobs -> Waits \union Stages \union Deferred \union Over]
    BY DEF IInv, TypeOK
  <2>2. /\ pc[j] = "unwind" /\ pc'[j] = "release"
        /\ Store!Stored(j) /\ TaskTold(j) /\ task[j].status \in Store!Terminal
    BY <1>12, <2>1 DEF Unwind, Goto, IInv, TasksTold, TaskTold, Waits, Deferred
  <2>3. /\ ~Live(j) => ctx'[j] = ctx[j]
        /\ ctx'[j] # "live"
        /\ \A k \in Jobs \ {j} : ctx'[k] = ctx[k]
    BY <1>12, ConverterAssumption DEF Unwind, Live, IInv, GateInv, Gate!TypeOK
  <2>4. /\ OneTask(j) \/ UNCHANGED task
        /\ \/ task'[j] = task[j]
           \/ /\ ~task[j].cancelled /\ task[j].status # "done"
              /\ task'[j] = [task[j] EXCEPT !.status = "error", !.error = "timeout"]
    BY <1>12, <2>2, SetTaskErrorEffect DEF Unwind, Store!Done, Store!Errors
  <2>5. Store!Stored(j)' /\ configured' = configured
    BY <1>12, <2>2, <2>4 DEF Unwind, OneTask, Store!Stored
  <2>6. TaskTold(j)'
    <3>1. /\ task'[j].status \in {task[j].status, "error"}
          /\ task'[j].cancelled = task[j].cancelled
          /\ task[j].cancelled => task'[j] = task[j]
      BY <2>2, <2>4, TaskFields DEF Store!Task
    <3>2. QED
      BY <2>2, <2>3, <2>5, <3>1 DEF TaskTold, Live, Waits, Deferred, Store!Terminal
  <2>7. VerdictKept(j)
    BY <2>2, <2>4, SameVerdict, TaskFields DEF VerdictKept, Store!Task
  <2>8. configured' = configured /\ \A k \in Jobs \ {j} : pc'[k] = pc[k] /\ notice'[k] = notice[k]
    BY <1>12, <2>1 DEF Unwind, Goto
  <2>9. QED
    BY <2>3, <2>4, <2>6, <2>7, <2>8, OthersKept
<1>13. CASE ReleaseSlot(j)
  <2>1. pc \in [Jobs -> Waits \union Stages \union Deferred \union Over]
    BY DEF IInv, TypeOK
  <2>2. /\ pc[j] = "release" /\ pc' = [pc EXCEPT ![j] = "report"]
        /\ UNCHANGED <<task, ctx, notice, configured>>
    BY <1>13 DEF ReleaseSlot, Goto, Gate!Release
  <2>3. TaskTold(j)'
    BY <2>1, <2>2
       DEF IInv, TasksTold, TaskTold, Store!Stored, Live, Waits, Deferred
  <2>4. QED
    BY <2>1, <2>2, <2>3, SameVerdict, OthersKept
<1>14. CASE Report(j)
  <2>1. pc \in [Jobs -> Waits \union Stages \union Deferred \union Over]
    BY DEF IInv, TypeOK
  <2>2. /\ pc[j] = "report" /\ pc'[j] = "ended"
        /\ Store!Stored(j) /\ TaskTold(j) /\ task[j].status \in Store!Terminal
    BY <1>14, <2>1 DEF Report, Goto, IInv, TasksTold, TaskTold, Waits, Deferred
  <2>3. OneTask(j) /\ task'[j] = [task[j] EXCEPT !.cancel = FALSE]
    BY <1>14, <2>2, DropCancelEffect DEF Report
  <2>4. notice' = [notice EXCEPT ![j] = IF configured THEN task[j].status ELSE "none"]
    BY <1>14, <2>2 DEF Report
  <2>5. /\ UNCHANGED <<ctx, configured>>
        /\ notice'[j] = IF configured THEN task[j].status ELSE "none"
        /\ \A k \in Jobs \ {j} : pc'[k] = pc[k] /\ notice'[k] = notice[k]
    BY <1>14, <2>1, <2>4 DEF Report, Goto, IInv, TypeOK
  <2>6. TaskTold(j)'
    BY <2>2, <2>3, <2>4, <2>5, TaskFields
       DEF TaskTold, OneTask, Live, Waits, Deferred, Store!Task, Store!Terminal
  <2>7. VerdictKept(j)
    BY <2>2, <2>3, TaskFields DEF VerdictKept, Store!Task
  <2>8. QED
    BY <2>3, <2>5, <2>6, <2>7, OthersKept
<1>15. QED
  BY <1>1, <1>2, <1>3, <1>4, <1>5, <1>6, <1>7, <1>8, <1>9, <1>10, <1>11, <1>12, <1>13, <1>14
     DEF Worker

LEMMA TasksAdmit ==
    ASSUME IInv, NEW j \in Jobs, Admit(j)
    PROVE  TasksKept
<1>1. /\ pc \in [Jobs -> Waits \union Stages \union Deferred \union Over]
      /\ ctx \in [Jobs -> Gate!CtxStates]
  BY DEF IInv, TypeOK, GateInv, Gate!TypeOK
<1>2. /\ pc[j] = "idle" /\ pc'[j] \in {"admitted", "refused"}
      /\ \A k \in Jobs \ {j} : pc'[k] = pc[k]
      /\ UNCHANGED <<task, notice, configured>>
  BY <1>1 DEF Admit, Goto, workVars, process
<1>3. \A k \in Jobs \ {j} : ctx'[k] = ctx[k]
  BY <1>1 DEF Admit, Gate!Reserve, Gate!ReserveSlot, Gate!ReserveQueued, Gate!ReserveRefused
<1>4. TaskTold(j)'
  BY <1>2 DEF IInv, TasksTold, TaskTold, Store!Stored, Working, Stages, Deferred
<1>5. QED
  BY <1>2, <1>3, <1>4, SameVerdict, OthersKept

\* A new task is queued, and its id was free.
LEMMA TasksAccept ==
    ASSUME IInv, NEW j \in Jobs, Accept(j)
    PROVE  TasksKept
<1> DEFINE new == [status |-> "queued", error |-> "none", output |-> NoPath,
                   cancelled |-> FALSE, cancel |-> TRUE]
<1>1. /\ pc \in [Jobs -> Waits \union Stages \union Deferred \union Over]
      /\ task \in [Jobs -> TaskType]
  BY DEF IInv, TypeOK, TaskType
<1>2. new \in Store!Task(Paths)
  BY DEF Store!Task, Store!Statuses, Store!Errors
<1>3. /\ pc[j] = "admitted" /\ pc' = [pc EXCEPT ![j] = "accepted"]
      /\ task' = [task EXCEPT ![j] = new]
      /\ UNCHANGED <<ctx, notice, configured>>
  BY DEF Accept, Goto, Store!NewTask, workVars, process
<1>4. ~Store!Stored(j) /\ Store!Stored(j)'
  BY <1>1, <1>2, <1>3, TokensAssumption DEF IInv, TasksTold, TaskTold, Store!Stored
<1>5. TaskTold(j)'
  BY <1>1, <1>3, <1>4 DEF TaskTold, Working, Stages, Deferred, Store!Terminal
<1>6. ASSUME NEW k \in Jobs \ {j} PROVE TaskTold(k)' /\ VerdictKept(k)
  BY <1>1, <1>3, SameVerdict DEF IInv, TasksTold, TaskTold, Store!Stored, Live
<1>7. VerdictKept(j)
  BY <1>4 DEF VerdictKept
<1>8. task' \in [Jobs -> TaskType]
  BY <1>1, <1>2, <1>3 DEF TaskType
<1>9. QED
  BY <1>5, <1>6, <1>7, <1>8 DEF TasksKept, TasksTold

\* The cancel handler reaches a working job only, and ends its context.
LEMMA TasksCancel ==
    ASSUME IInv, NEW j \in Jobs, Cancel(j)
    PROVE  TasksKept
<1>1. /\ Store!Stored(j) /\ ~task[j].cancelled /\ task[j].status \notin Store!Terminal
      /\ TaskTold(j)
  BY DEF Cancel, Store!Cancellable, IInv, TasksTold
<1>2. pc[j] \in Working /\ task[j].cancel
  BY <1>1 DEF TaskTold
<1>3. ctx'[j] # "live" /\ \A k \in Jobs \ {j} : ctx'[k] = ctx[k]
  BY <1>2 DEF Cancel, Live, IInv, GateInv, Gate!TypeOK
<1>4. /\ OneTask(j)
      /\ task'[j] = [task[j] EXCEPT !.cancelled = TRUE, !.status = "error",
                                    !.error = "cancelled"]
  BY <1>1, MarkCancelledEffect DEF Cancel
<1>5. UNCHANGED <<pc, notice, configured>>
  BY DEF Cancel, workVars, process
<1>6. TaskTold(j)'
  BY <1>1, <1>2, <1>3, <1>4, <1>5, TaskFields
     DEF TaskTold, OneTask, Live, Working, Stages, Store!Task, Store!Terminal
<1>7. VerdictKept(j)
  BY <1>1 DEF VerdictKept, Store!Terminal
<1>8. QED
  BY <1>3, <1>4, <1>5, <1>6, <1>7, OthersKept

\* The context of a job ends otherwise, which its task does not say at once.
LEMMA TasksContextEnds ==
    ASSUME IInv, NEW j \in Jobs, NEW why \in EndReasons, Gate!EndContext(j, why),
           UNCHANGED <<task, pc, notice, configured>>
    PROVE  TasksKept
<1>1. ctx'[j] # "live" /\ \A k \in Jobs \ {j} : ctx'[k] = ctx[k]
  BY ConverterAssumption DEF Gate!EndContext, IInv, GateInv, Gate!TypeOK
<1>2. TaskTold(j)'
  BY <1>1 DEF IInv, TasksTold, TaskTold, Store!Stored, Live
<1>3. QED
  BY <1>1, <1>2, SameVerdict, OthersKept

LEMMA TasksPrune ==
    ASSUME IInv, NEW j \in Jobs, PruneTask(j)
    PROVE  TasksKept
<1>1. task \in [Jobs -> TaskType]
  BY DEF IInv, TypeOK, TaskType
<1>2. /\ pc[j] = "ended" /\ task' = [task EXCEPT ![j] = NoTask]
      /\ UNCHANGED <<pc, ctx, notice, configured>>
  BY DEF PruneTask, Store!Prune, workVars, process
<1>3. TaskTold(j)' /\ VerdictKept(j)
  BY <1>1, <1>2
     DEF IInv, TasksTold, TaskTold, VerdictKept, Store!Stored, Working, Stages, Deferred
<1>4. ASSUME NEW k \in Jobs \ {j} PROVE TaskTold(k)' /\ VerdictKept(k)
  BY <1>1, <1>2, SameVerdict DEF IInv, TasksTold, TaskTold, Store!Stored, Live
<1>5. task' \in [Jobs -> TaskType]
  BY <1>1, <1>2 DEF TaskType
<1>6. QED
  BY <1>3, <1>4, <1>5 DEF TasksKept, TasksTold

LEMMA TasksRestart ==
    ASSUME IInv, Restart
    PROVE  TasksKept
<1>1. /\ task' = [j \in Jobs |-> NoTask]
      /\ pc' = [j \in Jobs |-> IF Alive(j) THEN "lost" ELSE pc[j]]
      /\ UNCHANGED <<notice, configured>>
  BY DEF Restart
<1>2. \A j \in Jobs : ~Store!Stored(j)' /\ VerdictKept(j)
  BY <1>1 DEF Store!Stored, VerdictKept
<1>3. ASSUME NEW j \in Jobs PROVE TaskTold(j)'
  BY <1>1, <1>2
     DEF IInv, TasksTold, TaskTold, Alive, Over, Working, Stages, Deferred
<1>4. task' \in [Jobs -> TaskType]
  BY <1>1 DEF TaskType
<1>5. QED
  BY <1>2, <1>3, <1>4 DEF TasksKept, TasksTold

LEMMA TasksNext ==
    ASSUME IInv, [Next]_vars
    PROVE  TasksKept
<1>1. ASSUME NEW j \in Jobs, Admit(j) \/ Accept(j) \/ Worker(j) PROVE TasksKept
  BY <1>1, TasksAdmit, TasksAccept, TasksWorker
<1>2. ASSUME NEW j \in Jobs, Cancel(j) \/ PruneTask(j) PROVE TasksKept
  BY <1>2, TasksCancel, TasksPrune
<1>3. ASSUME NEW j \in Jobs, Deadline(j) \/ Shutdown(j) PROVE TasksKept
  BY <1>3, TasksContextEnds, ConverterAssumption DEF Deadline, Shutdown, workVars, process
<1>4. ASSUME NEW j \in Jobs, Serve(j) PROVE TasksKept
  BY <1>4, TasksStay DEF Serve, workVars, process
<1>5. CASE UserEdit \/ Quiet \/ UNCHANGED vars
  BY <1>5, TasksStay DEF UserEdit, Quiet, vars, workVars, process
<1>6. QED
  BY <1>1, <1>2, <1>3, <1>4, <1>5, TasksRestart DEF Next

\* The context of a cancelled job has ended, and without a live one no PUT or
\* DELETE is sent and no encoder is started.
LEMMA CancelledStays ==
    ASSUME IInv, [Next]_vars, NEW j \in Jobs, Store!Stored(j), task[j].cancelled
    PROVE  /\ wire'[j] \in {wire[j], NoRequest}
           /\ pc'[j] \in {"encoding", "putting", "deleting"} => pc'[j] = pc[j]
<1> DEFINE Stopped == /\ wire'[j] \in {wire[j], NoRequest}
                      /\ pc'[j] \in {"encoding", "putting", "deleting"} => pc'[j] = pc[j]
<1>1. ~Live(j)
  BY DEF IInv, TasksTold, TaskTold
<1>2. /\ pc \in [Jobs -> Waits \union Stages \union Deferred \union Over]
      /\ wire \in [Jobs -> Requests \union {NoRequest}]
  BY DEF IInv, TypeOK
<1>3. ASSUME NEW k \in Jobs, NEW l, Goto(k, l), l \notin {"encoding", "putting", "deleting"},
             UNCHANGED wire
      PROVE  Stopped
  BY <1>2, <1>3 DEF Goto
<1>4. ASSUME UNCHANGED <<pc, wire>> PROVE Stopped
  BY <1>4
<1>5. ASSUME NEW k \in Jobs, Worker(k) PROVE Stopped
  <2> USE DEF Fail, FailRequest, davVars
  <2>1. CASE \/ Begin(k) \/ BeginUnconfigured(k) \/ AcquireFailed(k) \/ Start(k)
             \/ DownloadOk(k) \/ DownloadNoETag(k) \/ DownloadFailed(k)
    BY <2>1, <1>3
       DEF Begin, BeginUnconfigured, AcquireFailed, Start, DownloadOk, DownloadNoETag,
           DownloadFailed
  <2>2. CASE \/ ProbeOk(k) \/ ProbeFailed(k) \/ EncodeOk(k) \/ EncodeFailed(k)
             \/ VerifyOk(k) \/ VerifyFailed(k)
    BY <2>2, <1>3 DEF ProbeOk, ProbeFailed, EncodeOk, EncodeFailed, VerifyOk, VerifyFailed
  <2>3. CASE PutSaved(k) \/ PutTaken(k) \/ PutFailed(k) \/ Deleted(k) \/ DeleteFailed(k)
    BY <2>3, <1>3 DEF PutSaved, PutTaken, PutFailed, Deleted, DeleteFailed
  <2>4. CASE Unwind(k) \/ ReleaseSlot(k) \/ Report(k)
    BY <2>4, <1>3 DEF Unwind, ReleaseSlot, Report
  <2>5. CASE Acquire(k) \/ EncodeProgress(k)
    BY <2>5, <1>4 DEF Acquire, EncodeProgress
  <2>6. CASE EncodeStart(k)
    BY <2>6, <1>1, <1>2 DEF EncodeStart, Goto
  <2>7. CASE PutSend(k) \/ DeleteSend(k)
    BY <2>7, <1>1, <1>2 DEF PutSend, DeleteSend, Goto, Dav!Send
  <2>8. QED
    BY <1>5, <2>1, <2>2, <2>3, <2>4, <2>5, <2>6, <2>7 DEF Worker
<1>6. ASSUME NEW k \in Jobs, Admit(k) \/ Accept(k) PROVE Stopped
  BY <1>6, <1>3 DEF Admit, Accept, davVars
<1>7. ASSUME NEW k \in Jobs, Serve(k) PROVE Stopped
  BY <1>7, <1>2 DEF Serve, Dav!ServePut, Dav!ServeDelete, Dav!Refuse, Dav!Reply
<1>8. ASSUME NEW k \in Jobs, Cancel(k) \/ Deadline(k) \/ Shutdown(k) \/ PruneTask(k)
      PROVE  Stopped
  BY <1>8, <1>4 DEF Cancel, Deadline, Shutdown, PruneTask, davVars
<1>9. CASE UserEdit \/ Quiet \/ UNCHANGED vars
  BY <1>9, <1>4 DEF UserEdit, Dav!Edit, Quiet, vars, davVars
<1>10. CASE Restart
  BY <1>10 DEF Restart
<1>11. QED
  BY <1>5, <1>6, <1>7, <1>8, <1>9, <1>10 DEF Next

-----------------------------------------------------------------------------
(***************************************************************************)
(* Files.                                                                  *)
(***************************************************************************)

\* DoneMeansSaved, of one job.
DoneSaved(j) ==
    Store!Done(j) =>
        /\ task[j].output \in Paths
        /\ files[task[j].output] = Conversion(j)
        /\ j \in DeleteOriginal => files[SourceOf[j]] # original[j]

\* What each step has to do about the files.
FilesKept == FilesMade' /\ RequestsMade' /\ WorkersKnow' /\ DoneMeansSaved'

\* A task says "done" only because it said so before, except in the steps of
\* the worker that record it.
LEMMA DoneKept ==
    ASSUME IInv, TasksKept, NEW j \in Jobs,
           \/ task'[j] = task[j]
           \/ task'[j] = NoTask
           \/ pc'[j] \in Working
           \/ pc[j] \notin Working /\ Store!Stored(j)
           \/ \E error \in Store!Errors : Store!SetTaskError(j, error)
    PROVE  Store!Done(j)' => Store!Done(j) /\ task'[j].output = task[j].output
<1>1. CASE task'[j] = task[j] \/ task'[j] = NoTask
  BY <1>1 DEF Store!Done, Store!Stored
<1>2. CASE pc'[j] \in Working
  BY <1>2 DEF TasksKept, TasksTold, TaskTold, Store!Done, Store!Terminal
<1>3. CASE pc[j] \notin Working /\ Store!Stored(j)
  <2>1. task[j].status \in Store!Terminal /\ VerdictKept(j)
    BY <1>3 DEF IInv, TasksTold, TaskTold, TasksKept
  <2>2. QED
    BY <1>3, <2>1, TaskFields DEF VerdictKept, Store!Terminal, Store!Done, Store!Stored, Store!Task
<1>4. CASE \E error \in Store!Errors : Store!SetTaskError(j, error)
  BY <1>4, SetTaskErrorEffect, TaskFields
     DEF OneTask, Store!Done, Store!Stored, Store!Task, IInv, TasksTold, TaskTold
<1>5. QED
  BY <1>1, <1>2, <1>3, <1>4

\* Versions made by users are contents, and no output is one of them.
LEMMA VersionFacts ==
    ASSUME IInv
    PROVE  /\ edits \in 0..MaxEdits
           /\ UserVersions \subseteq Contents
           /\ Absent \notin UserVersions
           /\ \A j \in Jobs : \A c : Dav!Output(j, c) \notin Contents
           /\ \A j, k \in Jobs : \A c, d :
                  Dav!Output(j, c) = Dav!Output(k, d) => j = k /\ c = d
<1>1. edits \in 0..MaxEdits
  BY DEF IInv, TypeOK
<1>2. UserVersions \subseteq Contents
  BY <1>1, ConverterAssumption DEF UserVersions, Contents
<1>3. ASSUME NEW j \in Jobs, NEW c PROVE Dav!Output(j, c) \notin Contents
  <2>1. \A n : Dav!UserFile(n).maker = "user"
    BY DEF Dav!UserFile
  <2>2. Dav!Output(j, c).maker = j
    BY DEF Dav!Output
  <2>3. QED
    BY <2>1, <2>2, TokensAssumption DEF Contents
<1>4. ASSUME NEW j \in Jobs, NEW k \in Jobs, NEW c, NEW d, Dav!Output(j, c) = Dav!Output(k, d)
      PROVE  j = k /\ c = d
  <2>1. Dav!Output(j, c).maker = j /\ Dav!Output(j, c).of = c
    BY DEF Dav!Output
  <2>2. Dav!Output(k, d).maker = k /\ Dav!Output(k, d).of = d
    BY DEF Dav!Output
  <2>3. QED
    BY <1>4, <2>1, <2>2
<1>5. QED
  BY <1>1, <1>2, <1>3, <1>4, TokensAssumption

\* Where a job reads, only users have put anything.
LEMMA SourceIsUsers ==
    ASSUME IInv, NEW j \in Jobs
    PROVE  files[SourceOf[j]] \in UserVersions \union {Absent}
<1>1. SourceOf[j] \in Paths
  BY ConverterAssumption
<1>2. ASSUME NEW k \in Jobs PROVE ~Saves(k, SourceOf[j])
  BY SourcesAssumption DEF Saves
<1>3. FileMade(SourceOf[j])
  BY <1>1 DEF IInv, FilesMade
<1>4. QED
  BY <1>2, <1>3 DEF FileMade

\* A worker moves and the files and requests stay as they are.
LEMMA FilesSame ==
    ASSUME IInv, NEW j \in Jobs,
           UNCHANGED <<files, wire, edits>>,
           \A k \in Jobs \ {j} :
               /\ pc'[k] = pc[k] /\ answer'[k] = answer[k]
               /\ original'[k] = original[k] /\ attempt'[k] = attempt[k] /\ saved'[k] = saved[k]
               /\ Store!Done(k)' => Store!Done(k) /\ task'[k].output = task[k].output,
           WorkerKnows(j)', DoneSaved(j)'
    PROVE  FilesKept
<1>1. FilesMade' /\ RequestsMade'
  BY DEF IInv, FilesMade, FileMade, UserVersions, RequestsMade, RequestMade
<1>2. ASSUME NEW k \in Jobs \ {j} PROVE WorkerKnows(k)'
  BY DEF IInv, WorkersKnow, WorkerKnows, UserVersions, Name, Conversion
<1>3. ASSUME NEW k \in Jobs \ {j} PROVE DoneSaved(k)'
  BY DEF IInv, DoneMeansSaved, DoneSaved, Conversion
<1>4. DoneMeansSaved'
  BY <1>3 DEF DoneMeansSaved, DoneSaved, Conversion
<1>5. QED
  BY <1>1, <1>2, <1>4 DEF FilesKept, WorkersKnow

\* Of the tasks of the others nothing becomes "done".
LEMMA OthersDone ==
    ASSUME IInv, NEW j \in Jobs, OneTask(j) \/ UNCHANGED task, NEW k \in Jobs \ {j}
    PROVE  Store!Done(k)' => Store!Done(k) /\ task'[k].output = task[k].output
BY DEF OneTask, Store!Done, Store!Stored

\* A worker moves, and learns and forgets nothing.
LEMMA FilesMove ==
    ASSUME IInv, TasksKept, NEW j \in Jobs, NEW l,
           UNCHANGED davVars, UNCHANGED <<original, attempt, saved>>,
           pc' \in {pc, [pc EXCEPT ![j] = l]},
           OneTask(j) \/ UNCHANGED task,
           \/ task'[j] = task[j]
           \/ pc'[j] \in Working
           \/ pc[j] \notin Working /\ Store!Stored(j)
           \/ \E error \in Store!Errors : Store!SetTaskError(j, error),
           \/ l \notin Converting
           \/ pc[j] \in Converting /\ l \in {"encode", "encoding", "verify"}
           \/ pc' = pc
    PROVE  FilesKept
<1>1. pc \in [Jobs -> Waits \union Stages \union Deferred \union Over]
  BY DEF IInv, TypeOK
<1>2. Store!Done(j)' => Store!Done(j) /\ task'[j].output = task[j].output
  BY DoneKept
<1>3. DoneSaved(j)'
  BY <1>2 DEF IInv, DoneMeansSaved, DoneSaved, davVars, Conversion
<1>4. WorkerKnows(j)'
  BY <1>1, <1>2
     DEF IInv, WorkersKnow, WorkerKnows, UserVersions, Converting, davVars, Name, Conversion
<1>5. QED
  BY <1>1, <1>3, <1>4, OthersDone, FilesSame DEF davVars

\* The files change.  What conversions have saved stays, and what a user had
\* put somewhere does not come back: then everything known remains true.
LEMMA FilesChange ==
    ASSUME IInv, UNCHANGED <<task, pc, original, attempt, saved>>,
           edits' \in {edits, edits + 1}, FilesMade',
           \A p \in Paths : \/ files'[p] = files[p]
                            \/ /\ \A k \in Jobs, c \in Contents : files[p] # Dav!Output(k, c)
                               /\ files'[p] \notin UserVersions,
           \A k \in Jobs :
               /\ wire'[k] \in {wire[k], NoRequest}
               /\ pc[k] = "putting" /\ answer'[k] = "ok" => files'[Name(k)] = Conversion(k)
               /\ pc[k] = "deleting" /\ answer'[k] \in {"ok", "missing"} =>
                      files'[SourceOf[k]] # original[k]
    PROVE  FilesKept
<1>1. edits \in Nat /\ UserVersions \subseteq UserVersions'
  <2>1. edits \in Nat
    BY VersionFacts, ConverterAssumption
  <2>2. QED
    BY <2>1 DEF UserVersions
<1>2. \A p \in Paths, k \in Jobs, c \in Contents :
          files[p] = Dav!Output(k, c) => files'[p] = files[p]
  OBVIOUS
<1>3. RequestsMade'
  BY <1>2 DEF IInv, RequestsMade, RequestMade
<1>4. ASSUME NEW k \in Jobs PROVE WorkerKnows(k)'
  <2>1. original[k] # Absent => original[k] \in Contents
    BY VersionFacts DEF IInv, WorkersKnow, WorkerKnows
  <2>2. \A p \in Paths :
            original[k] # Absent /\ files[p] = Conversion(k) => files'[p] = Conversion(k)
    BY <1>2, <2>1 DEF Conversion
  <2>3. QED
    BY <1>1, <2>2
       DEF IInv, WorkersKnow, WorkerKnows, Store!Done, Store!Stored, Converting, Name, Conversion
<1>5. ASSUME NEW k \in Jobs, Store!Done(k)' PROVE DoneSaved(k)'
  <2>1. Store!Done(k) /\ DoneSaved(k)
    BY <1>5 DEF IInv, DoneMeansSaved, DoneSaved, Conversion, Store!Done, Store!Stored
  <2>2. original[k] \in UserVersions /\ original[k] \in Contents
    BY <2>1, VersionFacts DEF IInv, WorkersKnow, WorkerKnows
  <2>3. files'[task[k].output] = Conversion(k)
    BY <1>2, <2>1, <2>2 DEF DoneSaved, Conversion
  <2>4. k \in DeleteOriginal => files'[SourceOf[k]] # original[k]
    BY <2>1, <2>2, ConverterAssumption DEF DoneSaved
  <2>5. QED
    BY <2>1, <2>3, <2>4 DEF DoneSaved, Conversion, Store!Done, Store!Stored
<1>6. DoneMeansSaved'
  BY <1>5 DEF DoneMeansSaved, DoneSaved, Conversion
<1>7. QED
  BY <1>3, <1>4, <1>6 DEF FilesKept, WorkersKnow

LEMMA RequestFields ==
    /\ \A p, c : /\ Dav!Put(p, c).op = "put" /\ Dav!Put(p, c).path = p
                 /\ Dav!Put(p, c).content = c /\ Dav!Put(p, c).match = Absent
    /\ \A p, c : /\ Dav!Delete(p, c).op = "delete" /\ Dav!Delete(p, c).path = p
                 /\ Dav!Delete(p, c).match = c
BY DEF Dav!Put, Dav!Delete

\* What the server can do with a request of a job, and what it answers.
Refused(j, code) == files' = files /\ code \in {"precondition", "refused"}

Missing(j, code) ==
    /\ files' = files /\ code = "missing"
    /\ pc[j] = "deleting" => files[SourceOf[j]] = Absent

Saved(j, code) ==
    \E p \in Paths, c \in Contents :
        /\ Saves(j, p) /\ wire[j] = Dav!Put(p, Dav!Output(j, c))
        /\ files[p] = Absent
        /\ files' = [files EXCEPT ![p] = Dav!Output(j, c)]
        /\ code = "ok"

Removed(j, code) ==
    \E c \in Contents, q \in Paths :
        /\ j \in DeleteOriginal
        /\ wire[j] = Dav!Delete(SourceOf[j], c)
        /\ files[SourceOf[j]] = c
        /\ files[q] = Dav!Output(j, c)
        /\ files' = [files EXCEPT ![SourceOf[j]] = Absent]
        /\ code = "ok"

LEMMA ServeEffect ==
    ASSUME IInv, NEW j \in Jobs, Serve(j)
    PROVE  \E code :
               /\ Refused(j, code) \/ Missing(j, code) \/ Saved(j, code) \/ Removed(j, code)
               /\ wire' = [wire EXCEPT ![j] = NoRequest]
               /\ answer' = [answer EXCEPT ![j] = IF Listening(j) THEN code ELSE "none"]
               /\ UNCHANGED edits
<1> USE DEF Dav!Reply
<1>1. wire[j] # NoRequest
  BY DEF Serve, Dav!ServePut, Dav!ServeDelete, Dav!Refuse
<1>2. AnyVersion # Absent /\ AnyVersion \notin Contents /\ Absent \notin Contents
  BY TokensAssumption DEF FileStates
<1>3. CASE Dav!Refuse(j, Listening(j))
  BY <1>3 DEF Dav!Refuse, Refused
<1>4. CASE Dav!ServePut(j, Listening(j))
  <2>1. PICK p \in Paths, c \in Contents :
            Saves(j, p) /\ wire[j] = Dav!Put(p, Dav!Output(j, c))
    <3>1. wire[j].op = "put"
      BY <1>4 DEF Dav!ServePut
    <3>2. RequestMade(j)
      BY DEF IInv, RequestsMade
    <3>3. QED
      BY <1>1, <3>1, <3>2, RequestFields DEF RequestMade
  <2>2. /\ wire[j].path = p /\ wire[j].content = Dav!Output(j, c) /\ wire[j].match = Absent
    BY <2>1, RequestFields
  <2>3. CASE Dav!Matches(p, Absent)
    <3>1. files[p] = Absent
      BY <1>2, <2>3 DEF Dav!Matches
    <3>2. QED
      BY <1>4, <2>1, <2>2, <2>3, <3>1 DEF Dav!ServePut, Saved
  <2>4. CASE ~Dav!Matches(p, Absent)
    BY <1>4, <2>2, <2>4 DEF Dav!ServePut, Refused
  <2>5. QED
    BY <2>3, <2>4
<1>5. CASE Dav!ServeDelete(j, Listening(j))
  <2>1. /\ j \in DeleteOriginal
        /\ \E c \in Contents, q \in Paths :
               wire[j] = Dav!Delete(SourceOf[j], c) /\ files[q] = Dav!Output(j, c)
    <3>1. wire[j].op = "delete"
      BY <1>5 DEF Dav!ServeDelete
    <3>2. RequestMade(j)
      BY DEF IInv, RequestsMade
    <3>3. QED
      BY <1>1, <3>1, <3>2, RequestFields DEF RequestMade
  <2>2. PICK c \in Contents, q \in Paths :
            wire[j] = Dav!Delete(SourceOf[j], c) /\ files[q] = Dav!Output(j, c)
    BY <2>1
  <2>3. wire[j].path = SourceOf[j] /\ wire[j].match = c
    BY <2>2, RequestFields
  <2>4. Dav!Matches(SourceOf[j], c) => files[SourceOf[j]] = c
    BY <1>2 DEF Dav!Matches
  <2>5. \/ files[SourceOf[j]] = Absent /\ files' = files /\ Dav!Reply(j, "missing", Listening(j))
        \/ files' = files /\ Dav!Reply(j, "precondition", Listening(j))
        \/ /\ files[SourceOf[j]] = c
           /\ files' = [files EXCEPT ![SourceOf[j]] = Absent]
           /\ Dav!Reply(j, "ok", Listening(j))
    BY <1>5, <2>3, <2>4 DEF Dav!ServeDelete
  <2>6. QED
    BY <2>1, <2>2, <2>5 DEF Refused, Missing, Removed
<1>6. QED
  BY <1>3, <1>4, <1>5 DEF Serve

\* A request is executed, refused or lost.
LEMMA FilesServe ==
    ASSUME IInv, NEW j \in Jobs, Serve(j)
    PROVE  FilesKept
<1>1. PICK code :
          /\ Refused(j, code) \/ Missing(j, code) \/ Saved(j, code) \/ Removed(j, code)
          /\ wire' = [wire EXCEPT ![j] = NoRequest]
          /\ answer' = [answer EXCEPT ![j] = IF Listening(j) THEN code ELSE "none"]
          /\ UNCHANGED edits
  BY ServeEffect
<1>2. UNCHANGED <<task, pc, original, attempt, saved>>
  BY DEF Serve, workVars
<1>3. /\ files \in [Paths -> FileStates]
      /\ wire \in [Jobs -> Requests \union {NoRequest}]
      /\ answer \in [Jobs -> Dav!Answers]
  BY DEF IInv, TypeOK
<1>4. /\ \A k \in Jobs : wire'[k] \in {wire[k], NoRequest}
      /\ \A k \in Jobs \ {j} : answer'[k] = answer[k]
      /\ answer'[j] \in {"none", code}
  BY <1>1, <1>3
<1>5. \A p \in Paths : \/ files'[p] = files[p]
                       \/ /\ \A k \in Jobs, c \in Contents : files[p] # Dav!Output(k, c)
                          /\ files'[p] \notin UserVersions
  <2>1. CASE Refused(j, code) \/ Missing(j, code)
    BY <2>1 DEF Refused, Missing
  <2>2. CASE Saved(j, code)
    <3>1. PICK p \in Paths, c \in Contents :
              files[p] = Absent /\ files' = [files EXCEPT ![p] = Dav!Output(j, c)]
      BY <2>2 DEF Saved
    <3>2. /\ Dav!Output(j, c) \notin UserVersions
          /\ \A k \in Jobs, d \in Contents : Absent # Dav!Output(k, d)
      BY VersionFacts, TokensAssumption DEF Outputs
    <3>3. QED
      BY <1>3, <3>1, <3>2
  <2>3. CASE Removed(j, code)
    <3>1. /\ files[SourceOf[j]] \in Contents
          /\ files' = [files EXCEPT ![SourceOf[j]] = Absent]
      BY <2>3 DEF Removed
    <3>2. /\ Absent \notin UserVersions
          /\ \A k \in Jobs, d \in Contents : files[SourceOf[j]] # Dav!Output(k, d)
      BY <3>1, VersionFacts
    <3>3. QED
      BY <1>3, <3>1, <3>2
  <2>4. QED
    BY <1>1, <2>1, <2>2, <2>3
<1>6. FilesMade'
  <2>1. CASE Refused(j, code) \/ Missing(j, code)
    BY <1>1, <2>1 DEF Refused, Missing, IInv, FilesMade, FileMade, UserVersions
  <2>2. CASE Saved(j, code)
    BY <1>1, <1>3, <2>2 DEF Saved, IInv, FilesMade, FileMade, UserVersions
  <2>3. CASE Removed(j, code)
    BY <1>1, <1>3, <2>3 DEF Removed, IInv, FilesMade, FileMade, UserVersions
  <2>4. QED
    BY <1>1, <2>1, <2>2, <2>3
<1>7. ASSUME NEW k \in Jobs, pc[k] = "putting", answer'[k] = "ok"
      PROVE  files'[Name(k)] = Conversion(k)
  <2>1. Name(k) \in Paths /\ original[k] \in Contents
    BY <1>7, NameIsPath, VersionFacts DEF IInv, WorkersKnow, WorkerKnows, Converting
  <2>2. CASE answer[k] = "ok"
    <3>1. files[Name(k)] = Conversion(k)
      BY <1>7, <2>2 DEF IInv, WorkersKnow, WorkerKnows
    <3>2. QED
      BY <1>5, <2>1, <3>1 DEF Conversion
  <2>3. CASE k = j /\ code = "ok"
    <3>1. wire[j] \in {NoRequest, Dav!Put(Name(j), Conversion(j))}
      BY <1>7, <2>3 DEF IInv, WorkersKnow, WorkerKnows
    <3>2. wire[j] # NoRequest
      BY DEF Serve, Dav!ServePut, Dav!ServeDelete, Dav!Refuse
    <3>3. /\ wire[j].op = "put" /\ wire[j].path = Name(j) /\ wire[j].content = Conversion(j)
      BY <3>1, <3>2, RequestFields
    <3>4. ~Removed(j, code)
      BY <3>3, RequestFields DEF Removed
    <3>5. Saved(j, code)
      BY <1>1, <2>3, <3>4 DEF Refused, Missing
    <3>6. PICK p \in Paths, c \in Contents :
              /\ wire[j] = Dav!Put(p, Dav!Output(j, c))
              /\ files' = [files EXCEPT ![p] = Dav!Output(j, c)]
      BY <3>5 DEF Saved
    <3>7. p = Name(j) /\ Dav!Output(j, c) = Conversion(j)
      BY <3>3, <3>6, RequestFields
    <3>8. QED
      BY <1>3, <2>3, <3>6, <3>7
  <2>4. QED
    BY <1>4, <1>7, <2>2, <2>3
<1>8. ASSUME NEW k \in Jobs, pc[k] = "deleting", answer'[k] \in {"ok", "missing"}
      PROVE  files'[SourceOf[k]] # original[k]
  <2>1. SourceOf[k] \in Paths /\ original[k] \in UserVersions /\ original[k] # Absent
    BY <1>8, ConverterAssumption DEF IInv, WorkersKnow, WorkerKnows, Converting
  <2>2. CASE answer[k] \in {"ok", "missing"}
    <3>1. files[SourceOf[k]] # original[k]
      BY <1>8, <2>2 DEF IInv, WorkersKnow, WorkerKnows
    <3>2. QED
      BY <1>5, <2>1, <3>1
  <2>3. CASE k = j /\ code \in {"ok", "missing"}
    <3>1. wire[j] \in {NoRequest, Dav!Delete(SourceOf[j], original[j])}
      BY <1>8, <2>3 DEF IInv, WorkersKnow, WorkerKnows
    <3>2. wire[j] # NoRequest
      BY DEF Serve, Dav!ServePut, Dav!ServeDelete, Dav!Refuse
    <3>3. wire[j].op = "delete"
      BY <3>1, <3>2, RequestFields
    <3>4. ~Saved(j, code)
      BY <3>3, RequestFields DEF Saved
    <3>5. files'[SourceOf[j]] = Absent
      BY <1>1, <1>3, <1>8, <2>1, <2>3, <3>4 DEF Refused, Missing, Removed
    <3>6. QED
      BY <2>1, <2>3, <3>5
  <2>4. QED
    BY <1>4, <1>8, <2>2, <2>3
<1>9. QED
  BY <1>1, <1>2, <1>4, <1>5, <1>6, <1>7, <1>8, FilesChange

\* A user replaces, removes or creates a file.
LEMMA FilesEdit ==
    ASSUME IInv, UserEdit
    PROVE  FilesKept
<1>1. PICK p \in EditPaths, v \in {Dav!UserFile(edits + 1), Absent} :
          /\ files[p] # Absent => files[p].maker \notin Jobs
          /\ edits < MaxEdits /\ edits' = edits + 1
          /\ files' = [files EXCEPT ![p] = v]
          /\ UNCHANGED <<wire, answer>>
  BY DEF UserEdit, Dav!Edit
<1>2. /\ p \in Paths /\ edits \in Nat /\ MaxEdits \in Nat
      /\ files \in [Paths -> FileStates]
  BY ConverterAssumption, VersionFacts DEF IInv, TypeOK
<1>3. UNCHANGED <<task, pc, original, attempt, saved>>
  BY DEF UserEdit, workVars
<1>4. \A k \in Jobs, c \in Contents : files[p] # Dav!Output(k, c)
  <2>1. \A k \in Jobs, c \in Contents : Dav!Output(k, c).maker = k
    BY DEF Dav!Output
  <2>2. \A k \in Jobs, c \in Contents : Dav!Output(k, c) # Absent
    BY TokensAssumption DEF Outputs
  <2>3. QED
    BY <1>1, <2>1, <2>2
<1>5. v \notin UserVersions
  <2>1. \A n \in 0..edits : Dav!UserFile(n) # Dav!UserFile(edits + 1)
    <3>1. ASSUME NEW n \in 0..edits PROVE Dav!UserFile(n) # Dav!UserFile(edits + 1)
      <4>1. Dav!UserFile(n).of = n /\ Dav!UserFile(edits + 1).of = edits + 1
        BY DEF Dav!UserFile
      <4>2. QED
        BY <1>2, <4>1
    <3>2. QED
      BY <3>1
  <2>2. QED
    BY <1>1, <2>1, VersionFacts DEF UserVersions
<1>6. v \in UserVersions' \union {Absent} /\ UserVersions \subseteq UserVersions'
  BY <1>1, <1>2 DEF UserVersions
<1>7. FilesMade'
  BY <1>1, <1>2, <1>6 DEF IInv, FilesMade, FileMade
<1>8. ASSUME NEW k \in Jobs, pc[k] = "putting", answer'[k] = "ok"
      PROVE  files'[Name(k)] = Conversion(k)
  <2>1. /\ Name(k) \in Paths /\ original[k] \in Contents
        /\ files[Name(k)] = Conversion(k)
    BY <1>1, <1>8, NameIsPath, VersionFacts DEF IInv, WorkersKnow, WorkerKnows, Converting
  <2>2. QED
    BY <1>1, <1>2, <1>4, <2>1 DEF Conversion
<1>9. ASSUME NEW k \in Jobs, pc[k] = "deleting", answer'[k] \in {"ok", "missing"}
      PROVE  files'[SourceOf[k]] # original[k]
  <2>1. /\ SourceOf[k] \in Paths /\ original[k] \in UserVersions
        /\ files[SourceOf[k]] # original[k]
    BY <1>1, <1>9, ConverterAssumption DEF IInv, WorkersKnow, WorkerKnows, Converting
  <2>2. QED
    BY <1>1, <1>2, <1>5, <2>1
<1>10. QED
  BY <1>1, <1>2, <1>3, <1>4, <1>5, <1>7, <1>8, <1>9, FilesChange

\* A restart forgets what workers knew; files and requests stay.
LEMMA FilesRestart ==
    ASSUME IInv, Restart
    PROVE  FilesKept
<1>1. /\ UNCHANGED <<files, wire, edits>>
      /\ original' = [j \in Jobs |-> Absent]
      /\ pc' = [j \in Jobs |-> IF Alive(j) THEN "lost" ELSE pc[j]]
      /\ task' = [j \in Jobs |-> NoTask]
  BY DEF Restart
<1>2. FilesMade' /\ RequestsMade'
  BY <1>1 DEF IInv, FilesMade, FileMade, UserVersions, RequestsMade, RequestMade
<1>3. \A j \in Jobs : ~Store!Done(j)'
  BY <1>1 DEF Store!Done, Store!Stored
<1>4. WorkersKnow'
  BY <1>1, <1>3 DEF WorkersKnow, WorkerKnows, Converting, Alive, Over
<1>5. DoneMeansSaved'
  BY <1>3 DEF DoneMeansSaved
<1>6. QED
  BY <1>2, <1>4, <1>5 DEF FilesKept

\* The task of a conversion that is done names its output.
LEMMA DoneNames ==
    ASSUME IInv, NEW j \in Jobs, pc[j] \in Working,
           NEW path \in Paths, Store!SetTaskDone(j, path)
    PROVE  OneTask(j) /\ (Store!Done(j)' => task'[j].output = path)
<1>1. Store!Stored(j) /\ (task[j].cancelled => task[j].status = "error")
  BY DEF IInv, TasksTold, TaskTold
<1>2. CASE task[j].cancelled
  BY <1>1, <1>2, SetTaskDoneEffect DEF Store!Done
<1>3. CASE ~task[j].cancelled
  <2>1. [task[j] EXCEPT !.status = "done", !.output = path].output = path
    BY <1>1, TaskFields DEF Store!Task
  <2>2. QED
    BY <1>1, <1>3, <2>1, SetTaskDoneEffect
<1>4. QED
  BY <1>2, <1>3

\* The steps of a worker that learn something of the files.
LEMMA FilesDownload ==
    ASSUME IInv, TasksKept, NEW j \in Jobs, DownloadOk(j)
    PROVE  FilesKept
<1>1. /\ pc \in [Jobs -> Waits \union Stages \union Deferred \union Over]
      /\ original \in [Jobs -> Contents \union {Absent}]
  BY DEF IInv, TypeOK
<1>2. /\ pc[j] = "download" /\ pc' = [pc EXCEPT ![j] = "probe"]
      /\ original' = [original EXCEPT ![j] = files[SourceOf[j]]]
      /\ files[SourceOf[j]] # Absent
      /\ UNCHANGED <<task, davVars, attempt, saved>>
  BY DEF DownloadOk, Goto
<1>3. files[SourceOf[j]] \in UserVersions
  BY <1>2, SourceIsUsers
<1>4. ~Store!Done(j) /\ ~Store!Done(j)'
  BY <1>2 DEF IInv, TasksTold, TaskTold, Store!Done, Store!Stored, Store!Terminal, Working, Stages
<1>5. WorkerKnows(j)' /\ DoneSaved(j)'
  BY <1>1, <1>2, <1>3, <1>4 DEF WorkerKnows, DoneSaved, UserVersions, davVars
<1>6. QED
  BY <1>1, <1>2, <1>5, OthersDone, FilesSame DEF davVars

LEMMA FilesVerify ==
    ASSUME IInv, TasksKept, NEW j \in Jobs, VerifyOk(j)
    PROVE  FilesKept
<1>1. /\ pc \in [Jobs -> Waits \union Stages \union Deferred \union Over]
      /\ attempt \in [Jobs -> Nat]
  BY DEF IInv, TypeOK
<1>2. /\ pc[j] = "verify" /\ pc' = [pc EXCEPT ![j] = "put"]
      /\ attempt' = [attempt EXCEPT ![j] = 1]
      /\ Store!SetTaskStatus(j, "uploading")
      /\ UNCHANGED <<davVars, original, saved>>
  BY DEF VerifyOk, Goto
<1>3. OneTask(j)
  BY <1>2, SetTaskStatusEffect DEF Store!Statuses
<1>4. ~Store!Done(j)'
  BY <1>1, <1>2 DEF TasksKept, TasksTold, TaskTold, Store!Done, Store!Terminal, Working, Stages
<1>5. WorkerKnows(j)' /\ DoneSaved(j)'
  BY <1>1, <1>2, <1>4
     DEF IInv, WorkersKnow, WorkerKnows, DoneSaved, UserVersions, davVars, Converting
<1>6. QED
  BY <1>1, <1>2, <1>3, <1>5, OthersDone, FilesSame DEF davVars

\* A request is sent: what it says is what is known.
LEMMA FilesSend ==
    ASSUME IInv, NEW j \in Jobs, PutSend(j) \/ DeleteSend(j)
    PROVE  FilesKept
<1>1. /\ pc \in [Jobs -> Waits \union Stages \union Deferred \union Over]
      /\ wire \in [Jobs -> Requests \union {NoRequest}]
      /\ answer \in [Jobs -> Dav!Answers]
  BY DEF IInv, TypeOK
<1>2. UNCHANGED <<files, edits, task, original, attempt, saved>> /\ answer' = [answer EXCEPT ![j] = "none"]
  BY DEF PutSend, DeleteSend, Dav!Send, workVars
<1>3. original[j] \in Contents
  BY VersionFacts DEF PutSend, DeleteSend, IInv, WorkersKnow, WorkerKnows, Converting
<1>4. ~Store!Done(j) /\ ~Store!Done(j)'
  BY <1>2
     DEF PutSend, DeleteSend, IInv, TasksTold, TaskTold, Store!Done, Store!Stored,
         Store!Terminal, Working, Stages
<1>5. RequestMade(j)' /\ WorkerKnows(j)'
  <2>1. CASE PutSend(j)
    <3>1. /\ pc[j] = "put" /\ pc' = [pc EXCEPT ![j] = "putting"]
          /\ wire' = [wire EXCEPT ![j] = Dav!Put(Name(j), Conversion(j))]
      BY <2>1 DEF PutSend, Goto, Dav!Send, Name, Conversion
    <3>2. RequestMade(j)'
      BY <1>1, <1>3, <3>1, NameIsPath DEF RequestMade, Conversion
    <3>3. WorkerKnows(j)'
      BY <1>1, <1>2, <1>4, <3>1
         DEF IInv, WorkersKnow, WorkerKnows, UserVersions, Converting, Name, Conversion
    <3>4. QED
      BY <3>2, <3>3
  <2>2. CASE DeleteSend(j)
    <3>1. /\ pc[j] = "delete" /\ pc' = [pc EXCEPT ![j] = "deleting"]
          /\ wire' = [wire EXCEPT ![j] = Dav!Delete(SourceOf[j], original[j])]
      BY <2>2 DEF DeleteSend, Goto, Dav!Send
    <3>2. j \in DeleteOriginal /\ saved[j] \in Paths /\ files[saved[j]] = Conversion(j)
      BY <3>1 DEF IInv, WorkersKnow, WorkerKnows
    <3>3. RequestMade(j)'
      BY <1>1, <1>2, <1>3, <3>1, <3>2 DEF RequestMade, Conversion
    <3>4. WorkerKnows(j)'
      BY <1>1, <1>2, <1>4, <3>1, <3>2
         DEF IInv, WorkersKnow, WorkerKnows, UserVersions, Converting, Name, Conversion
    <3>5. QED
      BY <3>3, <3>4
  <2>3. QED
    BY <2>1, <2>2
<1>6. ASSUME NEW k \in Jobs \ {j} PROVE RequestMade(k)' /\ WorkerKnows(k)'
  <2>1. pc'[k] = pc[k] /\ wire'[k] = wire[k] /\ answer'[k] = answer[k]
    BY <1>1 DEF PutSend, DeleteSend, Goto, Dav!Send
  <2>2. RequestMade(k)'
    BY <1>2, <2>1 DEF IInv, RequestsMade, RequestMade
  <2>3. WorkerKnows(k)'
    BY <1>2, <2>1
       DEF IInv, WorkersKnow, WorkerKnows, UserVersions, Store!Done, Store!Stored, Name, Conversion
  <2>4. QED
    BY <2>2, <2>3
<1>7. FilesMade'
  BY <1>2 DEF IInv, FilesMade, FileMade, UserVersions
<1>8. DoneMeansSaved'
  BY <1>2 DEF IInv, DoneMeansSaved, Store!Done, Store!Stored
<1>9. QED
  BY <1>5, <1>6, <1>7, <1>8 DEF FilesKept, RequestsMade, WorkersKnow

\* The upload is answered: it is saved, and the original to be deleted next or
\* not, or the name is taken.
LEMMA FilesPutSaved ==
    ASSUME IInv, TasksKept, NEW j \in Jobs, PutSaved(j)
    PROVE  FilesKept
<1>1. /\ pc \in [Jobs -> Waits \union Stages \union Deferred \union Over]
      /\ saved \in [Jobs -> Paths \union {NoPath}]
  BY DEF IInv, TypeOK
<1>2. /\ pc[j] = "putting" /\ answer[j] = "ok"
      /\ saved' = [saved EXCEPT ![j] = Name(j)]
      /\ UNCHANGED <<davVars, original, attempt>>
  BY DEF PutSaved, Name
<1>3. /\ Name(j) \in Paths /\ saved'[j] = Name(j)
      /\ original[j] # Absent
      /\ files[Name(j)] = Conversion(j)
  BY <1>1, <1>2, NameIsPath DEF IInv, WorkersKnow, WorkerKnows, Converting
<1>4. CASE j \in DeleteOriginal
  <2>1. Store!SetTaskStatus(j, "finishing") /\ pc' = [pc EXCEPT ![j] = "delete"]
    BY <1>4 DEF PutSaved, Goto
  <2>2. OneTask(j)
    BY <2>1, SetTaskStatusEffect DEF Store!Statuses
  <2>3. ~Store!Done(j)'
    BY <1>1, <2>1
       DEF TasksKept, TasksTold, TaskTold, Store!Done, Store!Terminal, Working, Stages
  <2>4. WorkerKnows(j)' /\ DoneSaved(j)'
    BY <1>1, <1>2, <1>3, <1>4, <2>1, <2>3
       DEF IInv, WorkersKnow, WorkerKnows, DoneSaved, UserVersions, davVars, Conversion
  <2>5. QED
    BY <1>1, <1>2, <2>1, <2>2, <2>4, OthersDone, FilesSame DEF davVars
<1>5. CASE j \notin DeleteOriginal
  <2>1. Store!SetTaskDone(j, Name(j)) /\ pc' = [pc EXCEPT ![j] = "unwind"]
    BY <1>3, <1>5 DEF PutSaved, Goto
  <2>2. OneTask(j) /\ (Store!Done(j)' => task'[j].output = Name(j))
    BY <1>2, <1>3, <2>1, DoneNames DEF Working, Stages
  <2>3. WorkerKnows(j)' /\ DoneSaved(j)'
    BY <1>1, <1>2, <1>3, <1>5, <2>1, <2>2
       DEF IInv, WorkersKnow, WorkerKnows, DoneSaved, UserVersions, davVars, Converting, Conversion
  <2>4. QED
    BY <1>1, <1>2, <2>1, <2>2, <2>3, OthersDone, FilesSame DEF davVars
<1>6. QED
  BY <1>4, <1>5

LEMMA FilesPutTaken ==
    ASSUME IInv, TasksKept, NEW j \in Jobs, PutTaken(j)
    PROVE  FilesKept
<1>1. /\ pc \in [Jobs -> Waits \union Stages \union Deferred \union Over]
      /\ attempt \in [Jobs -> Nat]
  BY DEF IInv, TypeOK
<1>2. CASE attempt[j] < Len(NamesOf[j])
  <2>1. /\ pc[j] = "putting" /\ pc' = [pc EXCEPT ![j] = "put"]
        /\ attempt' = [attempt EXCEPT ![j] = attempt[j] + 1]
        /\ UNCHANGED <<task, davVars, original, saved>>
    BY <1>2 DEF PutTaken, Goto
  <2>2. attempt[j] \in 1..Len(NamesOf[j])
    BY <2>1, NameIsPath
  <2>3. Store!Done(j)' => Store!Done(j) /\ task'[j].output = task[j].output
    BY <2>1 DEF Store!Done, Store!Stored
  <2>4. WorkerKnows(j)' /\ DoneSaved(j)'
    BY <1>1, <2>1, <2>2, <2>3
       DEF IInv, WorkersKnow, WorkerKnows, DoneMeansSaved, DoneSaved, UserVersions, davVars,
           Converting, Conversion
  <2>5. QED
    BY <1>1, <2>1, <2>4, OthersDone, FilesSame DEF davVars
<1>3. CASE ~(attempt[j] < Len(NamesOf[j]))
  <2>1. /\ Store!SetTaskError(j, "failed") /\ pc' = [pc EXCEPT ![j] = "unwind"]
        /\ UNCHANGED <<davVars, original, attempt, saved>>
    BY <1>3 DEF PutTaken, Fail, Goto
  <2>2. QED
    BY <2>1, FilesMove, SetTaskErrorEffect DEF Store!Errors, Converting
<1>4. QED
  BY <1>2, <1>3

\* The deletion is answered: the version that was converted is gone.
LEMMA FilesDeleted ==
    ASSUME IInv, TasksKept, NEW j \in Jobs, Deleted(j)
    PROVE  FilesKept
<1>1. pc \in [Jobs -> Waits \union Stages \union Deferred \union Over]
  BY DEF IInv, TypeOK
<1>2. /\ pc[j] = "deleting" /\ answer[j] \in {"ok", "missing"}
      /\ pc' = [pc EXCEPT ![j] = "unwind"]
      /\ Store!SetTaskDone(j, saved[j])
      /\ UNCHANGED <<davVars, original, attempt, saved>>
  BY DEF Deleted, Goto, workVars
<1>3. /\ saved[j] \in Paths /\ files[saved[j]] = Conversion(j)
      /\ files[SourceOf[j]] # original[j] /\ original[j] # Absent
  BY <1>2 DEF IInv, WorkersKnow, WorkerKnows, Converting
<1>4. OneTask(j) /\ (Store!Done(j)' => task'[j].output = saved[j])
  BY <1>2, <1>3, DoneNames DEF Working, Stages
<1>5. WorkerKnows(j)' /\ DoneSaved(j)'
  BY <1>1, <1>2, <1>3, <1>4
     DEF IInv, WorkersKnow, WorkerKnows, DoneSaved, UserVersions, davVars, Converting, Conversion
<1>6. QED
  BY <1>1, <1>2, <1>4, <1>5, OthersDone, FilesSame DEF davVars

LEMMA FilesWorker ==
    ASSUME IInv, TasksKept, NEW j \in Jobs, Worker(j)
    PROVE  FilesKept
<1>1. CASE \/ DownloadOk(j) \/ VerifyOk(j) \/ PutSend(j) \/ PutSaved(j) \/ PutTaken(j)
           \/ DeleteSend(j) \/ Deleted(j)
  BY <1>1, FilesDownload, FilesVerify, FilesSend, FilesPutSaved, FilesPutTaken, FilesDeleted
<1>2. CASE Acquire(j) \/ EncodeProgress(j)
  <2>1. /\ UNCHANGED davVars /\ UNCHANGED <<original, attempt, saved>> /\ pc' = pc
        /\ OneTask(j) \/ UNCHANGED task
    BY <1>2, SetTaskStatusEffect DEF Acquire, EncodeProgress, workVars, Store!Statuses
  <2>2. task'[j] = task[j] \/ pc'[j] \in Working
    BY <1>2, <2>1 DEF Acquire, EncodeProgress, Working, Stages
  <2>3. QED
    BY <2>1, <2>2, FilesMove
<1>3. CASE Begin(j) \/ Start(j)
  <2>1. PICK l \in {"acquire", "download"} :
            /\ UNCHANGED davVars /\ UNCHANGED <<original, attempt, saved>>
            /\ pc' = [pc EXCEPT ![j] = l]
            /\ OneTask(j)
    BY <1>3, SetTaskStatusEffect DEF Begin, Start, Goto, workVars, Store!Statuses
  <2>2. pc'[j] \in Working
    BY <2>1 DEF IInv, TypeOK, Working, Stages
  <2>3. QED
    BY <2>1, <2>2, FilesMove DEF Converting
<1>4. CASE ProbeOk(j) \/ EncodeStart(j) \/ EncodeOk(j)
  <2>1. PICK l \in {"encode", "encoding", "verify"} :
            /\ UNCHANGED davVars /\ UNCHANGED <<original, attempt, saved>>
            /\ pc[j] \in Converting /\ pc' = [pc EXCEPT ![j] = l]
            /\ OneTask(j) \/ UNCHANGED task
    BY <1>4, SetTaskStatusEffect
       DEF ProbeOk, EncodeStart, EncodeOk, Goto, workVars, Store!Statuses, Converting
  <2>2. pc'[j] \in Working
    BY <2>1 DEF IInv, TypeOK, Working, Stages
  <2>3. QED
    BY <2>1, <2>2, FilesMove
<1>5. ASSUME NEW error \in Store!Errors, Fail(j, error), UNCHANGED <<davVars, workVars>>
      PROVE  FilesKept
  <2>1. /\ UNCHANGED davVars /\ UNCHANGED <<original, attempt, saved>>
        /\ pc' = [pc EXCEPT ![j] = "unwind"]
        /\ Store!SetTaskError(j, error) /\ OneTask(j)
    BY <1>5, SetTaskErrorEffect DEF Fail, Goto, workVars
  <2>2. QED
    BY <2>1, FilesMove DEF Converting
<1>6. CASE \/ BeginUnconfigured(j) \/ AcquireFailed(j) \/ DownloadNoETag(j)
           \/ DownloadFailed(j) \/ ProbeFailed(j) \/ EncodeFailed(j) \/ VerifyFailed(j)
           \/ PutFailed(j) \/ DeleteFailed(j)
  BY <1>5, <1>6
     DEF BeginUnconfigured, AcquireFailed, DownloadNoETag, DownloadFailed, ProbeFailed,
         EncodeFailed, VerifyFailed, PutFailed, DeleteFailed, FailRequest, Store!Errors
<1>7. CASE Unwind(j) \/ ReleaseSlot(j) \/ Report(j)
  <2>1. pc[j] \notin Working /\ Store!Stored(j)
    BY <1>7
       DEF Unwind, ReleaseSlot, Report, IInv, TasksTold, TaskTold, Working, Stages, Deferred
  <2>2. PICK l \in {"release", "report", "ended"} :
            /\ UNCHANGED davVars /\ UNCHANGED <<original, attempt, saved>>
            /\ pc' = [pc EXCEPT ![j] = l]
    BY <1>7 DEF Unwind, ReleaseSlot, Report, Goto, workVars
  <2>3. OneTask(j) \/ UNCHANGED task
    BY <1>7, SetTaskErrorEffect, DropCancelEffect DEF Unwind, ReleaseSlot, Report, Store!Errors
  <2>4. QED
    BY <2>1, <2>2, <2>3, FilesMove DEF Converting
<1>8. QED
  BY <1>1, <1>2, <1>3, <1>4, <1>6, <1>7 DEF Worker

LEMMA FilesNext ==
    ASSUME IInv, TasksKept, [Next]_vars
    PROVE  FilesKept
<1>1. ASSUME NEW j \in Jobs, Admit(j) PROVE FilesKept
  <2>1. PICK l \in {"admitted", "refused"} :
            /\ UNCHANGED davVars /\ UNCHANGED <<original, attempt, saved>>
            /\ pc' = [pc EXCEPT ![j] = l] /\ task' = task
    BY <1>1 DEF Admit, Goto, workVars
  <2>2. QED
    BY <2>1, FilesMove DEF Converting
<1>2. ASSUME NEW j \in Jobs, Accept(j) PROVE FilesKept
  <2>1. /\ UNCHANGED <<files, wire, answer, edits, original, attempt, saved>>
        /\ pc[j] = "admitted" /\ pc' = [pc EXCEPT ![j] = "accepted"]
        /\ \A k \in Jobs \ {j} : task'[k] = task[k]
        /\ pc \in [Jobs -> Waits \union Stages \union Deferred \union Over]
    BY <1>2 DEF Accept, Goto, davVars, workVars, Store!NewTask, IInv, TypeOK
  <2>2. ~Store!Done(j)'
    BY <2>1 DEF TasksKept, TasksTold, TaskTold, Store!Done, Store!Terminal, Working
  <2>3. WorkerKnows(j)' /\ DoneSaved(j)'
    BY <2>1, <2>2 DEF IInv, WorkersKnow, WorkerKnows, DoneSaved, UserVersions, Converting
  <2>4. \A k \in Jobs \ {j} :
            Store!Done(k)' => Store!Done(k) /\ task'[k].output = task[k].output
    BY <2>1 DEF Store!Done, Store!Stored
  <2>5. QED
    BY <2>1, <2>3, <2>4, FilesSame
<1>3. ASSUME NEW j \in Jobs, Cancel(j) PROVE FilesKept
  <2>1. pc' = pc /\ UNCHANGED davVars /\ UNCHANGED <<original, attempt, saved>>
    BY <1>3 DEF Cancel, workVars
  <2>2. pc'[j] \in Working
    BY <1>3, <2>1 DEF Cancel, Store!Cancellable, IInv, TasksTold, TaskTold
  <2>3. OneTask(j)
    BY <1>3, MarkCancelledEffect DEF Cancel, Store!Cancellable
  <2>4. QED
    BY <2>1, <2>2, <2>3, FilesMove
<1>4. ASSUME NEW j \in Jobs, PruneTask(j) PROVE FilesKept
  <2>1. /\ UNCHANGED <<pc, files, wire, answer, edits, original, attempt, saved>>
        /\ task' = [task EXCEPT ![j] = NoTask]
        /\ task \in [Jobs -> TaskType]
    BY <1>4 DEF PruneTask, Store!Prune, davVars, workVars, IInv, TypeOK, TaskType
  <2>2. \A k \in Jobs : Store!Done(k)' => Store!Done(k) /\ task'[k].output = task[k].output
    BY <2>1 DEF Store!Done, Store!Stored
  <2>3. WorkerKnows(j)' /\ DoneSaved(j)'
    BY <2>1, <2>2
       DEF IInv, WorkersKnow, WorkerKnows, DoneMeansSaved, DoneSaved, UserVersions, Name,
           Conversion
  <2>4. QED
    BY <2>1, <2>2, <2>3, FilesSame
<1>5. ASSUME UNCHANGED <<task, pc, davVars, workVars>> PROVE FilesKept
  <2>1. edits' = edits /\ FilesMade'
    BY <1>5 DEF IInv, FilesMade, FileMade, UserVersions, davVars
  <2>2. QED
    BY <1>5, <2>1, FilesChange DEF IInv, WorkersKnow, WorkerKnows, davVars, workVars
<1>6. ASSUME NEW j \in Jobs, Deadline(j) \/ Shutdown(j) PROVE FilesKept
  BY <1>5, <1>6 DEF Deadline, Shutdown
<1>7. CASE Quiet \/ UNCHANGED vars
  BY <1>5, <1>7 DEF Quiet, vars
<1>8. QED
  BY <1>1, <1>2, <1>3, <1>4, <1>6, <1>7, FilesWorker, FilesServe, FilesEdit, FilesRestart
     DEF Next

-----------------------------------------------------------------------------
(***************************************************************************)
(* Types.                                                                  *)
(***************************************************************************)
Places == Waits \union Stages \union Deferred \union Over

LEMMA PlacesTyped ==
    ASSUME IInv, [Next]_vars
    PROVE  pc' \in [Jobs -> Places]
<1>1. pc \in [Jobs -> Places]
  BY DEF IInv, TypeOK, Places
<1>2. ASSUME NEW j \in Jobs, NEW l \in Places, Goto(j, l) PROVE pc' \in [Jobs -> Places]
  BY <1>1, <1>2 DEF Goto
<1>3. ASSUME pc' = pc PROVE pc' \in [Jobs -> Places]
  BY <1>1, <1>3
<1>4. /\ \A l \in {"admitted", "accepted", "acquire", "refused", "ended"} : l \in Places
      /\ \A l \in Stages \union Deferred : l \in Places
  BY DEF Places, Waits, Over
<1>5. ASSUME NEW j \in Jobs, Worker(j) PROVE pc' \in [Jobs -> Places]
  <2> USE DEF Fail, FailRequest, Stages, Deferred
  <2>1. CASE \/ Begin(j) \/ BeginUnconfigured(j) \/ AcquireFailed(j) \/ Start(j)
             \/ DownloadOk(j) \/ DownloadNoETag(j) \/ DownloadFailed(j)
    BY <2>1, <1>2, <1>4
       DEF Begin, BeginUnconfigured, AcquireFailed, Start, DownloadOk, DownloadNoETag,
           DownloadFailed
  <2>2. CASE \/ ProbeOk(j) \/ ProbeFailed(j) \/ EncodeStart(j) \/ EncodeOk(j)
             \/ EncodeFailed(j) \/ VerifyOk(j) \/ VerifyFailed(j)
    BY <2>2, <1>2, <1>4
       DEF ProbeOk, ProbeFailed, EncodeStart, EncodeOk, EncodeFailed, VerifyOk, VerifyFailed
  <2>3. CASE \/ PutSend(j) \/ PutSaved(j) \/ PutTaken(j) \/ PutFailed(j)
             \/ DeleteSend(j) \/ Deleted(j) \/ DeleteFailed(j)
    BY <2>3, <1>2, <1>4
       DEF PutSend, PutSaved, PutTaken, PutFailed, DeleteSend, Deleted, DeleteFailed
  <2>4. CASE Unwind(j) \/ ReleaseSlot(j) \/ Report(j)
    BY <2>4, <1>2, <1>4 DEF Unwind, ReleaseSlot, Report
  <2>5. CASE Acquire(j) \/ EncodeProgress(j)
    BY <2>5, <1>3 DEF Acquire, EncodeProgress
  <2>6. QED
    BY <1>5, <2>1, <2>2, <2>3, <2>4, <2>5 DEF Worker
<1>6. ASSUME NEW j \in Jobs, Admit(j) \/ Accept(j) PROVE pc' \in [Jobs -> Places]
  BY <1>6, <1>2, <1>4 DEF Admit, Accept
<1>7. ASSUME NEW j \in Jobs,
             Cancel(j) \/ Deadline(j) \/ Shutdown(j) \/ PruneTask(j) \/ Serve(j)
      PROVE  pc' \in [Jobs -> Places]
  BY <1>7, <1>3 DEF Cancel, Deadline, Shutdown, PruneTask, Serve
<1>8. CASE UserEdit \/ Quiet \/ UNCHANGED vars
  BY <1>8, <1>3 DEF UserEdit, Quiet, vars
<1>9. CASE Restart
  <2>1. pc' = [j \in Jobs |-> IF Alive(j) THEN "lost" ELSE pc[j]]
    BY <1>9 DEF Restart
  <2>2. QED
    BY <1>1, <2>1 DEF Places, Over
<1>10. QED
  BY <1>5, <1>6, <1>7, <1>8, <1>9 DEF Next

\* The files and the requests on their way.
DavTyped ==
    /\ files' \in [Paths -> FileStates]
    /\ wire' \in [Jobs -> Requests \union {NoRequest}]
    /\ answer' \in [Jobs -> Dav!Answers]
    /\ edits' \in 0..MaxEdits

LEMMA DavNext ==
    ASSUME IInv, [Next]_vars
    PROVE  DavTyped
<1>1. /\ files \in [Paths -> FileStates]
      /\ wire \in [Jobs -> Requests \union {NoRequest}]
      /\ answer \in [Jobs -> Dav!Answers]
      /\ edits \in 0..MaxEdits
  BY DEF IInv, TypeOK
<1>2. ASSUME UNCHANGED davVars PROVE DavTyped
  BY <1>1, <1>2 DEF DavTyped, davVars
<1>3. ASSUME NEW j \in Jobs, NEW request \in Requests, Dav!Send(j, request) PROVE DavTyped
  BY <1>1, <1>3 DEF DavTyped, Dav!Send, Dav!Answers
<1>4. ASSUME NEW j \in Jobs, PutSend(j) PROVE DavTyped
  <2>1. pc[j] = "put" /\ Dav!Send(j, Dav!Put(Name(j), Conversion(j)))
    BY <1>4 DEF PutSend, Name, Conversion
  <2>2. Name(j) \in Paths /\ original[j] \in Contents
    BY <2>1, NameIsPath, VersionFacts DEF IInv, WorkersKnow, WorkerKnows, Converting
  <2>3. Dav!Put(Name(j), Conversion(j)) \in Requests
    BY <2>2 DEF Requests, Outputs, Conversion
  <2>4. QED
    BY <1>3, <2>1, <2>3
<1>5. ASSUME NEW j \in Jobs, DeleteSend(j) PROVE DavTyped
  <2>1. pc[j] = "delete" /\ Dav!Send(j, Dav!Delete(SourceOf[j], original[j]))
    BY <1>5 DEF DeleteSend
  <2>2. SourceOf[j] \in Paths /\ original[j] \in Contents
    BY <2>1, VersionFacts, ConverterAssumption DEF IInv, WorkersKnow, WorkerKnows, Converting
  <2>3. Dav!Delete(SourceOf[j], original[j]) \in Requests
    BY <2>2 DEF Requests
  <2>4. QED
    BY <1>3, <2>1, <2>3
<1>6. ASSUME NEW j \in Jobs, Worker(j) PROVE DavTyped
  BY <1>6, <1>2, <1>4, <1>5
     DEF Worker, Begin, BeginUnconfigured, Acquire, AcquireFailed, Start, DownloadOk,
         DownloadNoETag, DownloadFailed, ProbeOk, ProbeFailed, EncodeStart, EncodeProgress,
         EncodeOk, EncodeFailed, VerifyOk, VerifyFailed, PutSaved, PutTaken, PutFailed,
         Deleted, DeleteFailed, Unwind, ReleaseSlot, Report
<1>7. ASSUME NEW j \in Jobs, Serve(j) PROVE DavTyped
  <2>1. PICK code :
            /\ Refused(j, code) \/ Missing(j, code) \/ Saved(j, code) \/ Removed(j, code)
            /\ wire' = [wire EXCEPT ![j] = NoRequest]
            /\ answer' = [answer EXCEPT ![j] = IF Listening(j) THEN code ELSE "none"]
            /\ UNCHANGED edits
    BY <1>7, ServeEffect
  <2>2. code \in Dav!Answers
    BY <2>1 DEF Refused, Missing, Saved, Removed, Dav!Answers
  <2>3. files' \in [Paths -> FileStates]
    BY <1>1, <2>1 DEF Refused, Missing, Saved, Removed, FileStates, Outputs
  <2>4. QED
    BY <1>1, <2>1, <2>2, <2>3 DEF DavTyped, Dav!Answers
<1>8. CASE UserEdit
  <2>1. PICK p \in Paths : Dav!Edit(p)
    BY <1>8, ConverterAssumption DEF UserEdit
  <2>2. /\ edits < MaxEdits /\ edits' = edits + 1 /\ UNCHANGED <<wire, answer>>
        /\ \E c \in {Dav!UserFile(edits + 1), Absent} : files' = [files EXCEPT ![p] = c]
    BY <2>1 DEF Dav!Edit
  <2>3. edits' \in 0..MaxEdits /\ Dav!UserFile(edits + 1) \in Contents
    BY <1>1, <2>2, ConverterAssumption DEF Contents
  <2>4. files' \in [Paths -> FileStates]
    BY <1>1, <2>2, <2>3 DEF FileStates
  <2>5. QED
    BY <1>1, <2>2, <2>3, <2>4 DEF DavTyped
<1>9. CASE Restart
  BY <1>1, <1>9 DEF Restart, DavTyped, Dav!Answers
<1>10. ASSUME NEW j \in Jobs,
              Admit(j) \/ Accept(j) \/ Cancel(j) \/ Deadline(j) \/ Shutdown(j) \/ PruneTask(j)
       PROVE  DavTyped
  BY <1>10, <1>2 DEF Admit, Accept, Cancel, Deadline, Shutdown, PruneTask
<1>11. CASE Quiet \/ UNCHANGED vars
  BY <1>11, <1>2 DEF Quiet, vars
<1>12. QED
  BY <1>6, <1>7, <1>8, <1>9, <1>10, <1>11 DEF Next

\* What a worker remembers.
WorkTyped ==
    /\ original' \in [Jobs -> Contents \union {Absent}]
    /\ attempt' \in [Jobs -> Nat]
    /\ \A j \in Jobs : attempt'[j] <= Len(NamesOf[j])
    /\ saved' \in [Jobs -> Paths \union {NoPath}]
    /\ notice' \in [Jobs -> {"none"} \union Store!Terminal]

LEMMA WorkNext ==
    ASSUME IInv, [Next]_vars
    PROVE  WorkTyped
<1>1. /\ original \in [Jobs -> Contents \union {Absent}]
      /\ attempt \in [Jobs -> Nat]
      /\ \A j \in Jobs : attempt[j] <= Len(NamesOf[j])
      /\ saved \in [Jobs -> Paths \union {NoPath}]
      /\ notice \in [Jobs -> {"none"} \union Store!Terminal]
  BY DEF IInv, TypeOK
<1>2. \A j \in Jobs : Len(NamesOf[j]) \in Nat /\ Len(NamesOf[j]) > 0
  BY ConverterAssumption
<1>3. ASSUME UNCHANGED workVars PROVE WorkTyped
  BY <1>1, <1>3 DEF WorkTyped, workVars
<1>4. ASSUME NEW j \in Jobs, DownloadOk(j) PROVE WorkTyped
  <2>1. /\ original' = [original EXCEPT ![j] = files[SourceOf[j]]]
        /\ UNCHANGED <<attempt, saved, notice>>
    BY <1>4 DEF DownloadOk
  <2>2. files[SourceOf[j]] \in Contents \union {Absent}
    BY SourceIsUsers, VersionFacts
  <2>3. QED
    BY <1>1, <2>1, <2>2 DEF WorkTyped
<1>5. ASSUME NEW j \in Jobs, VerifyOk(j) \/ PutTaken(j) PROVE WorkTyped
  <2>1. UNCHANGED <<original, saved, notice>>
    BY <1>5 DEF VerifyOk, PutTaken
  <2>2. \/ UNCHANGED attempt
        \/ attempt' = [attempt EXCEPT ![j] = 1]
        \/ /\ attempt[j] < Len(NamesOf[j])
           /\ attempt' = [attempt EXCEPT ![j] = attempt[j] + 1]
    BY <1>5 DEF VerifyOk, PutTaken
  <2>3. \/ UNCHANGED attempt
        \/ \E n \in Nat : n <= Len(NamesOf[j]) /\ attempt' = [attempt EXCEPT ![j] = n]
    <3>1. attempt[j] \in Nat /\ Len(NamesOf[j]) \in Nat /\ Len(NamesOf[j]) > 0
      BY <1>1, <1>2
    <3>2. 1 \in Nat /\ 1 <= Len(NamesOf[j])
      BY <3>1
    <3>3. /\ attempt[j] + 1 \in Nat
          /\ (attempt[j] < Len(NamesOf[j]) => attempt[j] + 1 <= Len(NamesOf[j]))
      BY <3>1
    <3>4. QED
      BY <2>2, <3>2, <3>3
  <2>4. QED
    BY <1>1, <2>1, <2>3 DEF WorkTyped
<1>6. ASSUME NEW j \in Jobs, PutSaved(j) PROVE WorkTyped
  <2>1. /\ pc[j] = "putting"
        /\ saved' = [saved EXCEPT ![j] = Name(j)]
        /\ UNCHANGED <<original, attempt, notice>>
    BY <1>6 DEF PutSaved, Name
  <2>2. QED
    BY <1>1, <2>1, NameIsPath DEF WorkTyped
<1>7. ASSUME NEW j \in Jobs, Report(j) PROVE WorkTyped
  <2>1. /\ \E s \in {"none"} \union Store!Terminal : notice' = [notice EXCEPT ![j] = s]
        /\ UNCHANGED <<original, attempt, saved>>
    BY <1>7 DEF Report
  <2>2. QED
    BY <1>1, <2>1 DEF WorkTyped
<1>8. ASSUME NEW j \in Jobs, Worker(j) PROVE WorkTyped
  BY <1>8, <1>3, <1>4, <1>5, <1>6, <1>7
     DEF Worker, Begin, BeginUnconfigured, Acquire, AcquireFailed, Start, DownloadNoETag,
         DownloadFailed, ProbeOk, ProbeFailed, EncodeStart, EncodeProgress, EncodeOk,
         EncodeFailed, VerifyFailed, PutSend, PutFailed, DeleteSend, Deleted, DeleteFailed,
         Unwind, ReleaseSlot
<1>9. CASE Restart
  BY <1>1, <1>2, <1>9 DEF Restart, WorkTyped
<1>10. ASSUME NEW j \in Jobs,
              \/ Admit(j) \/ Accept(j) \/ Cancel(j) \/ Deadline(j) \/ Shutdown(j)
              \/ PruneTask(j) \/ Serve(j)
       PROVE  WorkTyped
  BY <1>10, <1>3 DEF Admit, Accept, Cancel, Deadline, Shutdown, PruneTask, Serve
<1>11. CASE UserEdit \/ Quiet \/ UNCHANGED vars
  BY <1>11, <1>3 DEF UserEdit, Quiet, vars
<1>12. QED
  BY <1>8, <1>9, <1>10, <1>11 DEF Next

LEMMA ProcessNext ==
    ASSUME IInv, [Next]_vars
    PROVE  restarts' \in 0..MaxRestarts /\ configured' \in BOOLEAN
<1>1. restarts \in 0..MaxRestarts /\ configured \in BOOLEAN
  BY DEF IInv, TypeOK
<1>2. CASE Restart
  BY <1>1, <1>2, ConverterAssumption DEF Restart
<1>3. ASSUME UNCHANGED process PROVE restarts' \in 0..MaxRestarts /\ configured' \in BOOLEAN
  BY <1>1, <1>3 DEF process
<1>4. ASSUME NEW j \in Jobs, Worker(j) PROVE UNCHANGED process
  BY <1>4
     DEF Worker, Begin, BeginUnconfigured, Acquire, AcquireFailed, Start, DownloadOk,
         DownloadNoETag, DownloadFailed, ProbeOk, ProbeFailed, EncodeStart, EncodeProgress,
         EncodeOk, EncodeFailed, VerifyOk, VerifyFailed, PutSend, PutSaved, PutTaken,
         PutFailed, DeleteSend, Deleted, DeleteFailed, Unwind, ReleaseSlot, Report
<1>5. ASSUME NEW j \in Jobs,
             \/ Admit(j) \/ Accept(j) \/ Cancel(j) \/ Deadline(j) \/ Shutdown(j)
             \/ PruneTask(j) \/ Serve(j)
      PROVE  UNCHANGED process
  BY <1>5 DEF Admit, Accept, Cancel, Deadline, Shutdown, PruneTask, Serve
<1>6. CASE UserEdit \/ Quiet \/ UNCHANGED vars
  BY <1>6, <1>3 DEF UserEdit, Quiet, vars
<1>7. QED
  BY <1>2, <1>3, <1>4, <1>5, <1>6 DEF Next

LEMMA TypeNext ==
    ASSUME IInv, [Next]_vars, GateInv', TasksKept
    PROVE  TypeOK'
BY PlacesTyped, DavNext, WorkNext, ProcessNext
   DEF TypeOK, GateInv, TasksKept, TaskType, Places, DavTyped, WorkTyped

-----------------------------------------------------------------------------
(***************************************************************************)
(* The theorems.                                                           *)
(***************************************************************************)
LEMMA IInvInit == Init => IInv
<1> SUFFICES ASSUME Init PROVE IInv
  OBVIOUS
<1>1. GateInv
  BY GateInvInit DEF Init
<1>2. files \in [Paths -> FileStates] /\ edits = 0 /\ FilesMade
  <2>1. files \in [Paths -> {Absent, Dav!UserFile(0)}] /\ edits = 0
    BY DEF Init
  <2>2. Dav!UserFile(0) \in Contents /\ Dav!UserFile(0) \in UserVersions
    BY <2>1, ConverterAssumption DEF Contents, UserVersions
  <2>3. QED
    BY <2>1, <2>2 DEF FileStates, FilesMade, FileMade
<1>3. \A j \in Jobs : Len(NamesOf[j]) \in Nat /\ Len(NamesOf[j]) > 0
  BY ConverterAssumption
<1>4. TypeOK
  BY <1>1, <1>2, <1>3, ConverterAssumption
     DEF Init, TypeOK, GateInv, Dav!Answers, Over
<1>5. SlotsKnown
  BY DEF Init, Gate!Init, SlotsKnown, SlotKnown, Gate!Held, Holding, Waits, Stages,
         Gate!Acquiring
<1>6. \A j \in Jobs : ~Store!Stored(j) /\ ~Store!Done(j)
  BY DEF Init, Store!Stored, Store!Done
<1>7. TasksTold
  BY <1>6 DEF Init, TasksTold, TaskTold, Working, Stages, Deferred
<1>8. RequestsMade
  BY DEF Init, RequestsMade, RequestMade
<1>9. WorkersKnow
  BY <1>6 DEF Init, WorkersKnow, WorkerKnows, Converting
<1>10. DoneMeansSaved
  BY <1>6 DEF DoneMeansSaved
<1>11. QED
  BY <1>1, <1>2, <1>4, <1>5, <1>7, <1>8, <1>9, <1>10 DEF IInv

LEMMA IInvNext == IInv /\ [Next]_vars => IInv'
<1> SUFFICES ASSUME IInv, [Next]_vars PROVE IInv'
  OBVIOUS
<1>1. GateInv'
  BY StepIsGateStep, GateInvNext DEF IInv
<1>2. SlotsKnown'
  BY SlotsNext
<1>3. TasksKept
  BY TasksNext
<1>4. FilesKept
  BY <1>3, FilesNext
<1>5. TypeOK'
  BY <1>1, <1>3, TypeNext
<1>6. QED
  BY <1>1, <1>2, <1>3, <1>4, <1>5 DEF IInv, TasksKept, FilesKept

\* The invariant the other theorems rest on holds of every behaviour.
THEOREM IInvInvariant == Spec => []IInv
BY IInvInit, IInvNext, PTL DEF Spec

\* The state has the shape the code declares.
THEOREM TypeCorrect == Spec => []TypeOK
BY IInvInvariant, PTL DEF IInv

\* A conversion uses the gate from its admission to the deferred function, and
\* a worker is past acquire only with a slot of its own.
THEOREM SlotsCorrect == Spec => []SlotsMatchWorkers
<1>1. IInv => SlotsMatchWorkers
  BY DEF IInv, SlotsKnown, SlotKnown, SlotsMatchWorkers, Holding, Gate!Running, Waits
<1>2. QED
  BY <1>1, IInvInvariant, PTL

\* "Gotovo" is never said of an output that is not there, or is not this job's
\* conversion of what it downloaded, nor while an original that had to be
\* deleted is still in its place.
THEOREM DoneCorrect == Spec => []DoneMeansSaved
BY IInvInvariant, PTL DEF IInv

\* No task is shown in progress without a worker that will end it.
THEOREM NoZombies == Spec => []NoZombieTask
<1>1. IInv => NoZombieTask
  BY DEF IInv, TasksTold, TaskTold, NoZombieTask, Alive, Over, Working, Stages
<1>2. QED
  BY <1>1, IInvInvariant, PTL

\* Every job that ends has told its owner, and what its task goes on saying;
\* none does without NEXTCLOUD_URL, where all end in an error.
THEOREM NoticesCorrect == Spec => []NoticeMatchesTask
<1>1. IInv => NoticeMatchesTask
  BY DEF IInv, TasksTold, TaskTold, NoticeMatchesTask, Working, Stages, Store!Terminal
<1>2. QED
  BY <1>1, IInvInvariant, PTL

\* No step takes back a verdict that the owner may have read.
THEOREM VerdictsStand == Spec => VerdictStands
<1>1. IInv /\ [Next]_vars => [\A j \in Jobs : VerdictKept(j)]_vars
  BY TasksNext DEF TasksKept
<1>2. QED
  BY <1>1, IInvInvariant, PTL DEF Spec, VerdictStands, VerdictKept

\* Once the cancel handler has answered, no encoder is started and no PUT or
\* DELETE is sent, wherever the worker is and whatever it goes on to compute.
THEOREM CancelStops == Spec => CancelStopsWork
<1>1. IInv /\ [Next]_vars =>
          [\A j \in Jobs : Store!Stored(j) /\ task[j].cancelled =>
               /\ wire'[j] \in {wire[j], NoRequest}
               /\ pc'[j] \in {"encoding", "putting", "deleting"} => pc'[j] = pc[j]]_vars
  BY CancelledStays
<1>2. QED
  BY <1>1, IInvInvariant, PTL DEF Spec, CancelStopsWork

\* Only the server changes files for the converter, and what it may have been
\* sent creates a file or removes a converted source.
LEMMA FilesPreservedStep ==
    ASSUME IInv, [Next]_vars, NEW p \in Paths, files'[p] # files[p], edits' = edits
    PROVE  \/ files[p] = Absent
           \/ /\ files'[p] = Absent
              /\ \E j \in DeleteOriginal, q \in Paths :
                     SourceOf[j] = p /\ files[q] = Dav!Output(j, files[p])
<1> DEFINE Preserved ==
               \/ files[p] = Absent
               \/ /\ files'[p] = Absent
                  /\ \E j \in DeleteOriginal, q \in Paths :
                         SourceOf[j] = p /\ files[q] = Dav!Output(j, files[p])
<1>1. files \in [Paths -> FileStates] /\ edits \in 0..MaxEdits
  BY DEF IInv, TypeOK
<1>2. ASSUME NEW j \in Jobs, Serve(j) PROVE Preserved
  <2>1. PICK code : Refused(j, code) \/ Missing(j, code) \/ Saved(j, code) \/ Removed(j, code)
    BY <1>2, ServeEffect
  <2>2. QED
    BY <1>1, <2>1 DEF Refused, Missing, Saved, Removed
<1>3. ASSUME NEW j \in Jobs, Worker(j) PROVE UNCHANGED files
  BY <1>3
     DEF Worker, Begin, BeginUnconfigured, Acquire, AcquireFailed, Start, DownloadOk,
         DownloadNoETag, DownloadFailed, ProbeOk, ProbeFailed, EncodeStart, EncodeProgress,
         EncodeOk, EncodeFailed, VerifyOk, VerifyFailed, PutSend, PutSaved, PutTaken,
         PutFailed, DeleteSend, Deleted, DeleteFailed, Unwind, ReleaseSlot, Report, davVars,
         Dav!Send
<1>4. ASSUME NEW j \in Jobs,
             Admit(j) \/ Accept(j) \/ Cancel(j) \/ Deadline(j) \/ Shutdown(j) \/ PruneTask(j)
      PROVE  UNCHANGED files
  BY <1>4 DEF Admit, Accept, Cancel, Deadline, Shutdown, PruneTask, davVars
<1>5. CASE Restart \/ Quiet \/ UNCHANGED vars
  BY <1>5 DEF Restart, Quiet, vars, davVars
<1>6. ~UserEdit
  BY <1>1, ConverterAssumption DEF UserEdit, Dav!Edit
<1>7. QED
  BY <1>2, <1>3, <1>4, <1>5, <1>6 DEF Next

\* Files are never lost to the converter.
THEOREM FilesArePreserved == Spec => FilesPreserved
<1>1. IInv /\ [Next]_vars =>
          [\A p \in Paths : files'[p] # files[p] /\ edits' = edits =>
               \/ files[p] = Absent
               \/ /\ files'[p] = Absent
                  /\ \E j \in DeleteOriginal, q \in Paths :
                         SourceOf[j] = p /\ files[q] = Dav!Output(j, files[p])]_vars
  BY FilesPreservedStep
<1>2. QED
  BY <1>1, IInvInvariant, PTL DEF Spec, FilesPreserved

\* The conversions are a client of the gate as JobGate allows one: its
\* theorems hold of them.
THEOREM ConverterImplementsGate == Spec => ImplementsGate
<1>1. Init => Gate!Init
  BY DEF Init
<1>2. IInv /\ [Next]_vars => [Gate!Next]_(Gate!vars)
  BY StepIsGateStep
<1>3. QED
  BY <1>1, <1>2, IInvInvariant, PTL DEF Spec, ImplementsGate, Gate!Spec

\* Among the conversions that are at work, those whose administrator's limit
\* is no wider than the limit of j are no more than that limit allows.
AtWork == {j \in Jobs : pc[j] \in Stages}

ConversionsBounded ==
    \A j \in AtWork :
        LET limit == settings[j].MaxConcurrentJobs
        IN  Cardinality({k \in AtWork : settings[k].MaxConcurrentJobs <= limit}) <= limit

\* What is within limits stays so when some are left out.
LEMMA FewerWithin ==
    ASSUME NEW S \in SUBSET Jobs, NEW T \in SUBSET S, NEW limit,
           \A j \in S : limit[j] \in Nat,
           GateProofs!WithinLimits(S, limit), NEW j \in T
    PROVE  Cardinality({k \in T : limit[k] <= limit[j]}) <= limit[j]
<1> DEFINE Fewer == {k \in T : limit[k] <= limit[j]}
           All == {k \in S : limit[k] <= limit[j]}
<1>1. GateProofs!Cardinality(All) <= limit[j]
  BY DEF GateProofs!WithinLimits
<1>2. Cardinality(All) = GateProofs!Cardinality(All)
  BY DEF Cardinality, GateProofs!Cardinality
<1>3. Fewer \subseteq All /\ IsFiniteSet(All)
  BY GateAssumption, FS_Subset
<1>4. /\ Cardinality(Fewer) <= Cardinality(All)
      /\ Cardinality(Fewer) \in Nat /\ Cardinality(All) \in Nat
  BY <1>3, FS_Subset, FS_CardinalityType
<1>5. limit[j] \in Nat
  OBVIOUS
<1> HIDE DEF Fewer, All
<1>6. Cardinality(Fewer) <= limit[j]
  BY <1>1, <1>2, <1>4, <1>5
<1>7. QED
  BY <1>6 DEF Fewer

LEMMA ConversionsBoundedNow ==
    IInv /\ GateProofs!LimitsRespected => ConversionsBounded
<1> SUFFICES ASSUME IInv, GateProofs!LimitsRespected, NEW j \in AtWork
             PROVE  Cardinality({k \in AtWork : settings[k].MaxConcurrentJobs
                                                    <= settings[j].MaxConcurrentJobs})
                        <= settings[j].MaxConcurrentJobs
  BY DEF ConversionsBounded
<1> DEFINE S == GateProofs!Running
           limit == [i \in S |-> settings[i].MaxConcurrentJobs]
<1>1. AtWork \subseteq S /\ S \subseteq Jobs
  BY DEF AtWork, IInv, SlotsKnown, SlotKnown, Holding, Gate!Held, GateProofs!Running, GateProofs!Held
<1>2. \A i \in S : settings[i].MaxConcurrentJobs \in Nat
  <2>1. \A i \in S : settings[i] \in Settings
    BY DEF IInv, GateInv, Gate!TypeOK, GateProofs!Running, GateProofs!Held
  <2>2. QED
    BY <2>1, GateAssumption
<1>3. GateProofs!WithinLimits(S, limit)
  BY DEF GateProofs!LimitsRespected, GateProofs!TotalLimitRespected, GateProofs!TotalLimitOf
<1> HIDE DEF S
<1>4. Cardinality({k \in AtWork : limit[k] <= limit[j]}) <= limit[j]
  <2>1. \A i \in S : limit[i] \in Nat
    BY <1>2
  <2> HIDE DEF limit
  <2>2. QED
    BY <1>1, <1>3, <2>1, FewerWithin
<1>5. \A k \in AtWork : limit[k] = settings[k].MaxConcurrentJobs
  BY <1>1
<1>6. {k \in AtWork : limit[k] <= limit[j]}
          = {k \in AtWork : settings[k].MaxConcurrentJobs <= settings[j].MaxConcurrentJobs}
  BY <1>5
<1>7. QED
  BY <1>4, <1>5, <1>6

\* The limits that the gate keeps for any clients it keeps for the conversions.
LEMMA GateLimits == Spec => []GateProofs!LimitsRespected
<1>1. GateProofs!IsFiniteSet(Jobs) /\ "live" \notin EndReasons
  BY ConverterAssumption, GateAssumption DEF IsFiniteSet, GateProofs!IsFiniteSet
<1>2. GateProofs!Spec => []GateProofs!LimitsRespected
  BY <1>1, GateAssumption, GateProofs!LimitsCorrect
<1>3. Init => GateProofs!Init
  BY SameGateInit DEF Init
<1>4. IInv /\ [Next]_vars => [GateProofs!Next]_(GateProofs!vars)
  BY StepIsGateStep, SameGateStep
<1>5. Spec => GateProofs!Spec
  BY <1>3, <1>4, IInvInvariant, PTL DEF Spec, GateProofs!Spec
<1>6. QED
  BY <1>2, <1>5, PTL

\* max_concurrent_jobs bounds the workers that download, encode and upload.
THEOREM ConversionsAreBounded == Spec => []ConversionsBounded
BY ConversionsBoundedNow, IInvInvariant, GateLimits, PTL

\* The same of the conversions of each user, and of the jobs of each user that
\* wait for their turn.
AtWorkOf(u) == {j \in AtWork : UserOf[j] = u}
InLineOf(u) == {j \in Jobs : pc[j] \in Waits /\ j \notin active /\ UserOf[j] = u}

EachUserBounded ==
    \A u \in Users :
        /\ \A j \in AtWorkOf(u) :
               LET limit == settings[j].MaxConcurrentJobsPerUser
               IN  Cardinality({k \in AtWorkOf(u) :
                                    settings[k].MaxConcurrentJobsPerUser <= limit}) <= limit
        /\ \A j \in InLineOf(u) :
               LET limit == settings[j].MaxQueuedJobsPerUser
               IN  Cardinality({k \in InLineOf(u) :
                                    settings[k].MaxQueuedJobsPerUser <= limit}) <= limit

LEMMA EachUserBoundedNow ==
    IInv /\ GateProofs!LimitsRespected => EachUserBounded
<1> SUFFICES ASSUME IInv, GateProofs!LimitsRespected, NEW u \in Users PROVE
        /\ \A j \in AtWorkOf(u) :
               LET limit == settings[j].MaxConcurrentJobsPerUser
               IN  Cardinality({k \in AtWorkOf(u) :
                                    settings[k].MaxConcurrentJobsPerUser <= limit}) <= limit
        /\ \A j \in InLineOf(u) :
               LET limit == settings[j].MaxQueuedJobsPerUser
               IN  Cardinality({k \in InLineOf(u) :
                                    settings[k].MaxQueuedJobsPerUser <= limit}) <= limit
  BY DEF EachUserBounded
<1> DEFINE S == GateProofs!OwnedBy(GateProofs!Running, u)
           W == GateProofs!OwnedBy(GateProofs!Waiting, u)
<1>1. /\ S = {j \in Jobs : GateProofs!Held(j) /\ j \in active /\ UserOf[j] = u}
      /\ W = {j \in Jobs : GateProofs!Held(j) /\ j \notin active /\ UserOf[j] = u}
  BY DEF GateProofs!OwnedBy, GateProofs!Running, GateProofs!Waiting
<1>2. \A j \in Jobs : GateProofs!Held(j) <=> pc[j] \in Holding
  BY DEF IInv, SlotsKnown, SlotKnown, Gate!Held, GateProofs!Held
<1>3. AtWorkOf(u) \subseteq S
  BY <1>1, <1>2 DEF AtWorkOf, AtWork, Holding, IInv, SlotsKnown, SlotKnown
<1>4. InLineOf(u) \subseteq W
  BY <1>1, <1>2 DEF InLineOf, Holding
<1>5. \A j \in S \union W : settings[j] \in Settings
  BY <1>1 DEF IInv, GateInv, Gate!TypeOK, GateProofs!Held
<1>6. \A j \in S \union W : /\ settings[j].MaxConcurrentJobsPerUser \in Nat
                            /\ settings[j].MaxQueuedJobsPerUser \in Nat
  BY <1>5, GateAssumption
<1>7. /\ GateProofs!WithinLimits(S, GateProofs!UserLimitOf(u))
      /\ GateProofs!WithinLimits(W, GateProofs!QueueLimitOf(u))
  BY DEF GateProofs!LimitsRespected, GateProofs!UserLimitRespected, GateProofs!QueueLimitRespected
<1>8. /\ S \subseteq Jobs /\ W \subseteq Jobs
      /\ GateProofs!UserLimitOf(u) = [j \in S |-> settings[j].MaxConcurrentJobsPerUser]
      /\ GateProofs!QueueLimitOf(u) = [j \in W |-> settings[j].MaxQueuedJobsPerUser]
  BY <1>1 DEF GateProofs!UserLimitOf, GateProofs!QueueLimitOf
<1> HIDE DEF S, W
<1>9. ASSUME NEW j \in AtWorkOf(u)
      PROVE  Cardinality({k \in AtWorkOf(u) : settings[k].MaxConcurrentJobsPerUser
                                                <= settings[j].MaxConcurrentJobsPerUser})
                <= settings[j].MaxConcurrentJobsPerUser
  <2> DEFINE limit == [i \in S |-> settings[i].MaxConcurrentJobsPerUser]
  <2>1. Cardinality({k \in AtWorkOf(u) : limit[k] <= limit[j]}) <= limit[j]
    <3>1. \A i \in S : limit[i] \in Nat
      BY <1>6
    <3>2. GateProofs!WithinLimits(S, limit)
      BY <1>7, <1>8
    <3> HIDE DEF limit
    <3>3. QED
      BY <1>3, <1>8, <3>1, <3>2, FewerWithin
  <2>2. \A k \in AtWorkOf(u) : limit[k] = settings[k].MaxConcurrentJobsPerUser
    BY <1>3
  <2>3. {k \in AtWorkOf(u) : limit[k] <= limit[j]}
            = {k \in AtWorkOf(u) : settings[k].MaxConcurrentJobsPerUser
                                      <= settings[j].MaxConcurrentJobsPerUser}
    BY <2>2
  <2>4. QED
    BY <2>1, <2>2, <2>3
<1>10. ASSUME NEW j \in InLineOf(u)
       PROVE  Cardinality({k \in InLineOf(u) : settings[k].MaxQueuedJobsPerUser
                                                 <= settings[j].MaxQueuedJobsPerUser})
                 <= settings[j].MaxQueuedJobsPerUser
  <2> DEFINE limit == [i \in W |-> settings[i].MaxQueuedJobsPerUser]
  <2>1. Cardinality({k \in InLineOf(u) : limit[k] <= limit[j]}) <= limit[j]
    <3>1. \A i \in W : limit[i] \in Nat
      BY <1>6
    <3>2. GateProofs!WithinLimits(W, limit)
      BY <1>7, <1>8
    <3> HIDE DEF limit
    <3>3. QED
      BY <1>4, <1>8, <3>1, <3>2, FewerWithin
  <2>2. \A k \in InLineOf(u) : limit[k] = settings[k].MaxQueuedJobsPerUser
    BY <1>4
  <2>3. {k \in InLineOf(u) : limit[k] <= limit[j]}
            = {k \in InLineOf(u) : settings[k].MaxQueuedJobsPerUser
                                      <= settings[j].MaxQueuedJobsPerUser}
    BY <2>2
  <2>4. QED
    BY <2>1, <2>2, <2>3
<1>11. QED
  BY <1>9, <1>10

\* max_concurrent_jobs_per_user bounds the workers of each user that download,
\* encode and upload, and max_queued_jobs_per_user those in line for a slot.
THEOREM EachUserIsBounded == Spec => []EachUserBounded
BY EachUserBoundedNow, IInvInvariant, GateLimits, PTL

-----------------------------------------------------------------------------
(***************************************************************************)
(* What a task says of an output that is there.                            *)
(***************************************************************************)
Saving == {"delete", "deleting"} \union Deferred \union {"ended"}

\* A task in error whose output is saved says that the original was not
\* deleted, and where the output is; or that it was out of time, and it was.
Explained(j) ==
    Store!Stored(j) /\ task[j].status = "error" /\ ~task[j].cancelled =>
        \/ task[j].error = "not_deleted"
        \/ task[j].error = "timeout" /\ ctx[j] = "deadline"

SaveTold(j) == saved[j] # NoPath => pc[j] \in Saving /\ Explained(j)
SavesTold == \A j \in Jobs : SaveTold(j)

\* A step that concerns one job leaves what is said of the others.
LEMMA OthersSaved ==
    ASSUME SavesTold, NEW j \in Jobs, SaveTold(j)',
           \A k \in Jobs \ {j} : /\ pc'[k] = pc[k] /\ ctx'[k] = ctx[k]
                                 /\ saved'[k] = saved[k] /\ task'[k] = task[k]
    PROVE  SavesTold'
<1>1. ASSUME NEW k \in Jobs \ {j} PROVE SaveTold(k)'
  BY DEF SavesTold, SaveTold, Explained, Store!Stored
<1>2. QED
  BY <1>1 DEF SavesTold

LEMMA SavesStay ==
    ASSUME SavesTold, UNCHANGED <<pc, ctx, saved, task>>
    PROVE  SavesTold'
BY DEF SavesTold, SaveTold, Explained, Store!Stored

\* Before the upload has returned there is nothing to explain.
LEMMA NothingSaved ==
    ASSUME SavesTold, NEW j \in Jobs, pc[j] \notin Saving, UNCHANGED saved
    PROVE  SaveTold(j)'
BY DEF SavesTold, SaveTold

\* What the worker does to the places and the tasks of other jobs: nothing.
LEMMA WorkerAlone ==
    ASSUME IInv, NEW j \in Jobs, Worker(j)
    PROVE  \A k \in Jobs \ {j} : /\ pc'[k] = pc[k] /\ ctx'[k] = ctx[k]
                                 /\ saved'[k] = saved[k] /\ task'[k] = task[k]
<1> USE DEF Fail, FailRequest, workVars
<1>1. /\ pc \in [Jobs -> Waits \union Stages \union Deferred \union Over]
      /\ saved \in [Jobs -> Paths \union {NoPath}]
      /\ ctx \in [Jobs -> Gate!CtxStates]
      /\ task \in [Jobs -> TaskType]
  BY DEF IInv, TypeOK, Gate!TypeOK, TaskType
<1>2. pc' = pc \/ \E l : Goto(j, l)
  BY DEF Worker, Begin, BeginUnconfigured, Acquire, AcquireFailed, Start, DownloadOk,
         DownloadNoETag, DownloadFailed, ProbeOk, ProbeFailed, EncodeStart, EncodeProgress,
         EncodeOk, EncodeFailed, VerifyOk, VerifyFailed, PutSend, PutSaved, PutTaken, PutFailed,
         DeleteSend, Deleted, DeleteFailed, Unwind, ReleaseSlot, Report
<1>3. saved' = saved \/ saved' = [saved EXCEPT ![j] = Name(j)]
  BY DEF Worker, Begin, BeginUnconfigured, Acquire, AcquireFailed, Start, DownloadOk,
         DownloadNoETag, DownloadFailed, ProbeOk, ProbeFailed, EncodeStart, EncodeProgress,
         EncodeOk, EncodeFailed, VerifyOk, VerifyFailed, PutSend, PutSaved, PutTaken, PutFailed,
         DeleteSend, Deleted, DeleteFailed, Unwind, ReleaseSlot, Report, Name
<1>4. ctx' = ctx \/ \E c : ctx' = [ctx EXCEPT ![j] = c]
  BY DEF Worker, Begin, BeginUnconfigured, Acquire, AcquireFailed, Start, DownloadOk,
         DownloadNoETag, DownloadFailed, ProbeOk, ProbeFailed, EncodeStart, EncodeProgress,
         EncodeOk, EncodeFailed, VerifyOk, VerifyFailed, PutSend, PutSaved, PutTaken, PutFailed,
         DeleteSend, Deleted, DeleteFailed, Unwind, ReleaseSlot, Report, Gate!AcquireStart,
         Gate!AcquireCheck, Gate!AcquireLock, Gate!AcquireReleased, Gate!AcquireActive,
         Gate!AcquirePromote, Gate!AcquireBlocked, Gate!AcquireTick, Gate!AcquireDone, Gate!Release
<1>5. \/ UNCHANGED task
      \/ \E t : task' = [task EXCEPT ![j] = t]
  BY DEF Worker, Begin, BeginUnconfigured, Acquire, AcquireFailed, Start, DownloadOk,
         DownloadNoETag, DownloadFailed, ProbeOk, ProbeFailed, EncodeStart, EncodeProgress,
         EncodeOk, EncodeFailed, VerifyOk, VerifyFailed, PutSend, PutSaved, PutTaken, PutFailed,
         DeleteSend, Deleted, DeleteFailed, Unwind, ReleaseSlot, Report, Store!SetTaskStatus,
         Store!SetTaskError, Store!SetTaskDone, Store!UpdateTask, Store!DropCancel
<1>6. QED
  <2>1. ASSUME NEW k \in Jobs \ {j} PROVE pc'[k] = pc[k]
    BY <1>1, <1>2 DEF Goto
  <2>2. ASSUME NEW k \in Jobs \ {j} PROVE saved'[k] = saved[k]
    BY <1>1, <1>3
  <2>3. ASSUME NEW k \in Jobs \ {j} PROVE ctx'[k] = ctx[k]
    BY <1>1, <1>4
  <2>4. ASSUME NEW k \in Jobs \ {j} PROVE task'[k] = task[k]
    BY <1>1, <1>5
  <2>5. QED
    BY <2>1, <2>2, <2>3, <2>4

\* What an update leaves in the fields: the error, another verdict, or what was
\* there when the task is gone or cancelled.
Untouched(j) == ~Store!Stored(j) \/ task[j].cancelled => task'[j] = task[j]

LEMMA ErrorTold ==
    ASSUME IInv, NEW j \in Jobs, NEW error \in Store!Errors, Store!SetTaskError(j, error)
    PROVE  /\ OneTask(j) /\ Untouched(j)
           /\ Store!Stored(j) /\ ~task[j].cancelled => task'[j].error = error
<1>1. /\ OneTask(j) /\ Untouched(j)
      /\ Store!Stored(j) /\ ~task[j].cancelled =>
             task'[j] = [task[j] EXCEPT !.status = "error", !.error = error]
  BY SetTaskErrorEffect DEF Untouched
<1>2. ASSUME Store!Stored(j), ~task[j].cancelled PROVE task'[j].error = error
  BY <1>1, <1>2, TaskFields DEF Store!Task
<1>3. QED
  BY <1>1, <1>2

LEMMA StatusTold ==
    ASSUME IInv, NEW j \in Jobs, NEW status \in Store!Statuses, Store!SetTaskStatus(j, status)
    PROVE  /\ OneTask(j) /\ Untouched(j)
           /\ Store!Stored(j) /\ ~task[j].cancelled => task'[j].status = status
<1>1. /\ OneTask(j) /\ Untouched(j)
      /\ Store!Stored(j) /\ ~task[j].cancelled => task'[j] = [task[j] EXCEPT !.status = status]
  BY SetTaskStatusEffect DEF Untouched
<1>2. ASSUME Store!Stored(j), ~task[j].cancelled PROVE task'[j].status = status
  BY <1>1, <1>2, TaskFields DEF Store!Task
<1>3. QED
  BY <1>1, <1>2

LEMMA DoneTold ==
    ASSUME IInv, NEW j \in Jobs, NEW path \in Paths, Store!SetTaskDone(j, path)
    PROVE  /\ OneTask(j) /\ Untouched(j)
           /\ Store!Stored(j) /\ ~task[j].cancelled => task'[j].status = "done"
<1>1. /\ OneTask(j) /\ Untouched(j)
      /\ Store!Stored(j) /\ ~task[j].cancelled =>
             task'[j] = [task[j] EXCEPT !.status = "done", !.output = path]
  BY SetTaskDoneEffect DEF Untouched
<1>2. ASSUME Store!Stored(j), ~task[j].cancelled PROVE task'[j].status = "done"
  BY <1>1, <1>2, TaskFields DEF Store!Task
<1>3. QED
  BY <1>1, <1>2

LEMMA SavesWorker ==
    ASSUME IInv, SavesTold, NEW j \in Jobs, Worker(j)
    PROVE  SaveTold(j)'
<1> USE DEF Fail, FailRequest, workVars
<1>1. /\ pc \in [Jobs -> Waits \union Stages \union Deferred \union Over]
      /\ saved \in [Jobs -> Paths \union {NoPath}]
      /\ ctx \in [Jobs -> Gate!CtxStates]
  BY DEF IInv, TypeOK, Gate!TypeOK
<1>2. CASE \/ Begin(j) \/ BeginUnconfigured(j) \/ Acquire(j) \/ AcquireFailed(j) \/ Start(j)
           \/ DownloadOk(j) \/ DownloadNoETag(j) \/ DownloadFailed(j)
           \/ ProbeOk(j) \/ ProbeFailed(j)
           \/ EncodeStart(j) \/ EncodeProgress(j) \/ EncodeOk(j) \/ EncodeFailed(j)
           \/ VerifyOk(j) \/ VerifyFailed(j) \/ PutSend(j) \/ PutTaken(j) \/ PutFailed(j)
  <2>1. pc[j] \notin Saving
    BY <1>2 DEF Begin, BeginUnconfigured, Acquire, AcquireFailed, Start, DownloadOk,
         DownloadNoETag, DownloadFailed, ProbeOk, ProbeFailed, EncodeStart, EncodeProgress,
         EncodeOk, EncodeFailed, VerifyOk, VerifyFailed, PutSend, PutTaken, PutFailed, Saving, Deferred
  <2>2. UNCHANGED saved
    BY <1>2 DEF Begin, BeginUnconfigured, Acquire, AcquireFailed, Start, DownloadOk,
         DownloadNoETag, DownloadFailed, ProbeOk, ProbeFailed, EncodeStart, EncodeProgress,
         EncodeOk, EncodeFailed, VerifyOk, VerifyFailed, PutSend, PutTaken, PutFailed
  <2>3. QED
    BY <2>1, <2>2, NothingSaved
<1>3. CASE PutSaved(j)
  <2>1. pc'[j] \in Saving
    BY <1>1, <1>3 DEF PutSaved, Goto, Saving, Deferred
  <2>2. saved'[j] \in Paths
    <3>1. saved' = [saved EXCEPT ![j] = Name(j)] /\ pc[j] = "putting"
      BY <1>3 DEF PutSaved, Name
    <3>2. QED
      BY <1>1, <3>1, NameIsPath
  <2>3. Store!SetTaskStatus(j, "finishing") \/ Store!SetTaskDone(j, saved'[j])
    BY <1>3 DEF PutSaved
  <2>4. /\ OneTask(j)
        /\ Untouched(j)
        /\ Store!Stored(j) /\ ~task[j].cancelled => task'[j].status # "error"
    <3>1. CASE Store!SetTaskStatus(j, "finishing")
      BY <3>1, StatusTold DEF Store!Statuses
    <3>2. CASE Store!SetTaskDone(j, saved'[j])
      BY <2>2, <3>2, DoneTold
    <3>3. QED
      BY <2>3, <3>1, <3>2
  <2>5. Explained(j)'
    BY <2>4 DEF Explained, OneTask, Untouched
  <2>6. QED
    BY <2>1, <2>5 DEF SaveTold
<1>4. CASE DeleteSend(j) \/ ReleaseSlot(j)
  <2>1. pc'[j] \in Saving /\ UNCHANGED <<ctx, saved, task>>
    BY <1>1, <1>4 DEF DeleteSend, ReleaseSlot, Gate!Release, Goto, Saving, Deferred
  <2>2. QED
    BY <2>1 DEF SavesTold, SaveTold, Explained, Store!Stored
<1>5. CASE Deleted(j)
  <2>1. pc'[j] \in Saving
    BY <1>1, <1>5 DEF Deleted, Goto, Saving, Deferred
  <2>2. /\ OneTask(j)
        /\ Untouched(j)
        /\ Store!Stored(j) /\ ~task[j].cancelled => task'[j].status # "error"
    <3>1. saved[j] \in Paths
      BY <1>5 DEF Deleted, IInv, WorkersKnow, WorkerKnows
    <3>2. QED
      BY <1>5, <3>1, DoneTold DEF Deleted
  <2>3. Explained(j)'
    BY <2>2 DEF Explained, OneTask, Untouched
  <2>4. QED
    BY <2>1, <2>3 DEF SaveTold
<1>6. CASE DeleteFailed(j)
  <2>1. pc'[j] \in Saving
    BY <1>1, <1>6 DEF DeleteFailed, Goto, Saving, Deferred
  <2>2. /\ OneTask(j)
        /\ Untouched(j)
        /\ Store!Stored(j) /\ ~task[j].cancelled => task'[j].error = "not_deleted"
    BY <1>6, ErrorTold DEF DeleteFailed, Store!Errors
  <2>3. Explained(j)'
    BY <2>2 DEF Explained, OneTask, Untouched
  <2>4. QED
    BY <2>1, <2>3 DEF SaveTold
<1>7. CASE Unwind(j)
  <2>1. pc'[j] \in Saving /\ UNCHANGED saved
    BY <1>1, <1>7 DEF Unwind, Goto, Saving, Deferred
  <2>2. ctx[j] = "deadline" => ctx'[j] = "deadline"
    BY <1>1, <1>7 DEF Unwind, Live
  <2>3. \/ UNCHANGED task
        \/ /\ ctx[j] = "deadline" /\ OneTask(j)
           /\ Untouched(j)
           /\ Store!Stored(j) /\ ~task[j].cancelled => task'[j].error = "timeout"
    BY <1>7, ErrorTold DEF Unwind, Store!Errors
  <2>4. Explained(j) => Explained(j)'
    BY <2>2, <2>3 DEF Explained, OneTask, Untouched, Store!Stored
  <2>5. QED
    BY <2>1, <2>4 DEF SavesTold, SaveTold
<1>8. CASE Report(j)
  <2>1. pc'[j] \in Saving /\ UNCHANGED <<ctx, saved>>
    BY <1>1, <1>8 DEF Report, Goto, Saving
  <2>2. /\ OneTask(j)
        /\ Store!Stored(j) => /\ task'[j].status = task[j].status
                              /\ task'[j].error = task[j].error
                              /\ task'[j].cancelled = task[j].cancelled
    <3>1. OneTask(j) /\ (Store!Stored(j) => task'[j] = [task[j] EXCEPT !.cancel = FALSE])
      BY <1>8, DropCancelEffect DEF Report
    <3>2. ASSUME Store!Stored(j)
          PROVE  /\ task'[j].status = task[j].status
                 /\ task'[j].error = task[j].error
                 /\ task'[j].cancelled = task[j].cancelled
      BY <3>1, <3>2, TaskFields DEF Store!Task
    <3>3. QED
      BY <3>1, <3>2
  <2>3. QED
    BY <2>1, <2>2 DEF SavesTold, SaveTold, Explained, OneTask
<1>9. QED
  BY <1>2, <1>3, <1>4, <1>5, <1>6, <1>7, <1>8 DEF Worker

LEMMA SavesNext == IInv /\ SavesTold /\ [Next]_vars => SavesTold'
<1> SUFFICES ASSUME IInv, SavesTold, [Next]_vars PROVE SavesTold'
  OBVIOUS
<1>1. /\ pc \in [Jobs -> Waits \union Stages \union Deferred \union Over]
      /\ ctx \in [Jobs -> Gate!CtxStates]
      /\ task \in [Jobs -> TaskType]
  BY DEF IInv, TypeOK, Gate!TypeOK, TaskType
<1>2. ASSUME NEW j \in Jobs, Worker(j) PROVE SavesTold'
  BY <1>2, SavesWorker, WorkerAlone, OthersSaved
<1>3. ASSUME NEW j \in Jobs, Admit(j) \/ Accept(j) PROVE SavesTold'
  <2>1. SaveTold(j)'
    BY <1>3, NothingSaved DEF Admit, Accept, workVars, Saving, Deferred
  <2>2. \A k \in Jobs \ {j} : /\ pc'[k] = pc[k] /\ ctx'[k] = ctx[k]
                              /\ saved'[k] = saved[k] /\ task'[k] = task[k]
    BY <1>1, <1>3 DEF Admit, Accept, Goto, workVars, Store!NewTask, Gate!Reserve, Gate!ReserveSlot,
                      Gate!ReserveQueued, Gate!ReserveRefused
  <2>3. QED
    BY <2>1, <2>2, OthersSaved
<1>4. ASSUME NEW j \in Jobs, Cancel(j) PROVE SavesTold'
  <2>1. Store!Stored(j) /\ UNCHANGED <<pc, saved>>
    BY <1>4 DEF Cancel, Store!Cancellable, workVars
  <2>2. OneTask(j) /\ task'[j].cancelled
    <3>1. /\ OneTask(j)
          /\ task'[j] = [task[j] EXCEPT !.cancelled = TRUE, !.status = "error",
                                        !.error = "cancelled"]
      BY <1>4, <2>1, MarkCancelledEffect DEF Cancel
    <3>2. task'[j].cancelled
      BY <2>1, <3>1, TaskFields DEF Store!Task
    <3>3. QED
      BY <3>1, <3>2
  <2>3. \A k \in Jobs \ {j} : ctx'[k] = ctx[k]
    BY <1>1, <1>4 DEF Cancel
  <2>4. SaveTold(j)'
    BY <2>1, <2>2 DEF SavesTold, SaveTold, Explained
  <2>5. QED
    BY <2>1, <2>2, <2>3, <2>4, OthersSaved DEF OneTask
<1>5. ASSUME NEW j \in Jobs, Deadline(j) \/ Shutdown(j) PROVE SavesTold'
  <2>1. /\ ctx[j] = "live" /\ UNCHANGED <<pc, saved, task>>
        /\ \A k \in Jobs \ {j} : ctx'[k] = ctx[k]
    BY <1>1, <1>5 DEF Deadline, Shutdown, Live, Gate!EndContext, workVars
  <2>2. SaveTold(j)'
    BY <2>1 DEF SavesTold, SaveTold, Explained, Store!Stored
  <2>3. QED
    BY <2>1, <2>2, OthersSaved
<1>6. ASSUME NEW j \in Jobs, PruneTask(j) PROVE SavesTold'
  <2>1. /\ task' = [task EXCEPT ![j] = NoTask]
        /\ UNCHANGED <<pc, ctx, saved>>
    BY <1>6 DEF PruneTask, Store!Prune, workVars
  <2>2. SaveTold(j)'
    BY <1>1, <2>1 DEF SavesTold, SaveTold, Explained, Store!Stored
  <2>3. QED
    BY <1>1, <2>1, <2>2, OthersSaved
<1>7. CASE Restart
  BY <1>7 DEF Restart, SavesTold, SaveTold
<1>8. CASE UserEdit \/ Quiet \/ UNCHANGED vars \/ \E j \in Jobs : Serve(j)
  BY <1>8, SavesStay DEF UserEdit, Quiet, vars, Serve, workVars
<1>9. QED
  BY <1>2, <1>3, <1>4, <1>5, <1>6, <1>7, <1>8 DEF Next

\* What DeletionFailureNamesOutput says of every job, and the code does not do
\* for one whose deadline passes (run DeletionFailure), it does for all others:
\* no owner of a saved output is told of any other failure.
SavedOutputNamed ==
    \A j \in Jobs :
        /\ pc[j] = "ended" /\ Store!Stored(j)
        /\ saved[j] # NoPath
        /\ ~task[j].cancelled
        /\ task[j].status = "error"
        => \/ task[j].error = "not_deleted"
           \/ task[j].error = "timeout" /\ ctx[j] = "deadline"

THEOREM SavedOutputsNamed == Spec => []SavedOutputNamed
<1>1. Init => SavesTold
  BY DEF Init, SavesTold, SaveTold
<1>2. SavesTold => SavedOutputNamed
  BY DEF SavesTold, SaveTold, Explained, SavedOutputNamed
<1>3. QED
  BY <1>1, <1>2, SavesNext, IInvInvariant, PTL DEF Spec

-----------------------------------------------------------------------------
(***************************************************************************)
(* Copies of a conversion.                                                 *)
(***************************************************************************)
NoCopy(j) == \A p \in Paths : ~Stores(j, p)
PutSent(j) == wire[j] # NoRequest /\ wire[j].op = "put"

\* The upload is yet to come, or the server has refused the last name.
Before == Waits \union {"idle", "refused", "download", "probe", "encode", "encoding", "verify", "put"}
Fresh(j) == pc[j] \in Before \/ (pc[j] = "putting" /\ answer[j] = "precondition")

\* A job whose worker may still send its conversion has stored none, nor is
\* one on its way; while one is on its way, none is stored.
OneCopy(j) ==
    /\ \A p, q \in Paths : Stores(j, p) /\ Stores(j, q) => p = q
    /\ PutSent(j) => NoCopy(j)
    /\ Fresh(j) => NoCopy(j) /\ ~PutSent(j)

CopiesCounted == \A j \in Jobs : OneCopy(j)

\* No new copy, no new request, and no way back before the upload.
LEMMA CopiesStay ==
    ASSUME NEW k \in Jobs, OneCopy(k),
           \A p \in Paths : Stores(k, p)' => Stores(k, p),
           PutSent(k)' => PutSent(k),
           Fresh(k)' => Fresh(k)
    PROVE  OneCopy(k)'
BY DEF OneCopy, NoCopy

LEMMA SameFilesCopies ==
    ASSUME NEW k \in Jobs, OneCopy(k), UNCHANGED <<files, wire>>, Fresh(k)' => Fresh(k)
    PROVE  OneCopy(k)'
BY CopiesStay DEF Stores, PutSent

LEMMA CopiesWorker ==
    ASSUME IInv, CopiesCounted, NEW j \in Jobs, Worker(j), NEW k \in Jobs
    PROVE  OneCopy(k)'
<1> USE DEF Fail, FailRequest, davVars
<1>1. /\ pc \in [Jobs -> Waits \union Stages \union Deferred \union Over]
      /\ wire \in [Jobs -> Requests \union {NoRequest}]
      /\ answer \in [Jobs -> Dav!Answers]
  BY DEF IInv, TypeOK
<1>2. OneCopy(k)
  BY DEF CopiesCounted
<1>3. CASE PutSend(j)
  <2>1. /\ pc[j] = "put" /\ pc' = [pc EXCEPT ![j] = "putting"]
        /\ files' = files
        /\ wire' = [wire EXCEPT ![j] = Dav!Put(Name(j), Conversion(j))]
        /\ answer' = [answer EXCEPT ![j] = "none"]
    BY <1>3 DEF PutSend, Goto, Dav!Send, Name, Conversion
  <2>2. CASE k = j
    <3>1. NoCopy(j)
      BY <1>2, <2>1, <2>2 DEF OneCopy, Fresh, Before
    <3>2. NoCopy(j)' /\ ~Fresh(j)'
      BY <1>1, <2>1, <3>1 DEF NoCopy, Stores, Fresh, Before, Waits
    <3>3. QED
      BY <2>2, <3>2 DEF OneCopy, NoCopy
  <2>3. CASE k # j
    <3>1. wire'[k] = wire[k] /\ pc'[k] = pc[k] /\ answer'[k] = answer[k]
      BY <1>1, <2>1, <2>3
    <3>2. QED
      BY <1>2, <2>1, <3>1, CopiesStay DEF Stores, PutSent, Fresh
  <2>4. QED
    BY <2>2, <2>3
<1>4. CASE DeleteSend(j)
  <2>1. /\ pc' = [pc EXCEPT ![j] = "deleting"]
        /\ files' = files
        /\ wire' = [wire EXCEPT ![j] = Dav!Delete(SourceOf[j], original[j])]
        /\ answer' = [answer EXCEPT ![j] = "none"]
    BY <1>4 DEF DeleteSend, Goto, Dav!Send
  <2>2. CASE k = j
    <3>1. ~PutSent(j)' /\ ~Fresh(j)'
      BY <1>1, <2>1, RequestFields DEF PutSent, Fresh, Before, Waits
    <3>2. QED
      BY <1>2, <2>1, <2>2, <3>1, CopiesStay DEF Stores
  <2>3. CASE k # j
    <3>1. wire'[k] = wire[k] /\ pc'[k] = pc[k] /\ answer'[k] = answer[k]
      BY <1>1, <2>1, <2>3
    <3>2. QED
      BY <1>2, <2>1, <3>1, CopiesStay DEF Stores, PutSent, Fresh
  <2>4. QED
    BY <2>2, <2>3
<1>5. CASE \/ Begin(j) \/ BeginUnconfigured(j) \/ Acquire(j) \/ AcquireFailed(j) \/ Start(j)
           \/ DownloadOk(j) \/ DownloadNoETag(j) \/ DownloadFailed(j)
           \/ ProbeOk(j) \/ ProbeFailed(j)
           \/ EncodeStart(j) \/ EncodeProgress(j) \/ EncodeOk(j) \/ EncodeFailed(j)
           \/ VerifyOk(j) \/ VerifyFailed(j) \/ PutTaken(j)
  <2>1. Fresh(j) /\ UNCHANGED <<files, wire, answer>>
    BY <1>5 DEF Begin, BeginUnconfigured, Acquire, AcquireFailed, Start, DownloadOk,
         DownloadNoETag, DownloadFailed, ProbeOk, ProbeFailed, EncodeStart, EncodeProgress,
         EncodeOk, EncodeFailed, VerifyOk, VerifyFailed, PutTaken, Fresh, Before, Waits
  <2>2. pc' = pc \/ \E l : Goto(j, l)
    BY <1>5 DEF Begin, BeginUnconfigured, Acquire, AcquireFailed, Start, DownloadOk,
         DownloadNoETag, DownloadFailed, ProbeOk, ProbeFailed, EncodeStart, EncodeProgress,
         EncodeOk, EncodeFailed, VerifyOk, VerifyFailed, PutTaken
  <2>3. k # j => pc'[k] = pc[k]
    BY <1>1, <2>2 DEF Goto
  <2>4. Fresh(k)' => Fresh(k)
    BY <2>1, <2>3 DEF Fresh
  <2>5. QED
    BY <1>2, <2>1, <2>4, SameFilesCopies
<1>6. CASE \/ PutSaved(j) \/ PutFailed(j) \/ Deleted(j) \/ DeleteFailed(j)
           \/ Unwind(j) \/ ReleaseSlot(j) \/ Report(j)
  <2>1. UNCHANGED <<files, wire, answer>>
    BY <1>6 DEF PutSaved, PutFailed, Deleted, DeleteFailed, Unwind, ReleaseSlot, Report
  <2>2. \E l \in {"delete", "unwind", "release", "report", "ended"} : Goto(j, l)
    BY <1>6 DEF PutSaved, PutFailed, Deleted, DeleteFailed, Unwind, ReleaseSlot, Report
  <2>3. /\ pc'[j] \in {"delete", "unwind", "release", "report", "ended"}
        /\ k # j => pc'[k] = pc[k]
    BY <1>1, <2>2 DEF Goto
  <2>4. Fresh(k)' => Fresh(k)
    BY <2>1, <2>3 DEF Fresh, Before, Waits
  <2>5. QED
    BY <1>2, <2>1, <2>4, SameFilesCopies
<1>7. QED
  BY <1>3, <1>4, <1>5, <1>6 DEF Worker

\* The server executes a PUT only while there is no copy, and one that it has
\* refused leaves none.
LEMMA CopiesServe ==
    ASSUME IInv, CopiesCounted, NEW j \in Jobs, Serve(j), NEW k \in Jobs
    PROVE  OneCopy(k)'
<1>1. PICK code :
          /\ Refused(j, code) \/ Missing(j, code) \/ Saved(j, code) \/ Removed(j, code)
          /\ wire' = [wire EXCEPT ![j] = NoRequest]
          /\ answer' = [answer EXCEPT ![j] = IF Listening(j) THEN code ELSE "none"]
  BY ServeEffect
<1>2. /\ files \in [Paths -> FileStates]
      /\ wire \in [Jobs -> Requests \union {NoRequest}]
      /\ answer \in [Jobs -> Dav!Answers]
      /\ UNCHANGED pc
      /\ wire[j] # NoRequest
      /\ OneCopy(k)
  BY DEF IInv, TypeOK, Serve, Dav!ServePut, Dav!ServeDelete, Dav!Refuse, CopiesCounted
<1>3. ~PutSent(j)' /\ (k # j => wire'[k] = wire[k] /\ answer'[k] = answer[k])
  BY <1>1, <1>2 DEF PutSent
<1>4. PutSent(k)' => PutSent(k)
  BY <1>3 DEF PutSent
<1>5. CASE Saved(j, code)
  <2>1. PICK p \in Paths, c \in Contents :
            /\ wire[j] = Dav!Put(p, Dav!Output(j, c))
            /\ files' = [files EXCEPT ![p] = Dav!Output(j, c)]
            /\ code = "ok"
    BY <1>5 DEF Saved
  <2>2. CASE k = j
    <3>1. NoCopy(j) /\ ~Fresh(j)
      BY <1>2, <2>1, <2>2, RequestFields DEF OneCopy, PutSent
    <3>2. \A q \in Paths : q # p => ~Stores(j, q)'
      BY <1>2, <2>1, <3>1 DEF NoCopy, Stores
    <3>3. ~Fresh(j)'
      BY <1>1, <1>2, <2>1, <3>1 DEF Fresh
    <3>4. QED
      BY <1>3, <2>2, <3>2, <3>3 DEF OneCopy
  <2>3. CASE k # j
    <3>1. \A q \in Paths : Stores(k, q)' => Stores(k, q)
      BY <1>2, <2>1, <2>3, VersionFacts DEF Stores
    <3>2. Fresh(k)' => Fresh(k)
      BY <1>2, <1>3, <2>3 DEF Fresh
    <3>3. QED
      BY <1>2, <1>4, <3>1, <3>2, CopiesStay
  <2>4. QED
    BY <2>2, <2>3
<1>6. CASE ~Saved(j, code)
  <2>1. files' = files \/ files' = [files EXCEPT ![SourceOf[j]] = Absent]
    BY <1>1, <1>6 DEF Refused, Missing, Removed
  <2>2. \A q \in Paths : Stores(k, q)' => Stores(k, q)
    BY <1>2, <2>1, TokensAssumption DEF Stores, Outputs
  <2>3. CASE Fresh(k)' => Fresh(k)
    BY <1>2, <1>4, <2>2, <2>3, CopiesStay
  <2>4. CASE Fresh(k)' /\ ~Fresh(k)
    <3>1. k = j /\ pc[j] = "putting"
      BY <1>2, <1>3, <2>4 DEF Fresh
    <3>2. PutSent(j)
      BY <1>2, <3>1, RequestFields DEF IInv, WorkersKnow, WorkerKnows, PutSent
    <3>3. NoCopy(j)
      BY <1>2, <3>1, <3>2 DEF OneCopy
    <3>4. NoCopy(j)'
      BY <2>2, <3>1, <3>3 DEF NoCopy
    <3>5. QED
      BY <1>3, <3>1, <3>4 DEF OneCopy, NoCopy
  <2>5. QED
    BY <2>3, <2>4
<1>7. QED
  BY <1>5, <1>6

LEMMA CopiesNext == IInv /\ CopiesCounted /\ [Next]_vars => CopiesCounted'
<1> SUFFICES ASSUME IInv, CopiesCounted, [Next]_vars, NEW k \in Jobs PROVE OneCopy(k)'
  BY DEF CopiesCounted
<1>1. /\ pc \in [Jobs -> Waits \union Stages \union Deferred \union Over]
      /\ OneCopy(k)
  BY DEF IInv, TypeOK, CopiesCounted
<1>2. ASSUME NEW j \in Jobs, Worker(j) \/ Serve(j) PROVE OneCopy(k)'
  BY <1>2, CopiesWorker, CopiesServe
<1>3. ASSUME NEW j \in Jobs, Admit(j) \/ Accept(j) PROVE OneCopy(k)'
  <2>1. /\ pc[j] \in {"idle", "admitted"} /\ \E l : Goto(j, l)
        /\ UNCHANGED <<files, wire, answer>>
    BY <1>3 DEF Admit, Accept, davVars
  <2>2. Fresh(k)' => Fresh(k)
    BY <1>1, <2>1 DEF Fresh, Before, Waits, Goto
  <2>3. QED
    BY <1>1, <2>1, <2>2, SameFilesCopies
<1>4. ASSUME UNCHANGED <<pc, files, wire, answer>> PROVE OneCopy(k)'
  BY <1>1, <1>4, SameFilesCopies DEF Fresh
<1>5. ASSUME NEW j \in Jobs, Cancel(j) \/ Deadline(j) \/ Shutdown(j) \/ PruneTask(j)
      PROVE  OneCopy(k)'
  BY <1>4, <1>5 DEF Cancel, Deadline, Shutdown, PruneTask, davVars
<1>6. CASE Quiet \/ UNCHANGED vars
  BY <1>4, <1>6 DEF Quiet, vars, davVars
<1>7. CASE UserEdit
  <2>1. /\ UNCHANGED <<pc, wire, answer>>
        /\ \E p \in Paths, v \in {Dav!UserFile(edits + 1), Absent} : files' = [files EXCEPT ![p] = v]
    BY <1>7, ConverterAssumption DEF UserEdit, Dav!Edit
  <2>2. \A c \in Contents : Dav!Output(k, c) \notin {Dav!UserFile(edits + 1), Absent}
    BY TokensAssumption DEF Dav!Output, Dav!UserFile, Outputs
  <2>3. \A q \in Paths : Stores(k, q)' => Stores(k, q)
    BY <2>1, <2>2 DEF Stores, IInv, TypeOK
  <2>4. QED
    BY <1>1, <2>1, <2>3, CopiesStay DEF PutSent, Fresh
<1>8. CASE Restart
  <2>1. /\ pc' = [j \in Jobs |-> IF Alive(j) THEN "lost" ELSE pc[j]]
        /\ answer' = [j \in Jobs |-> "none"]
        /\ UNCHANGED <<files, wire>>
    BY <1>8 DEF Restart
  <2>2. Fresh(k)' => Fresh(k)
    BY <2>1 DEF Fresh, Before, Waits
  <2>3. QED
    BY <1>1, <2>1, <2>2, SameFilesCopies
<1>9. QED
  BY <1>2, <1>3, <1>5, <1>6, <1>7, <1>8 DEF Next

\* Whatever answers are lost, requests executed late, names taken and
\* processes restarted: a job leaves one copy of its conversion at most.
THEOREM OneOutputEach == Spec => []OneOutput
<1>1. Init => CopiesCounted
  <2> SUFFICES ASSUME Init, NEW j \in Jobs PROVE OneCopy(j)
    BY DEF CopiesCounted
  <2>1. wire[j] = NoRequest /\ files \in [Paths -> {Absent, Dav!UserFile(0)}]
    BY DEF Init
  <2>2. \A c \in Contents : Dav!Output(j, c) \notin {Dav!UserFile(0), Absent}
    BY TokensAssumption DEF Dav!Output, Dav!UserFile, Outputs
  <2>3. NoCopy(j) /\ ~PutSent(j)
    BY <2>1, <2>2 DEF NoCopy, Stores, PutSent
  <2>4. QED
    BY <2>3 DEF OneCopy, NoCopy
<1>2. CopiesCounted => OneOutput
  BY DEF CopiesCounted, OneCopy, OneOutput
<1>3. QED
  BY <1>1, <1>2, CopiesNext, IInvInvariant, PTL DEF Spec
=============================================================================
