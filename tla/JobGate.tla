------------------------------ MODULE JobGate ------------------------------
(***************************************************************************)
(* The admission gate of the converter, src/ex_app/job_gate.go.            *)
(*                                                                         *)
(* One mutex guards three counters.  reserve, the locked part of acquire   *)
(* and release each run under it and are single steps here; everything     *)
(* acquire does outside the lock (reading ctx.Err, waiting for the 50 ms   *)
(* ticker or for the context) is a step of its own, so that other jobs     *)
(* move in between.  The gate knows nothing of who runs: it only counts.   *)
(* That the counters agree with the jobs that really hold a slot is        *)
(* Accounting, not a definition.                                           *)
(*                                                                         *)
(* The clients of the gate are left free here: they may call acquire or    *)
(* not, release at any moment and any number of times (job_gate_test.go    *)
(* does both), and a context may end at any moment.  Converter instantiates*)
(* the module with the one client the program has.                         *)
(***************************************************************************)
EXTENDS Integers, FiniteSets

CONSTANTS
    Jobs,       \* identities of reservations
    Users,      \* user ids
    UserOf,     \* jobReservation.userID of each job
    Settings,   \* the values of AppSettings a reservation can snapshot
    NoSettings, \* no reservation has been made
    EndReasons  \* why a context ends: context.Canceled, DeadlineExceeded

ASSUME JobsAssumption == IsFiniteSet(Jobs)

ASSUME UserAssumption == UserOf \in [Jobs -> Users]

\* clampInt keeps both concurrency limits at 1 or more and the queue limit
\* at 0 or more (readAppSettings).
ASSUME SettingsAssumption ==
    /\ \A s \in Settings : /\ s.MaxConcurrentJobs \in Nat \ {0}
                           /\ s.MaxConcurrentJobsPerUser \in Nat \ {0}
                           /\ s.MaxQueuedJobsPerUser \in Nat
    /\ NoSettings \notin Settings

ASSUME ReasonsAssumption == "live" \notin EndReasons

VARIABLES
    \* the gate
    activeTotal,   \* jobGate.activeTotal
    activeByUser,  \* jobGate.activeByUser, an absent key is 0
    queuedByUser,  \* jobGate.queuedByUser, an absent key is 0
    \* the reservations
    settings,      \* jobReservation.settings, NoSettings before reserve
    active,        \* the reservations whose flag active is set
    released,      \* the reservations whose flag released is set
    \* their callers
    call,          \* where the caller is in reserve and acquire
    ctx            \* ctx.Err() of the context given to acquire

gateVars == <<activeTotal, activeByUser, queuedByUser, settings, active, released>>
vars == <<gateVars, call, ctx>>

\* idle: no call made.  refused: reserve returned errQueueFull.  held: reserve
\* returned a reservation.  check, lock, wait: inside acquire, before ctx.Err,
\* before the lock, and in the select.  ok, err: acquire returned.
Acquiring == {"check", "lock", "wait"}
Calls == {"idle", "refused", "held", "ok", "err"} \union Acquiring
CtxStates == {"live"} \union EndReasons

-----------------------------------------------------------------------------
Increment(counts, u) == [counts EXCEPT ![u] = counts[u] + 1]

Decrement(counts, u) ==
    [counts EXCEPT ![u] = IF counts[u] <= 1 THEN 0 ELSE counts[u] - 1]

\* Mutation of CanRun: one job too many in total.
CanRun_OneMore(s, u) ==
    /\ activeTotal <= s.MaxConcurrentJobs
    /\ activeByUser[u] < s.MaxConcurrentJobsPerUser

CanRun(s, u) ==
    /\ activeTotal < s.MaxConcurrentJobs
    /\ activeByUser[u] < s.MaxConcurrentJobsPerUser

\* A reservation that exists and has not been given back.
Held(j) == settings[j] # NoSettings /\ j \notin released

\* The job identity can make a (new) reservation: its last one is over and
\* no acquire of it is still under way.
Free(j) == ~Held(j) /\ call[j] \notin Acquiring

Running == {j \in Jobs : Held(j) /\ j \in active}
Waiting == {j \in Jobs : Held(j) /\ j \notin active}
OwnedBy(S, u) == {j \in S : UserOf[j] = u}

-----------------------------------------------------------------------------
Init ==
    /\ activeTotal = 0
    /\ activeByUser = [u \in Users |-> 0]
    /\ queuedByUser = [u \in Users |-> 0]
    /\ settings = [j \in Jobs |-> NoSettings]
    /\ active = {}
    /\ released = {}
    /\ call = [j \in Jobs |-> "idle"]
    /\ ctx = [j \in Jobs |-> "live"]

\* reserve finds a free slot and takes it before it returns.
ReserveSlot(j, s) ==
    /\ Free(j)
    /\ CanRun(s, UserOf[j])
    /\ activeTotal' = activeTotal + 1
    /\ activeByUser' = Increment(activeByUser, UserOf[j])
    /\ settings' = [settings EXCEPT ![j] = s]
    /\ active' = active \union {j}
    /\ released' = released \ {j}
    /\ call' = [call EXCEPT ![j] = "held"]
    /\ ctx' = [ctx EXCEPT ![j] = "live"]
    /\ UNCHANGED queuedByUser

\* reserve finds no slot but a place in the queue of the user.
ReserveQueued(j, s) ==
    /\ Free(j)
    /\ ~CanRun(s, UserOf[j])
    /\ queuedByUser[UserOf[j]] < s.MaxQueuedJobsPerUser
    /\ queuedByUser' = Increment(queuedByUser, UserOf[j])
    /\ settings' = [settings EXCEPT ![j] = s]
    /\ active' = active \ {j}
    /\ released' = released \ {j}
    /\ call' = [call EXCEPT ![j] = "held"]
    /\ ctx' = [ctx EXCEPT ![j] = "live"]
    /\ UNCHANGED <<activeTotal, activeByUser>>

\* reserve returns errQueueFull and no reservation, and counts nothing.
ReserveRefused(j, s) ==
    /\ Free(j)
    /\ ~CanRun(s, UserOf[j])
    /\ queuedByUser[UserOf[j]] >= s.MaxQueuedJobsPerUser
    /\ settings' = [settings EXCEPT ![j] = NoSettings]
    /\ active' = active \ {j}
    /\ released' = released \ {j}
    /\ call' = [call EXCEPT ![j] = "refused"]
    /\ ctx' = [ctx EXCEPT ![j] = "live"]
    /\ UNCHANGED <<activeTotal, activeByUser, queuedByUser>>

Reserve(j, s) == ReserveSlot(j, s) \/ ReserveQueued(j, s) \/ ReserveRefused(j, s)

\* acquire is called, once for each reservation.
AcquireStart(j) ==
    /\ call[j] = "held"
    /\ call' = [call EXCEPT ![j] = "check"]
    /\ UNCHANGED <<gateVars, ctx>>

\* The top of the loop reads ctx.Err() without the lock.
AcquireCheck(j) ==
    /\ call[j] = "check"
    /\ call' = [call EXCEPT ![j] = IF ctx[j] = "live" THEN "lock" ELSE "err"]
    /\ UNCHANGED <<gateVars, ctx>>

\* The locked part of the loop.  The context is not read again.
AcquireReleased(j) ==
    /\ call[j] = "lock"
    /\ j \in released
    /\ call' = [call EXCEPT ![j] = "err"]
    /\ UNCHANGED <<gateVars, ctx>>

AcquireActive(j) ==
    /\ call[j] = "lock"
    /\ j \notin released
    /\ j \in active
    /\ call' = [call EXCEPT ![j] = "ok"]
    /\ UNCHANGED <<gateVars, ctx>>

\* Mutation of AcquirePromote: the job keeps its place in the queue.
AcquirePromote_KeepsQueued(j) ==
    /\ call[j] = "lock"
    /\ j \notin released \union active
    /\ CanRun(settings[j], UserOf[j])
    /\ activeTotal' = activeTotal + 1
    /\ activeByUser' = Increment(activeByUser, UserOf[j])
    /\ active' = active \union {j}
    /\ call' = [call EXCEPT ![j] = "ok"]
    /\ UNCHANGED <<queuedByUser, settings, released, ctx>>

AcquirePromote(j) ==
    /\ call[j] = "lock"
    /\ j \notin released
    /\ j \notin active
    /\ CanRun(settings[j], UserOf[j])
    /\ queuedByUser' = Decrement(queuedByUser, UserOf[j])
    /\ activeTotal' = activeTotal + 1
    /\ activeByUser' = Increment(activeByUser, UserOf[j])
    /\ active' = active \union {j}
    /\ call' = [call EXCEPT ![j] = "ok"]
    /\ UNCHANGED <<settings, released, ctx>>

AcquireBlocked(j) ==
    /\ call[j] = "lock"
    /\ j \notin released
    /\ j \notin active
    /\ ~CanRun(settings[j], UserOf[j])
    /\ call' = [call EXCEPT ![j] = "wait"]
    /\ UNCHANGED <<gateVars, ctx>>

AcquireLock(j) ==
    AcquireReleased(j) \/ AcquireActive(j) \/ AcquirePromote(j) \/ AcquireBlocked(j)

\* Mutation of AcquireTick: the loop waits for the context alone.
AcquireTick_Never(j) ==
    /\ call[j] = "wait"
    /\ ctx[j] # "live"
    /\ call' = [call EXCEPT ![j] = "check"]
    /\ UNCHANGED <<gateVars, ctx>>

\* The select: the ticker fires, even when the context has ended too.
AcquireTick(j) ==
    /\ call[j] = "wait"
    /\ call' = [call EXCEPT ![j] = "check"]
    /\ UNCHANGED <<gateVars, ctx>>

AcquireDone(j) ==
    /\ call[j] = "wait"
    /\ ctx[j] # "live"
    /\ call' = [call EXCEPT ![j] = "err"]
    /\ UNCHANGED <<gateVars, ctx>>

\* Mutation of Release: a second call gives the slot back again.
Release_Twice(j) ==
    /\ settings[j] # NoSettings
    /\ released' = released \union {j}
    /\ IF j \in active
       THEN /\ activeTotal' = activeTotal - 1
            /\ activeByUser' = Decrement(activeByUser, UserOf[j])
            /\ UNCHANGED queuedByUser
       ELSE /\ queuedByUser' = Decrement(queuedByUser, UserOf[j])
            /\ UNCHANGED <<activeTotal, activeByUser>>
    /\ UNCHANGED <<settings, active, call, ctx>>

\* release: a call on a reservation already released changes nothing.
Release(j) ==
    /\ Held(j)
    /\ released' = released \union {j}
    /\ IF j \in active
       THEN /\ activeTotal' = activeTotal - 1
            /\ activeByUser' = Decrement(activeByUser, UserOf[j])
            /\ UNCHANGED queuedByUser
       ELSE /\ queuedByUser' = Decrement(queuedByUser, UserOf[j])
            /\ UNCHANGED <<activeTotal, activeByUser>>
    /\ UNCHANGED <<settings, active, call, ctx>>

\* The context ends: cancel() is called, or its deadline passes.  The first
\* reason stays.
EndContext(j, why) ==
    /\ ~Free(j)
    /\ ctx[j] = "live"
    /\ ctx' = [ctx EXCEPT ![j] = why]
    /\ UNCHANGED <<gateVars, call>>

\* The process restarts: conversionGate is a fresh jobGate.
Restart ==
    /\ activeTotal' = 0
    /\ activeByUser' = [u \in Users |-> 0]
    /\ queuedByUser' = [u \in Users |-> 0]
    /\ settings' = [j \in Jobs |-> NoSettings]
    /\ active' = {}
    /\ released' = {}
    /\ call' = [j \in Jobs |-> "idle"]
    /\ ctx' = [j \in Jobs |-> "live"]

JobStep(j) ==
    \/ \E s \in Settings : Reserve(j, s)
    \/ AcquireStart(j)
    \/ AcquireCheck(j)
    \/ AcquireLock(j)
    \/ AcquireTick(j)
    \/ AcquireDone(j)
    \/ Release(j)
    \/ \E why \in EndReasons : EndContext(j, why)

Next == (\E j \in Jobs : JobStep(j)) \/ Restart

Spec == Init /\ [][Next]_vars

-----------------------------------------------------------------------------
(***************************************************************************)
(* Safety.                                                                 *)
(***************************************************************************)

\* The state has the shape the code declares, and no counter is negative
\* (activeTotal is an int that only the guard of release keeps above zero).
TypeOK ==
    /\ activeTotal \in Nat
    /\ activeByUser \in [Users -> Nat]
    /\ queuedByUser \in [Users -> Nat]
    /\ settings \in [Jobs -> Settings \union {NoSettings}]
    /\ active \in SUBSET Jobs
    /\ released \in SUBSET Jobs
    /\ call \in [Jobs -> Calls]
    /\ ctx \in [Jobs -> CtxStates]

Counts(counts, S) == \A u \in Users : counts[u] = Cardinality(OwnedBy(S, u))

\* "capacity leaked" (job_gate_test.go): every counter equals the number of
\* reservations that hold what it counts, whatever the callers do.
Accounting ==
    /\ activeTotal = Cardinality(Running)
    /\ Counts(activeByUser, Running)
    /\ Counts(queuedByUser, Waiting)

\* Each job runs, or waits, under the limits it was admitted with, and an
\* administrator may have changed them since.  Among the jobs of S, those
\* whose limit is no wider than the limit of j are no more than it allows.
\* With one value of the settings this is the plain limit.
WithinLimits(S, limit) ==
    \A j \in S : Cardinality({k \in S : limit[k] <= limit[j]}) <= limit[j]

TotalLimitOf == [j \in Running |-> settings[j].MaxConcurrentJobs]
UserLimitOf(u) == [j \in OwnedBy(Running, u) |-> settings[j].MaxConcurrentJobsPerUser]
QueueLimitOf(u) == [j \in OwnedBy(Waiting, u) |-> settings[j].MaxQueuedJobsPerUser]

\* max_concurrent_jobs, max_concurrent_jobs_per_user and
\* max_queued_jobs_per_user bound the jobs that really run and wait.
TotalLimitRespected == WithinLimits(Running, TotalLimitOf)
UserLimitRespected == \A u \in Users : WithinLimits(OwnedBy(Running, u), UserLimitOf(u))
QueueLimitRespected == \A u \in Users : WithinLimits(OwnedBy(Waiting, u), QueueLimitOf(u))

LimitsRespected == TotalLimitRespected /\ UserLimitRespected /\ QueueLimitRespected

\* acquire returns nil only to a caller that has a slot, and the slot stays
\* its own until it is released: processTask converts on that return alone.
HeldSlot == \A j \in Jobs : call[j] = "ok" /\ Held(j) => j \in Running

-----------------------------------------------------------------------------
(***************************************************************************)
(* The gate implements the pool of slots.                                  *)
(***************************************************************************)
HeldSettings == [j \in Jobs |-> IF Held(j) THEN settings[j] ELSE NoSettings]

Pool == INSTANCE SlotPool WITH running <- Running, waiting <- Waiting, limits <- HeldSettings

\* Every step of the gate is a step of the abstract pool or changes nothing
\* of it: in particular a job is queued only while its limits leave no room,
\* and a slot or queue place is given back exactly once.
ImplementsSlotPool == Pool!PoolSpec

-----------------------------------------------------------------------------
(***************************************************************************)
(* Liveness.  Only the steps of a goroutine inside acquire are fair: they  *)
(* are ordinary computation and a ticker that always fires again.  Nothing *)
(* makes a client call, release or cancel.                                 *)
(***************************************************************************)
Fairness ==
    \A j \in Jobs : /\ WF_vars(AcquireCheck(j))
                    /\ WF_vars(AcquireLock(j))
                    /\ WF_vars(AcquireTick(j))

FairSpec == Spec /\ Fairness

\* A slot is not left idle while a job polls for it: no job stays in acquire
\* for ever with room for it all the time.  (That every waiting job gets a
\* slot is NOT promised: there is no order among waiting and new jobs.)
NoIdleCapacity ==
    \A j \in Jobs :
        []<>~(call[j] \in Acquiring /\ j \in Waiting /\ CanRun(settings[j], UserOf[j]))
=============================================================================
