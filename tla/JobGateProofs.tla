--------------------------- MODULE JobGateProofs ---------------------------
(***************************************************************************)
(* Theorems about JobGate, for any finite set of jobs, any users and any   *)
(* set of admin settings.                                                  *)
(***************************************************************************)
EXTENDS JobGate, FiniteSetTheorems, TLAPS

-----------------------------------------------------------------------------
(***************************************************************************)
(* Counting.                                                               *)
(***************************************************************************)

\* One more job of user v: the count of v grows by one, the others stay.
LEMMA CountsAdd ==
    ASSUME NEW S, IsFiniteSet(S), NEW j \in Jobs, j \notin S,
           NEW counts \in [Users -> Nat],
           Counts(counts, S)
    PROVE  /\ Increment(counts, UserOf[j]) \in [Users -> Nat]
           /\ Counts(Increment(counts, UserOf[j]), S \union {j})
<1>1. UserOf[j] \in Users
  BY UserAssumption
<1>2. Increment(counts, UserOf[j]) \in [Users -> Nat]
  BY <1>1 DEF Increment
<1>3. ASSUME NEW u \in Users
      PROVE  Increment(counts, UserOf[j])[u] = Cardinality(OwnedBy(S \union {j}, u))
  <2>1. IsFiniteSet(OwnedBy(S, u))
    <3>1. OwnedBy(S, u) \subseteq S
      BY DEF OwnedBy
    <3>2. QED
      BY <3>1, FS_Subset
  <2>2. CASE u = UserOf[j]
    <3>1. OwnedBy(S \union {j}, u) = OwnedBy(S, u) \union {j}
      BY <2>2 DEF OwnedBy
    <3>2. j \notin OwnedBy(S, u)
      BY DEF OwnedBy
    <3>3. Cardinality(OwnedBy(S, u) \union {j}) = Cardinality(OwnedBy(S, u)) + 1
      BY <2>1, <3>2, FS_AddElement
    <3>4. QED
      BY <2>2, <3>1, <3>3 DEF Increment, Counts
  <2>3. CASE u # UserOf[j]
    <3>1. OwnedBy(S \union {j}, u) = OwnedBy(S, u)
      BY <2>3 DEF OwnedBy
    <3>2. QED
      BY <2>3, <3>1 DEF Increment, Counts
  <2>4. QED
    BY <2>2, <2>3
<1>4. QED
  BY <1>2, <1>3 DEF Counts

\* One job of user v less: the count of v, which is at least one, shrinks by
\* one.  The floor of decrementUserCount is never reached.
LEMMA CountsRemove ==
    ASSUME NEW S, IsFiniteSet(S), NEW j \in Jobs, j \in S,
           NEW counts \in [Users -> Nat],
           Counts(counts, S)
    PROVE  /\ Decrement(counts, UserOf[j]) \in [Users -> Nat]
           /\ Counts(Decrement(counts, UserOf[j]), S \ {j})
<1>1. UserOf[j] \in Users
  BY UserAssumption
<1>2. Decrement(counts, UserOf[j]) \in [Users -> Nat]
  BY <1>1 DEF Decrement
<1>3. ASSUME NEW u \in Users
      PROVE  Decrement(counts, UserOf[j])[u] = Cardinality(OwnedBy(S \ {j}, u))
  <2>1. IsFiniteSet(OwnedBy(S, u))
    <3>1. OwnedBy(S, u) \subseteq S
      BY DEF OwnedBy
    <3>2. QED
      BY <3>1, FS_Subset
  <2>2. CASE u = UserOf[j]
    <3>1. OwnedBy(S \ {j}, u) = OwnedBy(S, u) \ {j}
      BY DEF OwnedBy
    <3>2. j \in OwnedBy(S, u)
      BY <2>2 DEF OwnedBy
    <3>3. Cardinality(OwnedBy(S, u) \ {j}) = Cardinality(OwnedBy(S, u)) - 1
      BY <2>1, <3>2, FS_RemoveElement
    <3>4. Cardinality(OwnedBy(S, u) \ {j}) \in Nat
      BY <2>1, FS_RemoveElement, FS_CardinalityType
    <3>5. QED
      BY <2>2, <3>1, <3>3, <3>4 DEF Decrement, Counts
  <2>3. CASE u # UserOf[j]
    <3>1. OwnedBy(S \ {j}, u) = OwnedBy(S, u)
      BY <2>3 DEF OwnedBy
    <3>2. QED
      BY <2>3, <3>1 DEF Decrement, Counts
  <2>4. QED
    BY <2>2, <2>3
<1>4. QED
  BY <1>2, <1>3 DEF Counts

-----------------------------------------------------------------------------
(***************************************************************************)
(* The inductive invariant.  Accounting alone is not inductive: the step   *)
(* that promotes a waiting job needs to know that a caller inside acquire  *)
(* has a reservation.                                                      *)
(***************************************************************************)
CallersReserved ==
    \A j \in Jobs : call[j] \in Acquiring \union {"held"} => settings[j] # NoSettings

IInv == TypeOK /\ CallersReserved /\ Accounting

\* Both sets are finite, disjoint, and made of jobs.
LEMMA PoolFinite ==
    /\ Running \subseteq Jobs /\ IsFiniteSet(Running)
    /\ Waiting \subseteq Jobs /\ IsFiniteSet(Waiting)
    /\ Running \intersect Waiting = {}
<1>1. Running \subseteq Jobs /\ Waiting \subseteq Jobs
  BY DEF Running, Waiting
<1>2. IsFiniteSet(Running) /\ IsFiniteSet(Waiting)
  BY <1>1, JobsAssumption, FS_Subset
<1>3. QED
  BY <1>1, <1>2 DEF Running, Waiting

\* A step that takes a slot: of the counters, the total and the owner's grow.
LEMMA SlotTaken ==
    ASSUME IInv, NEW j \in Jobs, j \notin Running,
           Running' = Running \union {j},
           activeTotal' = activeTotal + 1,
           activeByUser' = Increment(activeByUser, UserOf[j])
    PROVE  /\ activeTotal' \in Nat
           /\ activeByUser' \in [Users -> Nat]
           /\ activeTotal' = Cardinality(Running')
           /\ Counts(activeByUser', Running')
<1>1. activeTotal \in Nat /\ activeByUser \in [Users -> Nat]
  BY DEF IInv, TypeOK
<1>2. /\ activeTotal = Cardinality(Running)
      /\ Counts(activeByUser, Running)
  BY DEF IInv, Accounting
<1>3. Cardinality(Running \union {j}) = Cardinality(Running) + 1
  BY PoolFinite, FS_AddElement
<1>4. /\ Increment(activeByUser, UserOf[j]) \in [Users -> Nat]
      /\ Counts(Increment(activeByUser, UserOf[j]), Running \union {j})
  BY <1>1, <1>2, PoolFinite, CountsAdd
<1>5. QED
  BY <1>1, <1>2, <1>3, <1>4

\* A step that gives a slot back: the total, at least one, shrinks with the
\* count of the owner.
LEMMA SlotGiven ==
    ASSUME IInv, NEW j \in Jobs, j \in Running,
           Running' = Running \ {j},
           activeTotal' = activeTotal - 1,
           activeByUser' = Decrement(activeByUser, UserOf[j])
    PROVE  /\ activeTotal' \in Nat
           /\ activeByUser' \in [Users -> Nat]
           /\ activeTotal' = Cardinality(Running')
           /\ Counts(activeByUser', Running')
<1>1. activeTotal \in Nat /\ activeByUser \in [Users -> Nat]
  BY DEF IInv, TypeOK
<1>2. /\ activeTotal = Cardinality(Running)
      /\ Counts(activeByUser, Running)
  BY DEF IInv, Accounting
<1>3. /\ Cardinality(Running \ {j}) = Cardinality(Running) - 1
      /\ Cardinality(Running \ {j}) \in Nat
  BY PoolFinite, FS_RemoveElement, FS_CardinalityType
<1>4. /\ Decrement(activeByUser, UserOf[j]) \in [Users -> Nat]
      /\ Counts(Decrement(activeByUser, UserOf[j]), Running \ {j})
  BY <1>1, <1>2, PoolFinite, CountsRemove
<1>5. QED
  BY <1>1, <1>2, <1>3, <1>4

\* A step that takes, or gives back, a place in a queue.
LEMMA QueueTaken ==
    ASSUME IInv, NEW j \in Jobs, j \notin Waiting,
           Waiting' = Waiting \union {j},
           queuedByUser' = Increment(queuedByUser, UserOf[j])
    PROVE  /\ queuedByUser' \in [Users -> Nat]
           /\ Counts(queuedByUser', Waiting')
<1>1. queuedByUser \in [Users -> Nat]
  BY DEF IInv, TypeOK
<1>2. Counts(queuedByUser, Waiting)
  BY DEF IInv, Accounting
<1>3. QED
  BY <1>1, <1>2, PoolFinite, CountsAdd

LEMMA QueueGiven ==
    ASSUME IInv, NEW j \in Jobs, j \in Waiting,
           Waiting' = Waiting \ {j},
           queuedByUser' = Decrement(queuedByUser, UserOf[j])
    PROVE  /\ queuedByUser' \in [Users -> Nat]
           /\ Counts(queuedByUser', Waiting')
<1>1. queuedByUser \in [Users -> Nat]
  BY DEF IInv, TypeOK
<1>2. Counts(queuedByUser, Waiting)
  BY DEF IInv, Accounting
<1>3. QED
  BY <1>1, <1>2, PoolFinite, CountsRemove

-----------------------------------------------------------------------------
(***************************************************************************)
(* One lemma for each kind of step: what it does to the pool, and that it  *)
(* keeps the inductive invariant.                                          *)
(***************************************************************************)

\* reserve with a free slot moves j into Running.
LEMMA ReserveSlotStep ==
    ASSUME IInv, NEW j \in Jobs, NEW s \in Settings, ReserveSlot(j, s)
    PROVE  /\ IInv'
           /\ j \notin Running \union Waiting
           /\ Running' = Running \union {j}
           /\ Waiting' = Waiting
<1>1. j \notin Running \union Waiting
  BY DEF ReserveSlot, Free, Running, Waiting
<1>2. Running' = Running \union {j} /\ Waiting' = Waiting
  BY SettingsAssumption DEF IInv, TypeOK, ReserveSlot, Free, Held, Running, Waiting
<1>3. /\ activeTotal' \in Nat
      /\ activeByUser' \in [Users -> Nat]
      /\ activeTotal' = Cardinality(Running')
      /\ Counts(activeByUser', Running')
  BY <1>1, <1>2, SlotTaken DEF ReserveSlot
<1>4. TypeOK'
  BY <1>3 DEF IInv, TypeOK, ReserveSlot, Calls, CtxStates
<1>5. CallersReserved'
  BY SettingsAssumption DEF IInv, TypeOK, CallersReserved, ReserveSlot
<1>6. Accounting'
  BY <1>2, <1>3 DEF IInv, Accounting, ReserveSlot
<1>7. QED
  BY <1>1, <1>2, <1>4, <1>5, <1>6 DEF IInv

\* reserve without a free slot moves j into Waiting.
LEMMA ReserveQueuedStep ==
    ASSUME IInv, NEW j \in Jobs, NEW s \in Settings, ReserveQueued(j, s)
    PROVE  /\ IInv'
           /\ j \notin Running \union Waiting
           /\ Running' = Running
           /\ Waiting' = Waiting \union {j}
<1>1. j \notin Running \union Waiting
  BY DEF ReserveQueued, Free, Running, Waiting
<1>2. Running' = Running /\ Waiting' = Waiting \union {j}
  BY SettingsAssumption DEF IInv, TypeOK, ReserveQueued, Free, Held, Running, Waiting
<1>3. /\ queuedByUser' \in [Users -> Nat]
      /\ Counts(queuedByUser', Waiting')
  BY <1>1, <1>2, QueueTaken DEF ReserveQueued
<1>4. TypeOK'
  BY <1>3 DEF IInv, TypeOK, ReserveQueued, Calls, CtxStates
<1>5. CallersReserved'
  BY SettingsAssumption DEF IInv, TypeOK, CallersReserved, ReserveQueued
<1>6. Accounting'
  BY <1>2, <1>3 DEF IInv, Accounting, ReserveQueued
<1>7. QED
  BY <1>1, <1>2, <1>4, <1>5, <1>6 DEF IInv

\* reserve that refuses leaves the pool alone.
LEMMA ReserveRefusedStep ==
    ASSUME IInv, NEW j \in Jobs, NEW s \in Settings, ReserveRefused(j, s)
    PROVE  IInv' /\ Running' = Running /\ Waiting' = Waiting
<1>1. Running' = Running /\ Waiting' = Waiting
  BY DEF IInv, TypeOK, ReserveRefused, Free, Held, Running, Waiting
<1>2. TypeOK'
  BY DEF IInv, TypeOK, ReserveRefused, Calls, CtxStates
<1>3. CallersReserved'
  BY DEF IInv, TypeOK, CallersReserved, ReserveRefused, Acquiring
<1>4. Accounting'
  BY <1>1 DEF IInv, Accounting, ReserveRefused
<1>5. QED
  BY <1>1, <1>2, <1>3, <1>4 DEF IInv

\* The step of acquire that takes the slot moves j from Waiting to Running.
LEMMA AcquirePromoteStep ==
    ASSUME IInv, NEW j \in Jobs, AcquirePromote(j)
    PROVE  /\ IInv'
           /\ j \in Waiting
           /\ Running' = Running \union {j}
           /\ Waiting' = Waiting \ {j}
<1>1. j \in Waiting
  BY DEF IInv, CallersReserved, Acquiring, AcquirePromote, Held, Waiting
<1>2. Running' = Running \union {j} /\ Waiting' = Waiting \ {j}
  BY <1>1 DEF AcquirePromote, Held, Running, Waiting
<1>3. /\ activeTotal' \in Nat
      /\ activeByUser' \in [Users -> Nat]
      /\ activeTotal' = Cardinality(Running')
      /\ Counts(activeByUser', Running')
  BY <1>1, <1>2, PoolFinite, SlotTaken DEF AcquirePromote
<1>4. /\ queuedByUser' \in [Users -> Nat]
      /\ Counts(queuedByUser', Waiting')
  BY <1>1, <1>2, QueueGiven DEF AcquirePromote
<1>5. TypeOK'
  BY <1>3, <1>4 DEF IInv, TypeOK, AcquirePromote, Calls
<1>6. CallersReserved'
  BY DEF IInv, TypeOK, CallersReserved, AcquirePromote, Acquiring
<1>7. Accounting'
  BY <1>3, <1>4 DEF Accounting
<1>8. QED
  BY <1>1, <1>2, <1>5, <1>6, <1>7 DEF IInv

\* The steps of a caller that only move through acquire, and the end of a
\* context, leave the gate and the reservations alone.
LEMMA CallerStep ==
    ASSUME IInv, NEW j \in Jobs,
           \/ AcquireStart(j) \/ AcquireCheck(j) \/ AcquireReleased(j)
           \/ AcquireActive(j) \/ AcquireBlocked(j) \/ AcquireTick(j)
           \/ AcquireDone(j) \/ (\E why \in EndReasons : EndContext(j, why))
    PROVE  IInv' /\ UNCHANGED gateVars /\ Running' = Running /\ Waiting' = Waiting
<1> USE DEF AcquireStart, AcquireCheck, AcquireReleased, AcquireActive,
            AcquireBlocked, AcquireTick, AcquireDone, EndContext
<1>1. UNCHANGED gateVars
  OBVIOUS
<1>2. Running' = Running /\ Waiting' = Waiting
  BY <1>1 DEF gateVars, Held, Running, Waiting
<1>3. TypeOK'
  BY <1>1 DEF IInv, TypeOK, gateVars, Calls, Acquiring, CtxStates
<1>4. CallersReserved'
  BY <1>1 DEF IInv, TypeOK, CallersReserved, gateVars, Acquiring
<1>5. Accounting'
  BY <1>1, <1>2 DEF IInv, Accounting, gateVars
<1>6. QED
  BY <1>1, <1>2, <1>3, <1>4, <1>5 DEF IInv

\* release takes j out of the pool, whichever side it was on.
LEMMA ReleaseStep ==
    ASSUME IInv, NEW j \in Jobs, Release(j)
    PROVE  /\ IInv'
           /\ j \in Running \union Waiting
           /\ Running' = Running \ {j}
           /\ Waiting' = Waiting \ {j}
<1>1. j \in Running \union Waiting
  BY DEF Release, Running, Waiting
<1>2. Running' = Running \ {j} /\ Waiting' = Waiting \ {j}
  BY DEF Release, Held, Running, Waiting
<1>3. TypeOK' /\ Accounting'
  <2>1. CASE j \in active
    <3>1. j \in Running /\ Waiting' = Waiting
      BY <1>1, <1>2, <2>1 DEF Running, Waiting
    <3>2. /\ activeTotal' \in Nat
          /\ activeByUser' \in [Users -> Nat]
          /\ activeTotal' = Cardinality(Running')
          /\ Counts(activeByUser', Running')
      BY <1>2, <2>1, <3>1, SlotGiven DEF Release
    <3>3. TypeOK'
      BY <2>1, <3>2 DEF IInv, TypeOK, Release
    <3>4. Accounting'
      BY <2>1, <3>1, <3>2 DEF IInv, Accounting, Release
    <3>5. QED
      BY <3>3, <3>4
  <2>2. CASE j \notin active
    <3>1. j \in Waiting /\ Running' = Running
      BY <1>1, <1>2, <2>2 DEF Running, Waiting
    <3>2. /\ queuedByUser' \in [Users -> Nat]
          /\ Counts(queuedByUser', Waiting')
      BY <1>2, <2>2, <3>1, QueueGiven DEF Release
    <3>3. TypeOK'
      BY <2>2, <3>2 DEF IInv, TypeOK, Release
    <3>4. Accounting'
      BY <2>2, <3>1, <3>2 DEF IInv, Accounting, Release
    <3>5. QED
      BY <3>3, <3>4
  <2>3. QED
    BY <2>1, <2>2
<1>4. CallersReserved'
  BY DEF IInv, CallersReserved, Release
<1>5. QED
  BY <1>1, <1>2, <1>3, <1>4 DEF IInv

\* A restart empties the pool.
LEMMA EmptyPool ==
    ASSUME activeTotal = 0,
           activeByUser = [u \in Users |-> 0],
           queuedByUser = [u \in Users |-> 0],
           settings = [j \in Jobs |-> NoSettings],
           active = {}, released = {},
           call = [j \in Jobs |-> "idle"],
           ctx = [j \in Jobs |-> "live"]
    PROVE  IInv /\ Running = {} /\ Waiting = {}
<1>1. Running = {} /\ Waiting = {}
  BY DEF Held, Running, Waiting
<1>2. TypeOK
  BY DEF TypeOK, Calls, CtxStates
<1>3. CallersReserved
  BY DEF CallersReserved, Acquiring
<1>4. Accounting
  <2>1. \A u \in Users : OwnedBy({}, u) = {}
    BY DEF OwnedBy
  <2>2. QED
    BY <1>1, <2>1, FS_EmptySet DEF Accounting, Counts
<1>5. QED
  BY <1>1, <1>2, <1>3, <1>4 DEF IInv

-----------------------------------------------------------------------------
(***************************************************************************)
(* The inductive invariant holds, and with it the type and the accounting. *)
(***************************************************************************)
LEMMA IInvInit == Init => IInv
BY EmptyPool DEF Init

LEMMA IInvNext == IInv /\ [Next]_vars => IInv'
<1> SUFFICES ASSUME IInv, [Next]_vars PROVE IInv'
  OBVIOUS
<1>1. ASSUME NEW j \in Jobs, JobStep(j) PROVE IInv'
  <2>1. CASE \E s \in Settings : Reserve(j, s)
    BY <2>1, ReserveSlotStep, ReserveQueuedStep, ReserveRefusedStep DEF Reserve
  <2>2. CASE AcquirePromote(j)
    BY <2>2, AcquirePromoteStep
  <2>3. CASE \/ AcquireStart(j) \/ AcquireCheck(j) \/ AcquireReleased(j)
             \/ AcquireActive(j) \/ AcquireBlocked(j) \/ AcquireTick(j)
             \/ AcquireDone(j) \/ (\E why \in EndReasons : EndContext(j, why))
    BY <2>3, CallerStep
  <2>4. CASE Release(j)
    BY <2>4, ReleaseStep
  <2>5. QED
    BY <1>1, <2>1, <2>2, <2>3, <2>4 DEF JobStep, AcquireLock
<1>2. CASE Restart
  <2>1. Init'
    BY <1>2 DEF Restart, Init
  <2>2. QED
    BY <2>1, IInvInit, PTL
<1>3. CASE UNCHANGED vars
  <2>1. Running' = Running /\ Waiting' = Waiting
    BY <1>3 DEF vars, gateVars, Held, Running, Waiting
  <2>2. TypeOK' /\ CallersReserved'
    BY <1>3 DEF IInv, TypeOK, CallersReserved, vars, gateVars
  <2>3. Accounting'
    BY <1>3, <2>1 DEF IInv, Accounting, vars, gateVars
  <2>4. QED
    BY <2>2, <2>3 DEF IInv
<1>4. QED
  BY <1>1, <1>2, <1>3 DEF Next

THEOREM IInvInvariant == Spec => []IInv
BY IInvInit, IInvNext, PTL DEF Spec

\* No counter of the gate ever goes negative, however often clients release.
THEOREM TypeCorrect == Spec => []TypeOK
BY IInvInvariant, PTL DEF IInv

\* The counters always equal the number of reservations that hold a slot or
\* a queue place: nothing leaks and nothing is given back twice.
THEOREM AccountingCorrect == Spec => []Accounting
BY IInvInvariant, PTL DEF IInv

-----------------------------------------------------------------------------
(***************************************************************************)
(* The limits.                                                             *)
(***************************************************************************)

\* A job joins S while S is smaller than its own limit: no job of S can have
\* a narrower limit exceeded by that.
LEMMA WithinLimitsAdd ==
    ASSUME NEW S, IsFiniteSet(S), NEW j, j \notin S,
           NEW f, NEW g,
           \A k \in S : f[k] \in Nat /\ g[k] = f[k],
           g[j] \in Nat, Cardinality(S) < g[j],
           WithinLimits(S, f)
    PROVE  WithinLimits(S \union {j}, g)
<1> DEFINE T == S \union {j}
           W(i) == {k \in T : g[k] <= g[i]}
<1>1. Cardinality(S) \in Nat /\ IsFiniteSet(T) /\ Cardinality(T) = Cardinality(S) + 1
  BY FS_CardinalityType, FS_AddElement
<1>2. ASSUME NEW i \in T PROVE Cardinality(W(i)) <= g[i]
  <2>1. g[i] \in Nat
    OBVIOUS
  <2>2. CASE g[j] <= g[i]
    <3>1. W(i) \subseteq T
      OBVIOUS
    <3>2. Cardinality(W(i)) \in Nat /\ Cardinality(W(i)) <= Cardinality(T)
      BY <1>1, <3>1, FS_Subset, FS_CardinalityType
    <3>3. QED
      BY <1>1, <2>1, <2>2, <3>2
  <2>3. CASE ~(g[j] <= g[i])
    <3>1. i \in S
      BY <2>1, <2>3
    <3>2. W(i) = {k \in S : f[k] <= f[i]}
      BY <2>3, <3>1
    <3>3. Cardinality({k \in S : f[k] <= f[i]}) <= f[i]
      BY <3>1 DEF WithinLimits
    <3>4. QED
      BY <3>1, <3>2, <3>3
  <2>4. QED
    BY <2>2, <2>3
<1>3. QED
  BY <1>2 DEF WithinLimits

\* A smaller set stays within the limits.
LEMMA WithinLimitsSubset ==
    ASSUME NEW S, IsFiniteSet(S), NEW T, T \subseteq S,
           NEW f, NEW g,
           \A k \in S : f[k] \in Nat,
           \A k \in T : g[k] = f[k],
           WithinLimits(S, f)
    PROVE  WithinLimits(T, g)
<1>1. ASSUME NEW i \in T PROVE Cardinality({k \in T : g[k] <= g[i]}) <= g[i]
  <2> DEFINE A == {k \in T : g[k] <= g[i]}
             B == {k \in S : f[k] <= f[i]}
  <2>1. A \subseteq B /\ B \subseteq S
    OBVIOUS
  <2>2. IsFiniteSet(B)
    BY <2>1, FS_Subset
  <2>3. /\ Cardinality(A) \in Nat /\ Cardinality(B) \in Nat
        /\ Cardinality(A) <= Cardinality(B)
    BY <2>1, <2>2, FS_Subset, FS_CardinalityType
  <2>4. Cardinality(B) <= f[i]
    BY DEF WithinLimits
  <2>5. f[i] \in Nat /\ g[i] = f[i]
    OBVIOUS
  <2> HIDE DEF A, B
  <2>6. Cardinality(A) <= g[i]
    BY <2>3, <2>4, <2>5
  <2>7. QED
    BY <2>6 DEF A
<1>2. QED
  BY <1>1 DEF WithinLimits

\* Every job of the pool carries settings, whose limits are numbers.
LEMMA PoolSettings ==
    ASSUME IInv
    PROVE  \A k \in Running \union Waiting :
               /\ settings[k] \in Settings
               /\ settings[k].MaxConcurrentJobs \in Nat
               /\ settings[k].MaxConcurrentJobsPerUser \in Nat
               /\ settings[k].MaxQueuedJobsPerUser \in Nat
BY SettingsAssumption DEF IInv, TypeOK, Running, Waiting, Held

\* The jobs of a user are finitely many.
LEMMA OwnedFinite ==
    ASSUME NEW u
    PROVE  /\ IsFiniteSet(OwnedBy(Running, u)) /\ OwnedBy(Running, u) \subseteq Running
           /\ IsFiniteSet(OwnedBy(Waiting, u)) /\ OwnedBy(Waiting, u) \subseteq Waiting
<1>1. OwnedBy(Running, u) \subseteq Running /\ OwnedBy(Waiting, u) \subseteq Waiting
  BY DEF OwnedBy
<1>2. QED
  BY <1>1, PoolFinite, FS_Subset

\* A step that adds no running job keeps both limits on running jobs.
LEMMA RunningShrinks ==
    ASSUME IInv, TotalLimitRespected, UserLimitRespected,
           Running' \subseteq Running,
           \A k \in Running' : settings'[k] = settings[k]
    PROVE  TotalLimitRespected' /\ UserLimitRespected'
<1>1. TotalLimitRespected'
  <2>1. \A k \in Running : TotalLimitOf[k] \in Nat
    BY PoolSettings DEF TotalLimitOf
  <2>2. \A k \in Running' : TotalLimitOf'[k] = TotalLimitOf[k]
    BY DEF TotalLimitOf
  <2>3. WithinLimits(Running', TotalLimitOf')
    BY <2>1, <2>2, PoolFinite, WithinLimitsSubset DEF TotalLimitRespected
  <2>4. QED
    BY <2>3 DEF TotalLimitRespected
<1>2. ASSUME NEW u \in Users
      PROVE  WithinLimits(OwnedBy(Running', u), UserLimitOf(u)')
  <2>1. \A k \in OwnedBy(Running, u) : UserLimitOf(u)[k] \in Nat
    BY PoolSettings, OwnedFinite DEF UserLimitOf
  <2>2. OwnedBy(Running', u) \subseteq OwnedBy(Running, u)
    BY DEF OwnedBy
  <2>3. \A k \in OwnedBy(Running', u) : UserLimitOf(u)'[k] = UserLimitOf(u)[k]
    BY <2>2 DEF UserLimitOf, OwnedBy
  <2>4. WithinLimits(OwnedBy(Running, u), UserLimitOf(u))
    BY DEF UserLimitRespected
  <2>5. QED
    BY <2>1, <2>2, <2>3, <2>4, OwnedFinite, WithinLimitsSubset
<1>3. QED
  BY <1>1, <1>2 DEF UserLimitRespected

\* A job that starts under settings that leave room keeps both limits.
LEMMA RunningGrows ==
    ASSUME IInv, TotalLimitRespected, UserLimitRespected,
           NEW j \in Jobs, j \notin Running, Running' = Running \union {j},
           NEW s \in Settings, settings'[j] = s, CanRun(s, UserOf[j]),
           \A k \in Running : settings'[k] = settings[k]
    PROVE  TotalLimitRespected' /\ UserLimitRespected'
<1>1. s.MaxConcurrentJobs \in Nat /\ s.MaxConcurrentJobsPerUser \in Nat
  BY SettingsAssumption
<1>2. TotalLimitRespected'
  <2>1. \A k \in Running : TotalLimitOf[k] \in Nat /\ TotalLimitOf'[k] = TotalLimitOf[k]
    BY PoolSettings DEF TotalLimitOf
  <2>2. TotalLimitOf'[j] = s.MaxConcurrentJobs
    BY DEF TotalLimitOf
  <2>3. Cardinality(Running) < s.MaxConcurrentJobs
    BY DEF CanRun, IInv, Accounting
  <2>4. WithinLimits(Running \union {j}, TotalLimitOf')
    BY <1>1, <2>1, <2>2, <2>3, PoolFinite, WithinLimitsAdd DEF TotalLimitRespected
  <2>5. QED
    BY <2>4 DEF TotalLimitRespected
<1>3. ASSUME NEW u \in Users
      PROVE  WithinLimits(OwnedBy(Running', u), UserLimitOf(u)')
  <2>1. \A k \in OwnedBy(Running, u) : /\ UserLimitOf(u)[k] \in Nat
                                       /\ UserLimitOf(u)'[k] = UserLimitOf(u)[k]
    BY PoolSettings, OwnedFinite DEF UserLimitOf, OwnedBy
  <2>2. WithinLimits(OwnedBy(Running, u), UserLimitOf(u))
    BY DEF UserLimitRespected
  <2>3. CASE u = UserOf[j]
    <3>1. OwnedBy(Running', u) = OwnedBy(Running, u) \union {j}
      BY <2>3 DEF OwnedBy
    <3>2. j \notin OwnedBy(Running, u)
      BY DEF OwnedBy
    <3>3. UserLimitOf(u)'[j] = s.MaxConcurrentJobsPerUser
      BY <3>1 DEF UserLimitOf
    <3>4. Cardinality(OwnedBy(Running, u)) < s.MaxConcurrentJobsPerUser
      BY <2>3 DEF CanRun, IInv, Accounting, Counts
    <3>5. UserLimitOf(u)'[j] \in Nat /\ Cardinality(OwnedBy(Running, u)) < UserLimitOf(u)'[j]
      BY <1>1, <3>3, <3>4
    <3>6. WithinLimits(OwnedBy(Running, u) \union {j}, UserLimitOf(u)')
      BY ONLY <2>1, <2>2, <3>2, <3>5, OwnedFinite, WithinLimitsAdd
    <3>7. QED
      BY <3>1, <3>6
  <2>4. CASE u # UserOf[j]
    <3>1. OwnedBy(Running', u) = OwnedBy(Running, u)
      BY <2>4 DEF OwnedBy
    <3>2. QED
      BY <2>1, <2>2, <3>1, OwnedFinite, WithinLimitsSubset
  <2>5. QED
    BY <2>3, <2>4
<1>4. QED
  BY <1>2, <1>3 DEF UserLimitRespected

\* The same two facts for the queues.
LEMMA WaitingShrinks ==
    ASSUME IInv, QueueLimitRespected,
           Waiting' \subseteq Waiting,
           \A k \in Waiting' : settings'[k] = settings[k]
    PROVE  QueueLimitRespected'
<1>1. ASSUME NEW u \in Users
      PROVE  WithinLimits(OwnedBy(Waiting', u), QueueLimitOf(u)')
  <2>1. \A k \in OwnedBy(Waiting, u) : QueueLimitOf(u)[k] \in Nat
    BY PoolSettings, OwnedFinite DEF QueueLimitOf
  <2>2. OwnedBy(Waiting', u) \subseteq OwnedBy(Waiting, u)
    BY DEF OwnedBy
  <2>3. \A k \in OwnedBy(Waiting', u) : QueueLimitOf(u)'[k] = QueueLimitOf(u)[k]
    BY <2>2 DEF QueueLimitOf, OwnedBy
  <2>4. WithinLimits(OwnedBy(Waiting, u), QueueLimitOf(u))
    BY DEF QueueLimitRespected
  <2>5. QED
    BY <2>1, <2>2, <2>3, <2>4, OwnedFinite, WithinLimitsSubset
<1>2. QED
  BY <1>1 DEF QueueLimitRespected

LEMMA WaitingGrows ==
    ASSUME IInv, QueueLimitRespected,
           NEW j \in Jobs, j \notin Waiting, Waiting' = Waiting \union {j},
           NEW s \in Settings, settings'[j] = s,
           queuedByUser[UserOf[j]] < s.MaxQueuedJobsPerUser,
           \A k \in Waiting : settings'[k] = settings[k]
    PROVE  QueueLimitRespected'
<1>1. s.MaxQueuedJobsPerUser \in Nat
  BY SettingsAssumption
<1>2. ASSUME NEW u \in Users
      PROVE  WithinLimits(OwnedBy(Waiting', u), QueueLimitOf(u)')
  <2>1. \A k \in OwnedBy(Waiting, u) : /\ QueueLimitOf(u)[k] \in Nat
                                       /\ QueueLimitOf(u)'[k] = QueueLimitOf(u)[k]
    BY PoolSettings, OwnedFinite DEF QueueLimitOf, OwnedBy
  <2>2. WithinLimits(OwnedBy(Waiting, u), QueueLimitOf(u))
    BY DEF QueueLimitRespected
  <2>3. CASE u = UserOf[j]
    <3>1. OwnedBy(Waiting', u) = OwnedBy(Waiting, u) \union {j}
      BY <2>3 DEF OwnedBy
    <3>2. j \notin OwnedBy(Waiting, u)
      BY DEF OwnedBy
    <3>3. QueueLimitOf(u)'[j] = s.MaxQueuedJobsPerUser
      BY <3>1 DEF QueueLimitOf
    <3>4. Cardinality(OwnedBy(Waiting, u)) < s.MaxQueuedJobsPerUser
      BY <2>3 DEF IInv, Accounting, Counts
    <3>5. QueueLimitOf(u)'[j] \in Nat /\ Cardinality(OwnedBy(Waiting, u)) < QueueLimitOf(u)'[j]
      BY <1>1, <3>3, <3>4
    <3>6. WithinLimits(OwnedBy(Waiting, u) \union {j}, QueueLimitOf(u)')
      BY ONLY <2>1, <2>2, <3>2, <3>5, OwnedFinite, WithinLimitsAdd
    <3>7. QED
      BY <3>1, <3>6
  <2>4. CASE u # UserOf[j]
    <3>1. OwnedBy(Waiting', u) = OwnedBy(Waiting, u)
      BY <2>4 DEF OwnedBy
    <3>2. QED
      BY <2>1, <2>2, <3>1, OwnedFinite, WithinLimitsSubset
  <2>5. QED
    BY <2>3, <2>4
<1>3. QED
  BY <1>2 DEF QueueLimitRespected

LEMMA LimitsNext == IInv /\ LimitsRespected /\ [Next]_vars => LimitsRespected'
<1> SUFFICES ASSUME IInv, LimitsRespected, [Next]_vars PROVE LimitsRespected'
  OBVIOUS
<1> USE DEF LimitsRespected
<1>1. ASSUME NEW j \in Jobs, NEW s \in Settings, ReserveSlot(j, s)
      PROVE  LimitsRespected'
  <2>1. /\ j \notin Running \union Waiting
        /\ Running' = Running \union {j} /\ Waiting' = Waiting
    BY <1>1, ReserveSlotStep
  <2>2. /\ settings'[j] = s /\ CanRun(s, UserOf[j])
        /\ \A k \in Running \union Waiting : settings'[k] = settings[k]
    BY <1>1, <2>1 DEF ReserveSlot, IInv, TypeOK
  <2>3. QED
    BY <2>1, <2>2, RunningGrows, WaitingShrinks
<1>2. ASSUME NEW j \in Jobs, NEW s \in Settings, ReserveQueued(j, s)
      PROVE  LimitsRespected'
  <2>1. /\ j \notin Running \union Waiting
        /\ Running' = Running /\ Waiting' = Waiting \union {j}
    BY <1>2, ReserveQueuedStep
  <2>2. /\ settings'[j] = s /\ queuedByUser[UserOf[j]] < s.MaxQueuedJobsPerUser
        /\ \A k \in Running \union Waiting : settings'[k] = settings[k]
    BY <1>2, <2>1 DEF ReserveQueued, IInv, TypeOK
  <2>3. QED
    BY <2>1, <2>2, RunningShrinks, WaitingGrows
<1>3. ASSUME NEW j \in Jobs, NEW s \in Settings, ReserveRefused(j, s)
      PROVE  LimitsRespected'
  <2>1. Running' = Running /\ Waiting' = Waiting
    BY <1>3, ReserveRefusedStep
  <2>2. \A k \in Running \union Waiting : settings'[k] = settings[k]
    BY <1>3 DEF ReserveRefused, Free, Running, Waiting, IInv, TypeOK
  <2>3. QED
    BY <2>1, <2>2, RunningShrinks, WaitingShrinks
<1>4. ASSUME NEW j \in Jobs, AcquirePromote(j)
      PROVE  LimitsRespected'
  <2>1. /\ j \in Waiting /\ j \notin Running
        /\ Running' = Running \union {j} /\ Waiting' = Waiting \ {j}
    BY <1>4, AcquirePromoteStep, PoolFinite
  <2>2. settings' = settings /\ CanRun(settings[j], UserOf[j])
    BY <1>4 DEF AcquirePromote
  <2>3. settings[j] \in Settings
    BY <2>1, PoolSettings
  <2>4. QED
    BY <2>1, <2>2, <2>3, RunningGrows, WaitingShrinks
<1>5. ASSUME NEW j \in Jobs,
             \/ AcquireStart(j) \/ AcquireCheck(j) \/ AcquireReleased(j)
             \/ AcquireActive(j) \/ AcquireBlocked(j) \/ AcquireTick(j)
             \/ AcquireDone(j) \/ (\E why \in EndReasons : EndContext(j, why))
      PROVE  LimitsRespected'
  <2>1. UNCHANGED gateVars /\ Running' = Running /\ Waiting' = Waiting
    BY <1>5, CallerStep
  <2>2. QED
    BY <2>1, RunningShrinks, WaitingShrinks DEF gateVars
<1>6. ASSUME NEW j \in Jobs, Release(j)
      PROVE  LimitsRespected'
  <2>1. Running' = Running \ {j} /\ Waiting' = Waiting \ {j}
    BY <1>6, ReleaseStep
  <2>2. settings' = settings
    BY <1>6 DEF Release
  <2>3. QED
    BY <2>1, <2>2, RunningShrinks, WaitingShrinks
<1>7. CASE Restart
  <2>1. Running' = {} /\ Waiting' = {}
    BY <1>7 DEF Restart, Running, Waiting, Held
  <2>2. QED
    BY <2>1, RunningShrinks, WaitingShrinks
<1>8. CASE UNCHANGED vars
  <2>1. Running' = Running /\ Waiting' = Waiting /\ settings' = settings
    BY <1>8 DEF vars, gateVars, Held, Running, Waiting
  <2>2. QED
    BY <2>1, RunningShrinks, WaitingShrinks
<1>9. QED
  BY <1>1, <1>2, <1>3, <1>4, <1>5, <1>6, <1>7, <1>8
     DEF Next, JobStep, Reserve, AcquireLock

\* However the administrator changes the limits between two admissions, the
\* jobs that run and wait stay within the limits each was admitted under.
THEOREM LimitsCorrect == Spec => []LimitsRespected
<1>1. Init => LimitsRespected
  <2>1. Init => Running = {} /\ Waiting = {}
    BY DEF Init, Held, Running, Waiting
  <2>2. \A u \in Users : OwnedBy({}, u) = {}
    BY DEF OwnedBy
  <2>3. QED
    BY <2>1, <2>2 DEF LimitsRespected, TotalLimitRespected, UserLimitRespected,
                      QueueLimitRespected, WithinLimits
<1>2. QED
  BY <1>1, IInvInvariant, LimitsNext, PTL DEF Spec

-----------------------------------------------------------------------------
(***************************************************************************)
(* A caller that acquire let through has a slot until it releases it.      *)
(***************************************************************************)
LEMMA HeldSlotNext == IInv /\ HeldSlot /\ [Next]_vars => HeldSlot'
<1> SUFFICES ASSUME IInv, HeldSlot, [Next]_vars PROVE HeldSlot'
  OBVIOUS
<1> USE DEF HeldSlot, Running, Held
<1>1. ASSUME NEW j \in Jobs, JobStep(j) PROVE HeldSlot'
  <2> USE DEF IInv, TypeOK
  <2>1. CASE \E s \in Settings : Reserve(j, s)
    BY <2>1 DEF Reserve, ReserveSlot, ReserveQueued, ReserveRefused, gateVars
  <2>2. CASE AcquireStart(j) \/ AcquireCheck(j) \/ AcquireTick(j) \/ AcquireDone(j)
    BY <2>2 DEF AcquireStart, AcquireCheck, AcquireTick, AcquireDone, gateVars
  <2>3. CASE AcquireLock(j)
    BY <2>3 DEF AcquireLock, AcquireReleased, AcquireActive, AcquirePromote,
                AcquireBlocked, gateVars
  <2>4. CASE Release(j)
    BY <2>4 DEF Release
  <2>5. CASE \E why \in EndReasons : EndContext(j, why)
    BY <2>5 DEF EndContext, gateVars
  <2>6. QED
    BY <1>1, <2>1, <2>2, <2>3, <2>4, <2>5 DEF JobStep
<1>2. CASE Restart
  BY <1>2 DEF Restart
<1>3. CASE UNCHANGED vars
  BY <1>3 DEF vars, gateVars
<1>4. QED
  BY <1>1, <1>2, <1>3 DEF Next

\* processTask converts only on acquire returning nil, so no conversion runs
\* without a slot that is counted.
THEOREM HeldSlotCorrect == Spec => []HeldSlot
<1>1. Init => HeldSlot
  BY DEF Init, HeldSlot
<1>2. QED
  BY <1>1, IInvInvariant, HeldSlotNext, PTL DEF Spec

-----------------------------------------------------------------------------
(***************************************************************************)
(* The gate implements the abstract pool.                                  *)
(***************************************************************************)

\* The instance has its own copy of FiniteSets, with the same Cardinality.
LEMMA SameCardinality == \A S : Pool!Cardinality(S) = Cardinality(S)
BY DEF Pool!Cardinality, Cardinality

\* Room as the counters tell it is room as the pool means it.
LEMMA RoomIsRoom ==
    ASSUME IInv
    PROVE  /\ \A s \in Settings, u \in Users : CanRun(s, u) <=> Pool!HasRoom(s, u)
           /\ \A s \in Settings, u \in Users :
                  queuedByUser[u] < s.MaxQueuedJobsPerUser <=> Pool!HasQueueRoom(s, u)
<1>1. \A u \in Users : /\ activeByUser[u] = Cardinality(Pool!OwnedBy(Running, u))
                      /\ queuedByUser[u] = Cardinality(Pool!OwnedBy(Waiting, u))
  BY DEF IInv, Accounting, Counts, OwnedBy, Pool!OwnedBy
<1>2. activeTotal = Cardinality(Running)
  BY DEF IInv, Accounting
<1>3. QED
  BY <1>1, <1>2, SameCardinality DEF CanRun, Pool!HasRoom, Pool!HasQueueRoom

\* The limits an admitted job carries are those of its reservation.
LEMMA LimitsOfPool ==
    ASSUME IInv
    PROVE  \A k \in Jobs : HeldSettings[k] = IF k \in Running \union Waiting
                                             THEN settings[k] ELSE NoSettings
BY DEF HeldSettings, Running, Waiting, Held

LEMMA PoolStep == IInv /\ [Next]_vars => [Pool!PoolNext]_(Pool!poolVars)
<1> SUFFICES ASSUME IInv, [Next]_vars PROVE [Pool!PoolNext]_(Pool!poolVars)
  OBVIOUS
<1> USE DEF Pool!poolVars
<1>1. ASSUME NEW j \in Jobs, NEW s \in Settings, ReserveSlot(j, s)
      PROVE  Pool!Start(j, s)
  <2>1. /\ j \notin Running \union Waiting
        /\ Running' = Running \union {j} /\ Waiting' = Waiting
    BY <1>1, ReserveSlotStep
  <2>2. Pool!HasRoom(s, UserOf[j])
    BY <1>1, RoomIsRoom, UserAssumption DEF ReserveSlot
  <2>3. HeldSettings' = [HeldSettings EXCEPT ![j] = s]
    BY <1>1, SettingsAssumption DEF ReserveSlot, HeldSettings, Held, IInv, TypeOK
  <2>4. QED
    BY <2>1, <2>2, <2>3 DEF Pool!Start
<1>2. ASSUME NEW j \in Jobs, NEW s \in Settings, ReserveQueued(j, s)
      PROVE  Pool!Queue(j, s)
  <2>1. /\ j \notin Running \union Waiting
        /\ Running' = Running /\ Waiting' = Waiting \union {j}
    BY <1>2, ReserveQueuedStep
  <2>2. ~Pool!HasRoom(s, UserOf[j]) /\ Pool!HasQueueRoom(s, UserOf[j])
    BY <1>2, RoomIsRoom, UserAssumption DEF ReserveQueued
  <2>3. HeldSettings' = [HeldSettings EXCEPT ![j] = s]
    BY <1>2, SettingsAssumption DEF ReserveQueued, HeldSettings, Held, IInv, TypeOK
  <2>4. QED
    BY <2>1, <2>2, <2>3 DEF Pool!Queue
<1>3. ASSUME NEW j \in Jobs, NEW s \in Settings, ReserveRefused(j, s)
      PROVE  UNCHANGED Pool!poolVars
  <2>1. Running' = Running /\ Waiting' = Waiting
    BY <1>3, ReserveRefusedStep
  <2>2. HeldSettings' = HeldSettings
    BY <1>3 DEF ReserveRefused, Free, HeldSettings, Held, IInv, TypeOK
  <2>3. QED
    BY <2>1, <2>2
<1>4. ASSUME NEW j \in Jobs, AcquirePromote(j)
      PROVE  Pool!Promote(j)
  <2>1. /\ j \in Waiting
        /\ Running' = Running \union {j} /\ Waiting' = Waiting \ {j}
    BY <1>4, AcquirePromoteStep
  <2>2. settings[j] \in Settings /\ HeldSettings[j] = settings[j]
    BY <2>1, PoolSettings, LimitsOfPool
  <2>3. Pool!HasRoom(HeldSettings[j], UserOf[j])
    BY <1>4, <2>2, RoomIsRoom, UserAssumption DEF AcquirePromote
  <2>4. HeldSettings' = HeldSettings
    BY <1>4 DEF AcquirePromote, HeldSettings, Held
  <2>5. QED
    BY <2>1, <2>3, <2>4 DEF Pool!Promote
<1>5. ASSUME NEW j \in Jobs,
             \/ AcquireStart(j) \/ AcquireCheck(j) \/ AcquireReleased(j)
             \/ AcquireActive(j) \/ AcquireBlocked(j) \/ AcquireTick(j)
             \/ AcquireDone(j) \/ (\E why \in EndReasons : EndContext(j, why))
      PROVE  UNCHANGED Pool!poolVars
  BY <1>5, CallerStep DEF gateVars, HeldSettings, Held
<1>6. ASSUME NEW j \in Jobs, Release(j)
      PROVE  Pool!Leave(j)
  <2>1. /\ j \in Running \union Waiting
        /\ Running' = Running \ {j} /\ Waiting' = Waiting \ {j}
    BY <1>6, ReleaseStep
  <2>2. HeldSettings' = [HeldSettings EXCEPT ![j] = NoSettings]
    BY <1>6 DEF Release, HeldSettings, Held
  <2>3. QED
    BY <2>1, <2>2 DEF Pool!Leave
<1>7. ASSUME Restart
      PROVE  Pool!Reset
  BY <1>7 DEF Restart, Pool!Reset, HeldSettings, Held, Running, Waiting
<1>8. CASE UNCHANGED vars
  BY <1>8 DEF vars, gateVars, HeldSettings, Held, Running, Waiting
<1>9. QED
  BY <1>1, <1>2, <1>3, <1>4, <1>5, <1>6, <1>7, <1>8
     DEF Next, JobStep, Reserve, AcquireLock, Pool!PoolNext

\* Every behaviour of the gate is a behaviour of the pool of slots: jobs run
\* only where there is room, wait only where there is none, and leave once.
THEOREM GateImplementsPool == Spec => ImplementsSlotPool
<1>1. Init => Pool!PoolInit
  BY DEF Init, Pool!PoolInit, HeldSettings, Held, Running, Waiting
<1>2. QED
  BY <1>1, IInvInvariant, PoolStep, PTL DEF Spec, ImplementsSlotPool, Pool!PoolSpec
=============================================================================
