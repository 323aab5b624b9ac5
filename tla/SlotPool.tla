------------------------------ MODULE SlotPool ------------------------------
(***************************************************************************)
(* What the admission of conversions promises, with no counter in sight: a *)
(* set of jobs that run and a set of jobs that wait.  A job runs only when *)
(* the limits it was admitted under leave room for it, and it is made to   *)
(* wait only when they do not.  JobGate implements this module.            *)
(***************************************************************************)
EXTENDS Naturals, FiniteSets

CONSTANTS
    Jobs,       \* identities of conversions
    UserOf,     \* the owner of each job
    Settings,   \* the admin settings a job can be admitted under
    NoSettings  \* stands for "not admitted"

VARIABLES
    running,    \* jobs that occupy a running slot
    waiting,    \* jobs that occupy a place in their owner's queue
    limits      \* the settings each admitted job carries

poolVars == <<running, waiting, limits>>

OwnedBy(S, u) == {j \in S : UserOf[j] = u}

HasRoom(s, u) ==
    /\ Cardinality(running) < s.MaxConcurrentJobs
    /\ Cardinality(OwnedBy(running, u)) < s.MaxConcurrentJobsPerUser

HasQueueRoom(s, u) == Cardinality(OwnedBy(waiting, u)) < s.MaxQueuedJobsPerUser

PoolInit ==
    /\ running = {}
    /\ waiting = {}
    /\ limits = [j \in Jobs |-> NoSettings]

\* A job starts at once, when there is room for it.
Start(j, s) ==
    /\ j \notin running \union waiting
    /\ HasRoom(s, UserOf[j])
    /\ running' = running \union {j}
    /\ limits' = [limits EXCEPT ![j] = s]
    /\ UNCHANGED waiting

\* A job waits only when it could not start.
Queue(j, s) ==
    /\ j \notin running \union waiting
    /\ ~HasRoom(s, UserOf[j])
    /\ HasQueueRoom(s, UserOf[j])
    /\ waiting' = waiting \union {j}
    /\ limits' = [limits EXCEPT ![j] = s]
    /\ UNCHANGED running

\* A waiting job takes a slot the limits it carries allow.
Promote(j) ==
    /\ j \in waiting
    /\ HasRoom(limits[j], UserOf[j])
    /\ running' = running \union {j}
    /\ waiting' = waiting \ {j}
    /\ UNCHANGED limits

\* A job gives back its slot or its place in the queue.
Leave(j) ==
    /\ j \in running \union waiting
    /\ running' = running \ {j}
    /\ waiting' = waiting \ {j}
    /\ limits' = [limits EXCEPT ![j] = NoSettings]

\* The process restarts: nothing of the pool survives.
Reset ==
    /\ running' = {}
    /\ waiting' = {}
    /\ limits' = [j \in Jobs |-> NoSettings]

PoolNext ==
    \/ \E j \in Jobs, s \in Settings : Start(j, s) \/ Queue(j, s)
    \/ \E j \in Jobs : Promote(j) \/ Leave(j)
    \/ Reset

PoolSpec == PoolInit /\ [][PoolNext]_poolVars
=============================================================================
