----------------------------- MODULE MCJobGate -----------------------------
(***************************************************************************)
(* Instances of JobGate for TLC.                                           *)
(***************************************************************************)
EXTENDS JobGate, TLC

CONSTANTS a1, a2, b1, alice, bob

MCUsers == {alice, bob}

Limits(total, perUser, queued) ==
    [MaxConcurrentJobs |-> total,
     MaxConcurrentJobsPerUser |-> perUser,
     MaxQueuedJobsPerUser |-> queued]

\* Two jobs of alice and one of bob: alice can fill her own limit, wait and
\* be refused while bob competes for the total.
MCJobs == {a1, a2, b1}
MCUserOf == (a1 :> alice) @@ (a2 :> alice) @@ (b1 :> bob)

\* The limits an administrator switches between: one slot for each user and a
\* queue of one, or two slots for any user and no queue; two slots in total.
MCSettings == {Limits(2, 1, 1), Limits(2, 2, 0)}

\* The gate tells the two reasons apart only in the error it returns.
MCEndReasons == {"canceled"}
=============================================================================
