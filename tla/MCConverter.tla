---------------------------- MODULE MCConverter ----------------------------
(***************************************************************************)
(* Instances of Converter for TLC: two jobs of two users, one source they  *)
(* share and two output names both try.                                    *)
(***************************************************************************)
EXTENDS Converter, TLC

CONSTANTS j1, j2, alice, bob, movie, out1, out2

MCJobs == {j1, j2}
MCUsers == {alice, bob}
MCUserOf == (j1 :> alice) @@ (j2 :> bob)
MCEndReasons == {"canceled", "deadline"}

Limits(total, perUser, queued) ==
    [MaxConcurrentJobs |-> total,
     MaxConcurrentJobsPerUser |-> perUser,
     MaxQueuedJobsPerUser |-> queued]

\* Both jobs run at once, or one after the other, or one is refused.
MCTogether == {Limits(2, 1, 1)}
MCInTurn == {Limits(1, 1, 1), Limits(1, 1, 0)}

MCPaths == {movie, out1, out2}
MCSourceOf == [j \in MCJobs |-> movie]
MCNamesOf == [j \in MCJobs |-> <<out1, out2>>]
MCFreePaths == {out1, out2}

\* Only the first job asks for the deletion of the original.
MCFirst == {j1}
MCNoPaths == {}

MCOneJob == {j1}
MCOneUserOf == j1 :> alice
MCOneSourceOf == j1 :> movie
MCOneNamesOf == j1 :> <<out1, out2>>
=============================================================================
