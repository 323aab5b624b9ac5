----------------------------- MODULE MCService -----------------------------
(***************************************************************************)
(* An instance of Service for TLC: a job with the default timeout and one  *)
(* with a longer one; one file that two users share, each with it in a     *)
(* place of their own, or pages opened with a path; and an app enabled by  *)
(* a request or at the start.  The four mixes keep apart what shares      *)
(* nothing but the process.                                                *)
(***************************************************************************)
EXTENDS Service, Sequences, TLC

CONSTANTS short, long, alice, bob, put

MCJobs == {short, long}
MCTimeout == short :> 1 @@ long :> 3
MCUsers == {alice, bob}
MCHandlers == {put}
MCMixes == {{"jobs"}, {"pages"}, {"typed"}, {"enabling"}}
MCPages == {{"pages"}}

R == INSTANCE RemotePaths

MCDotted == {"..clip"}

Videos == R!Segment("Videos", "")
Movie == R!Segment("movie", ".mp4")

\* In a folder, named with a slash at its end; at the top, where the name
\* begins with dots and ends in a blank.
MCPlaces ==
    {[directory |-> <<Videos, R!Nothing>>, name |-> Movie],
     [directory |-> <<>>, name |-> [R!Segment("..clip", ".mp4") EXCEPT !.blank = TRUE]]}

Detours == {Videos, R!Nothing, R!Here, R!Up}

MCTyped ==
    {Append(d, n) : d \in {<<>>} \union {<<a>> : a \in Detours} \union {<<a, b>> : a, b \in Detours},
                    n \in {Movie, R!Segment("", ".mp4"), R!Segment("..clip", ".mp4")}}
=============================================================================
