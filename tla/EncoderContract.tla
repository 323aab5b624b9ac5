-------------------------- MODULE EncoderContract --------------------------
(***************************************************************************)
(* What processTask is promised of a run of the encoder, with the          *)
(* goroutines, pipes and processes left out: while the run lasts its       *)
(* progress only grows, it is stopped by the end of its context, it        *)
(* returns when nothing of it is left, and it always does return then.     *)
(***************************************************************************)
EXTENDS Naturals

CONSTANTS
    Prepared,   \* progress before the run
    Ready       \* progress of what follows it, the upload

VARIABLES
    working,    \* some process of the run exists
    stopped,    \* its context has ended
    result,     \* none, ok, error, or gone on when the caller has
    progress

vars == <<working, stopped, result, progress>>

Init ==
    /\ working = TRUE
    /\ stopped = FALSE
    /\ result = "none"
    /\ progress = Prepared

Advance ==
    /\ result = "none"
    /\ progress' > progress
    /\ UNCHANGED <<working, stopped, result>>

Stop ==
    /\ stopped' = TRUE
    /\ UNCHANGED <<working, result, progress>>

\* All processes are gone, by themselves or killed.
Finish ==
    /\ working
    /\ working' = FALSE
    /\ UNCHANGED <<stopped, result, progress>>

Return ==
    /\ result = "none"
    /\ ~working
    /\ result' \in {"ok", "error"}
    /\ UNCHANGED <<working, stopped, progress>>

GoOn ==
    /\ result = "ok"
    /\ result' = "gone on"
    /\ progress' = Ready
    /\ UNCHANGED <<working, stopped>>

Next == Advance \/ Stop \/ Finish \/ Return \/ GoOn

Contract ==
    /\ Init /\ [][Next]_vars
    /\ WF_vars(stopped /\ Finish)
    /\ WF_vars(Return)
    /\ WF_vars(GoOn)
=============================================================================
