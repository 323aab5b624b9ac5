---------------------------- MODULE MCEncoderRun ----------------------------
(***************************************************************************)
(* Instances of EncoderRun for TLC: ffmpeg under cpulimit, which forks a   *)
(* limiter beside it.                                                      *)
(***************************************************************************)
EXTENDS EncoderRun

CONSTANTS cpulimit, limiter, ffmpeg

MCProcs == {cpulimit, limiter, ffmpeg}

\* The start of the range, half-way and the end of it.
MCPositions == {42, 65, 89}
=============================================================================
