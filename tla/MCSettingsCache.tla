-------------------------- MODULE MCSettingsCache --------------------------
(***************************************************************************)
(* Instances of AdmittedSettings for TLC: three requests with credentials  *)
(* and one without, over the lifetime of two cache entries; answers with   *)
(* one value for all keys, or one for the old key of the CPU limit and     *)
(* another for the rest.                                                   *)
(***************************************************************************)
EXTENDS AdmittedSettings, TLC

CONSTANTS r1, r2, r3, direct

MCRequests == {r1, r2, r3, direct}
MCAnonymous == {direct}

MCSymmetry == Permutations({r1, r2, r3})

\* Around zero, in every range, at the end of each and above it, with fractions.
MCRaws ==
    {Absent, Other, Huge}
        \union {Number(n, FALSE) : n \in {-4, 0, 1, 100, 257, 10080, 15000}}
        \union {Number(n, TRUE) : n \in {-1, 0, 2, 35, 99, 100, 1000}}

MCAnswers ==
    {[k \in SettingKeys |-> IF k = "max_cpu_percent" THEN old ELSE raw] : old, raw \in MCRaws}

\* On amd64.
MCHugeAsInt == -1000000
=============================================================================
