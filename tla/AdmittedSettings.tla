-------------------------- MODULE AdmittedSettings --------------------------
(***************************************************************************)
(* The cache of the settings with what is in it: a version that a request  *)
(* gets from SettingsCache stands for rows that administrators, earlier    *)
(* versions of the app or anyone else has written, read by SettingValues.  *)
(***************************************************************************)
EXTENDS SettingsCache, SettingValues

CONSTANT Answers    \* the rows Nextcloud may answer with

ASSUME AnswersAssumption ==
    \A rows \in Answers : /\ rows = [k \in SettingKeys |-> rows[k]]
                           /\ \A k \in SettingKeys : IsRaw(rows[k])

EveryAnswerTakesEffect == \A rows \in Answers : TakesEffect(rows)

\* Whatever the rows hold, a request is admitted under settings that JobGate
\* can be used with (at least one job at a time) and TempFiles (a deadline in
\* the future), that are the numbers written down as far as their range goes,
\* without their fractions, and that the encoder is then run under.  README:
\* "`cpu_limit_percent` - maximum ffmpeg CPU budget from `1` to `100`".
SettingsTakeEffect ==
    \A r \in Requests : pc[r] = "answered" =>
        IF got[r] = Defaults THEN Limits(DefaultAppSettings) ELSE EveryAnswerTakesEffect
=============================================================================
