--------------------------- MODULE SettingValues ---------------------------
(***************************************************************************)
(* What the admin settings mean: readAppSettings makes AppSettings of the  *)
(* rows Nextcloud answers with, resolveCPULimit and ffmpegCommand make the *)
(* limits of an encoder of those (src/ex_app/main.go).                     *)
(*                                                                         *)
(* A row holds any JSON value.  Of a number, as the float64 encoding/json  *)
(* makes of it, counts the greatest integer that is not above it (floor)   *)
(* and whether it has a fraction; a text, however often quoted, stands for *)
(* the number that is written in it; what is no number at all is "other".  *)
(* A number above all that an int can hold is "huge": int() of it is the   *)
(* least integer on amd64, the greatest on arm64.                          *)
(***************************************************************************)
EXTENDS Integers

CONSTANTS
    HugeAsInt,   \* what int() makes of a float64 too large for it
    Cpus         \* runtime.NumCPU

\* It is outside of every range of a setting.
ASSUME BuildAssumption ==
    /\ HugeAsInt \in Int /\ HugeAsInt \notin 0..10080
    /\ Cpus \in Nat \ {0}

SettingKeys ==
    {"max_concurrent_jobs", "max_concurrent_jobs_per_user", "max_queued_jobs_per_user",
     "job_timeout_minutes", "cpu_limit_percent", "max_cpu_percent", "threads_per_job"}

Absent == [kind |-> "absent"]
Other == [kind |-> "other"]
Huge == [kind |-> "huge"]
Number(floor, fraction) == [kind |-> "number", floor |-> floor, fraction |-> fraction]

IsRaw(raw) ==
    \/ raw \in {Absent, Other, Huge}
    \/ /\ raw.kind = "number"
       /\ raw.floor \in Int
       /\ raw.fraction \in BOOLEAN
       /\ raw = Number(raw.floor, raw.fraction)

\* Mutation of Truncated: rounds up.
Truncated_Up(raw) == IF raw.fraction THEN raw.floor + 1 ELSE raw.floor

\* Towards zero: 2.9 becomes 2, and -0.5 becomes 0.
Truncated(raw) == IF raw.floor < 0 /\ raw.fraction THEN raw.floor + 1 ELSE raw.floor

ClampInt(n, min, max) == IF n < min THEN min ELSE IF n > max THEN max ELSE n

\* int() of what encoding/json has made of it.
AsInt(raw) == IF raw.kind = "huge" THEN HugeAsInt ELSE Truncated(raw)

ParsePositiveIntValue(raw, fallback, min, max) ==
    IF raw.kind = "other" THEN fallback ELSE ClampInt(AsInt(raw), min, max)

DefaultAppSettings ==
    [MaxConcurrentJobs |-> 1, MaxConcurrentJobsPerUser |-> 1, MaxQueuedJobsPerUser |-> 3,
     JobTimeoutMinutes |-> 120, CPULimitPercent |-> 50, ThreadsPerJob |-> 0]

\* Each setting with its row, its default and its range.
Setting(raw, fallback, min, max) ==
    [raw |-> raw, fallback |-> fallback, min |-> min, max |-> max]

SettingsOf(rows) ==
    LET cpu == IF rows["cpu_limit_percent"] = Absent THEN rows["max_cpu_percent"]
               ELSE rows["cpu_limit_percent"]
    IN  [MaxConcurrentJobs        |-> Setting(rows["max_concurrent_jobs"], 1, 1, 100),
         MaxConcurrentJobsPerUser |-> Setting(rows["max_concurrent_jobs_per_user"], 1, 1, 100),
         MaxQueuedJobsPerUser     |-> Setting(rows["max_queued_jobs_per_user"], 3, 0, 1000),
         JobTimeoutMinutes        |-> Setting(rows["job_timeout_minutes"], 120, 1, 10080),
         CPULimitPercent          |-> Setting(cpu, 50, 1, 100),
         ThreadsPerJob            |-> Setting(rows["threads_per_job"], 0, 0, 256)]

ReadAppSettings(rows) ==
    LET of == SettingsOf(rows)
    IN  [k \in DOMAIN of |->
            IF of[k].raw = Absent THEN DefaultAppSettings[k]
            ELSE ParsePositiveIntValue(of[k].raw, of[k].fallback, of[k].min, of[k].max)]

-----------------------------------------------------------------------------
(***************************************************************************)
(* The encoder under its limits.                                           *)
(***************************************************************************)

\* CPULimitPercent is in percent of one processor, 0 for no limit.
ResolveCPULimit(percent, threads) ==
    LET p == ClampInt(percent, 1, 100)
    IN  [Percent |-> p, Threads |-> ClampInt(threads, 0, 256),
         CPULimitPercent |-> IF p >= 100 THEN 0 ELSE Cpus * p]

\* Under cpulimit, if it is installed, or alone.
FFmpegCommand(limit, hasCPULimit) ==
    IF ~hasCPULimit \/ limit.CPULimitPercent <= 0 \/ limit.Percent >= 100
    THEN [program |-> "ffmpeg"]
    ELSE [program |-> "cpulimit", percent |-> limit.CPULimitPercent]

\* The value of -threads, 0 if the option is not given.
ApplyFFmpegThreadLimit(limit) == IF limit.Threads <= 0 THEN 0 ELSE limit.Threads

-----------------------------------------------------------------------------
(***************************************************************************)
(* What is meant.                                                          *)
(***************************************************************************)
\* The integer m is above the number that is written.
Above(m, raw) == m > raw.floor

\* n is the greatest value of the range that is not above what is written, or
\* the least one when all are: a limit is never wider than what was asked for,
\* as far as the range allows.  Without a number it is the default; of a huge
\* one either end of the range remains.
Means(n, s) ==
    /\ n \in s.min..s.max
    /\ s.raw.kind \in {"absent", "other"} => n = s.fallback
    /\ s.raw.kind = "huge" => n \in {s.min, s.max}
    /\ s.raw.kind = "number" =>
          /\ n = s.min \/ ~Above(n, s.raw)
          /\ \A m \in s.min..s.max : m > n => Above(m, s.raw)

\* The old key of the CPU limit has no say beside the new one.
NewKeyDecides(rows) ==
    rows["cpu_limit_percent"] # Absent =>
        ReadAppSettings(rows) = ReadAppSettings([rows EXCEPT !["max_cpu_percent"] = Absent])

\* The encoder gets the share of all processors that is set, if it can be
\* limited at all, and the threads that are set.
Limits(settings) ==
    LET limit == ResolveCPULimit(settings.CPULimitPercent, settings.ThreadsPerJob)
        command == FFmpegCommand(limit, TRUE)
    IN  /\ FFmpegCommand(limit, FALSE).program = "ffmpeg"
        /\ command.program = "cpulimit" <=> settings.CPULimitPercent < 100
        /\ command.program = "cpulimit" => command.percent = Cpus * settings.CPULimitPercent
        /\ ApplyFFmpegThreadLimit(limit) = settings.ThreadsPerJob

TakesEffect(rows) ==
    LET settings == ReadAppSettings(rows)
    IN  /\ \A k \in DOMAIN settings : Means(settings[k], SettingsOf(rows)[k])
        /\ NewKeyDecides(rows)
        /\ Limits(settings)
=============================================================================
