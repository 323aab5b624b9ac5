----------------------- MODULE AdmittedSettingsProofs -----------------------
(***************************************************************************)
(* Proofs about the settings a conversion is admitted under.  They are     *)
(* never ones replaced Duration or longer before the request, for any      *)
(* number of requests and changes and any duration; and whatever rows      *)
(* Nextcloud answers with, and whatever int() makes of a huge float64,     *)
(* they are of their ranges and mean what is written, the gate can be used *)
(* with them, and the encoder runs under them.                             *)
(***************************************************************************)
EXTENDS AdmittedSettings, TLAPS

\* No time lies in the future.
TimesPast ==
    /\ \A i \in DOMAIN changes : changes[i] <= clock
    /\ \A r \in Requests : now[r] <= clock
    /\ expires - Duration <= clock

\* The cache holds a version still in force when its lifetime began.
CacheFresh == value \in 0..InForce /\ StillAt(value, expires - Duration)

\* A fetch that has not been stored yet has read a version still in force
\* when it began.
FetchFresh ==
    \A r \in Requests : pc[r] = "store" =>
        got[r] \in 0..InForce /\ StillAt(got[r], now[r])

\* Requests without credentials never come near the cache.
AnonymousApart ==
    \A r \in Anonymous : pc[r] \in {"idle", "answered"} /\ got[r] = Defaults

IInv ==
    /\ TypeOK
    /\ TimesPast
    /\ CacheFresh
    /\ FetchFresh
    /\ AnonymousApart
    /\ FreshSettings

\* A version that was in force at t was so at every earlier time.
LEMMA StillEarlier ==
    ASSUME TypeOK, NEW v \in Nat, NEW t \in Int, NEW u \in Int, u <= t, StillAt(v, t)
    PROVE  StillAt(v, u)
<1>1. CASE v < InForce
    <2>1. changes[v + 1] \in Nat
        BY <1>1 DEF TypeOK, InForce
    <2> QED
        BY <1>1, <2>1 DEF StillAt
<1>2. CASE ~(v < InForce)
    BY <1>2 DEF StillAt
<1> QED
    BY <1>1, <1>2

\* A change made now takes nothing from what was in force at a time past.
LEMMA StillAfterChange ==
    ASSUME TypeOK, NEW v \in 0..InForce, NEW t \in Int, t <= clock, StillAt(v, t),
           changes' = Append(changes, clock)
    PROVE  v \in 0..InForce' /\ StillAt(v, t)'
<1>1. InForce \in Nat /\ InForce' = InForce + 1
    BY DEF TypeOK, InForce
<1>2. CASE v < InForce
    <2>1. changes'[v + 1] = changes[v + 1]
        BY <1>2 DEF TypeOK, InForce
    <2> QED
        BY <1>1, <1>2, <2>1 DEF StillAt
<1>3. CASE v = InForce
    <2>1. changes'[v + 1] = clock
        BY <1>3 DEF TypeOK, InForce
    <2> QED
        BY <1>1, <1>3, <2>1 DEF StillAt
<1> QED
    BY <1>1, <1>2, <1>3

LEMMA InitIInv == Init => IInv
<1> SUFFICES ASSUME Init PROVE IInv
    OBVIOUS
<1>1. InForce = 0
    BY DEF Init, InForce
<1> QED
    BY <1>1, RequestsAssumption, TimeAssumption
    DEF Init, IInv, TypeOK, TimesPast, CacheFresh, FetchFresh, AnonymousApart,
        FreshSettings, StillAt, States, Defaults

\* Time passes.
LEMMA TickIInv ==
    ASSUME IInv, Tick
    PROVE  IInv'
<1>1. TypeOK' /\ TimesPast'
    BY TimeAssumption DEF IInv, Tick, cacheVars, reqVars, TypeOK, TimesPast
<1> QED
    BY <1>1 DEF IInv, Tick, cacheVars, reqVars, CacheFresh, FetchFresh, AnonymousApart,
                FreshSettings, StillAt, InForce

\* An administrator saves new settings.
LEMMA ChangeIInv ==
    ASSUME IInv, Change
    PROVE  IInv'
<1> USE DEF IInv
<1>1. changes' = Append(changes, clock) /\ UNCHANGED <<clock, cacheVars, reqVars>>
    BY DEF Change
<1>2. clock \in Nat /\ changes \in Seq(Nat) /\ now \in [Requests -> Nat] /\ Duration \in Nat \ {0}
    BY TimeAssumption DEF TypeOK
<1>3. TypeOK'
    BY <1>1, <1>2 DEF TypeOK, cacheVars, reqVars
<1>4. TimesPast'
    <2>1. \A i \in DOMAIN changes' : changes'[i] <= clock
        BY <1>1, <1>2 DEF TimesPast
    <2> QED
        BY <1>1, <2>1 DEF TimesPast, cacheVars, reqVars
<1>5. CacheFresh'
    <2>1. expires - Duration \in Int /\ expires - Duration <= clock
        BY <1>2 DEF TypeOK, TimesPast
    <2> QED
        BY <1>1, <2>1, StillAfterChange DEF CacheFresh, cacheVars, StillAt
<1>6. FetchFresh'
    <2> SUFFICES ASSUME NEW r \in Requests, pc[r] = "store"
                 PROVE  got[r] \in 0..InForce' /\ StillAt(got[r], now[r])'
        BY <1>1 DEF FetchFresh, reqVars, StillAt
    <2>1. now[r] \in Int /\ now[r] <= clock
        BY <1>2 DEF TimesPast
    <2> QED
        BY <1>1, <2>1, StillAfterChange DEF FetchFresh, reqVars, StillAt
<1>7. FreshSettings'
    <2> SUFFICES ASSUME NEW r \in Requests, pc[r] = "answered", r \notin Anonymous
                 PROVE  got[r] \in 0..InForce' /\ StillAt(got[r], now[r] - Duration + 1)'
        BY <1>1, <1>2 DEF FreshSettings, reqVars, StillAt
    <2>1. now[r] - Duration + 1 \in Int /\ now[r] - Duration + 1 <= clock
        BY <1>2 DEF TimesPast
    <2> QED
        BY <1>1, <2>1, StillAfterChange DEF FreshSettings, reqVars, StillAt
<1>8. AnonymousApart'
    BY <1>1 DEF AnonymousApart, reqVars
<1> QED
    BY <1>3, <1>4, <1>5, <1>6, <1>7, <1>8

\* The steps of a request that touch neither the clock, the changes nor the
\* cache, nor what another request has read: what is left to show of each is
\* about the request itself.
LEMMA RequestFrame ==
    ASSUME IInv, NEW r \in Requests,
           UNCHANGED <<clock, changes, cacheVars>>,
           TypeOK',
           \A q \in Requests \ {r} : pc'[q] = pc[q] /\ now'[q] = now[q] /\ got'[q] = got[q],
           now'[r] <= clock,
           pc'[r] = "store" => got'[r] \in 0..InForce /\ StillAt(got'[r], now'[r]),
           r \in Anonymous => pc'[r] \in {"idle", "answered"} /\ got'[r] = Defaults,
           pc'[r] = "answered" =>
               IF r \in Anonymous
               THEN got'[r] = Defaults
               ELSE got'[r] \in 0..InForce /\ StillAt(got'[r], now'[r] - Duration + 1)
    PROVE  IInv'
<1>1. TimesPast'
    BY DEF IInv, TimesPast, cacheVars
<1>2. CacheFresh'
    BY DEF IInv, CacheFresh, cacheVars, StillAt, InForce
<1>3. FetchFresh'
    BY DEF IInv, FetchFresh, StillAt, InForce
<1>4. AnonymousApart'
    BY RequestsAssumption DEF IInv, AnonymousApart
<1>5. FreshSettings'
    BY DEF IInv, FreshSettings, StillAt, InForce
<1> QED
    BY <1>1, <1>2, <1>3, <1>4, <1>5 DEF IInv

\* A step of a request keeps the invariant.
LEMMA RequestIInv ==
    ASSUME IInv, NEW r \in Requests, Request(r)
    PROVE  IInv'
<1>0. TypeOK /\ Duration \in Nat \ {0} /\ now[r] \in Nat /\ now[r] <= clock /\ InForce \in Nat
    BY TimeAssumption DEF IInv, TypeOK, TimesPast, InForce
<1>1. CASE AnswerDefaults(r)
    <2>1. TypeOK'
        BY <1>1 DEF IInv, TypeOK, AnswerDefaults, cacheVars, States
    <2> QED
        BY <1>0, <1>1, <2>1, RequestFrame DEF AnswerDefaults, IInv, AnonymousApart, TypeOK
<1>2. CASE Begin(r)
    <2>1. TypeOK'
        BY <1>2 DEF IInv, TypeOK, Begin, cacheVars, States
    <2> QED
        BY <1>0, <1>2, <2>1, RequestFrame DEF Begin, TypeOK
<1>3. CASE Hit(r)
    <2>1. TypeOK'
        BY <1>3 DEF IInv, TypeOK, Hit, cacheVars, States
    <2>2. r \notin Anonymous
        BY <1>3 DEF IInv, AnonymousApart, Hit
    <2>3. value \in 0..InForce /\ StillAt(value, now[r] - Duration + 1)
        <3>1. expires \in Nat /\ now[r] - Duration + 1 <= expires - Duration
            BY <1>0, <1>3 DEF Hit, TypeOK
        <3> QED
            BY <1>0, <3>1, StillEarlier DEF IInv, CacheFresh
    <2> QED
        BY <1>0, <1>3, <2>1, <2>2, <2>3, RequestFrame DEF Hit, TypeOK
<1>4. CASE Miss(r) \/ FetchFailed(r)
    <2>1. TypeOK'
        BY <1>4 DEF IInv, TypeOK, Miss, FetchFailed, cacheVars, States
    <2>2. r \notin Anonymous
        BY <1>4 DEF IInv, AnonymousApart, Miss, FetchFailed
    <2> QED
        BY <1>0, <1>4, <2>1, <2>2, RequestFrame DEF Miss, FetchFailed, TypeOK
<1>5. CASE Fetched(r)
    <2>1. TypeOK'
        BY <1>0, <1>5 DEF IInv, TypeOK, Fetched, cacheVars, States
    <2>2. r \notin Anonymous
        BY <1>5 DEF IInv, AnonymousApart, Fetched
    <2>3. StillAt(InForce, now[r])
        BY <1>0 DEF StillAt
    <2> QED
        BY <1>0, <1>5, <2>1, <2>2, <2>3, RequestFrame DEF Fetched, TypeOK
<1>6. CASE Store(r)
    <2>1. got[r] \in 0..InForce /\ StillAt(got[r], now[r])
        BY <1>6 DEF IInv, FetchFresh, Store
    <2>2. r \notin Anonymous
        BY <1>6 DEF IInv, AnonymousApart, Store
    <2>3. StillAt(got[r], now[r] - Duration + 1)
        BY <1>0, <2>1, StillEarlier
    <2>4. TypeOK'
        BY <1>0, <1>6, <2>1 DEF TypeOK, Store, States
    <2>5. TimesPast'
        BY <1>0, <1>6 DEF IInv, TimesPast, Store
    <2>6. CacheFresh'
        <3>1. value' = got[r] /\ expires' - Duration = now[r] /\ changes' = changes
            BY <1>0, <1>6 DEF Store
        <3> QED
            BY <2>1, <3>1 DEF CacheFresh, StillAt, InForce
    <2>7. FetchFresh'
        BY <1>0, <1>6 DEF IInv, FetchFresh, Store, StillAt, InForce, TypeOK
    <2>8. AnonymousApart'
        BY <1>0, <1>6, <2>2 DEF IInv, AnonymousApart, Store, TypeOK
    <2>9. FreshSettings'
        BY <1>0, <1>6, <2>1, <2>2, <2>3 DEF IInv, FreshSettings, Store, StillAt, InForce, TypeOK
    <2> QED
        BY <2>4, <2>5, <2>6, <2>7, <2>8, <2>9 DEF IInv
<1> QED
    BY <1>1, <1>2, <1>3, <1>4, <1>5, <1>6 DEF Request

\* The inductive invariant holds in every reachable state.
THEOREM CacheInvariant == Spec => []IInv
<1>1. IInv /\ [Next]_vars => IInv'
    <2> SUFFICES ASSUME IInv, [Next]_vars PROVE IInv'
        OBVIOUS
    <2>1. CASE UNCHANGED vars
        BY <2>1 DEF IInv, vars, cacheVars, reqVars, TypeOK, TimesPast, CacheFresh, FetchFresh,
                    AnonymousApart, FreshSettings, StillAt, InForce
    <2>2. CASE Next
        BY <2>1, <2>2, TickIInv, ChangeIInv, RequestIInv DEF Next, Over
    <2> QED
        BY <2>1, <2>2
<1> QED
    BY <1>1, InitIInv, PTL DEF Spec

\* Only versions read from Nextcloud are ever cached (getCachedAppSettings).
THEOREM SettingsTyped == Spec => []TypeOK
<1>1. IInv => TypeOK
    BY DEF IInv
<1> QED
    BY <1>1, CacheInvariant, PTL

\* Every conversion is admitted under settings that were in force less than
\* Duration before its request, and never under the defaults because the
\* settings service did not answer (getCachedAppSettings, makeConvertHandler).
THEOREM SettingsFresh == Spec => []FreshSettings
<1>1. IInv => FreshSettings
    BY DEF IInv
<1> QED
    BY <1>1, CacheInvariant, PTL

(***************************************************************************)
(* What is in the settings.                                                *)
(***************************************************************************)
LEMMA ClampInRange ==
    ASSUME NEW n \in Int, NEW min \in Int, NEW max \in Int, min <= max
    PROVE  ClampInt(n, min, max) \in min..max
BY DEF ClampInt

\* The greatest value of the range that is not above the number, or the least
\* of the range.
LEMMA ClampIsGreatest ==
    ASSUME NEW raw, raw.floor \in Int, raw.fraction \in BOOLEAN,
           NEW min \in Nat, NEW max \in Nat, min <= max
    PROVE  LET n == ClampInt(Truncated(raw), min, max)
           IN  /\ n = min \/ ~Above(n, raw)
               /\ \A m \in min..max : m > n => Above(m, raw)
<1> DEFINE n == ClampInt(Truncated(raw), min, max)
<1>1. CASE raw.floor >= 0
    <2>1. Truncated(raw) = raw.floor
        BY <1>1 DEF Truncated
    <2> QED
        BY <2>1 DEF ClampInt, Above
<1>2. CASE raw.floor < 0
    <2>1. Truncated(raw) \in Int /\ Truncated(raw) <= 0
        BY <1>2 DEF Truncated
    <2>2. n = min
        BY <2>1 DEF ClampInt
    <2> QED
        BY <1>2, <2>2 DEF Above
<1> QED
    BY <1>1, <1>2

LEMMA ParsedMeans ==
    ASSUME NEW raw, IsRaw(raw), raw # Absent,
           NEW min \in Nat, NEW max \in Nat, min <= max, max <= 10080,
           NEW fallback \in min..max
    PROVE  Means(ParsePositiveIntValue(raw, fallback, min, max), Setting(raw, fallback, min, max))
<1> DEFINE n == ParsePositiveIntValue(raw, fallback, min, max)
           s == Setting(raw, fallback, min, max)
<1>1. CASE raw.kind = "number"
    <2>1. raw.floor \in Int /\ raw.fraction \in BOOLEAN
        BY <1>1 DEF IsRaw, Absent, Other, Huge
    <2>2. Truncated(raw) \in Int
        BY <2>1 DEF Truncated
    <2>3. n = ClampInt(Truncated(raw), min, max)
        BY <1>1 DEF ParsePositiveIntValue, AsInt
    <2>4. n \in min..max
        BY <2>2, <2>3, ClampInRange
    <2>5. /\ n = min \/ ~Above(n, raw)
          /\ \A m \in min..max : m > n => Above(m, raw)
        BY <2>1, <2>3, ClampIsGreatest
    <2> QED
        BY <1>1, <2>4, <2>5 DEF Means, Setting
<1>2. CASE raw.kind = "huge"
    <2>1. n = ClampInt(HugeAsInt, min, max)
        BY <1>2 DEF ParsePositiveIntValue, AsInt
    <2>2. n \in min..max /\ n \in {min, max}
        BY <2>1, ClampInRange, BuildAssumption DEF ClampInt
    <2> QED
        BY <1>2, <2>2 DEF Means, Setting
<1>3. CASE raw.kind = "other"
    BY <1>3 DEF ParsePositiveIntValue, Means, Setting
<1> QED
    BY <1>1, <1>2, <1>3 DEF IsRaw, Absent, Other, Huge, Number

\* What the rows of an answer say, setting by setting.
Readable(s, default) ==
    /\ IsRaw(s.raw)
    /\ s.min \in Nat /\ s.max \in Nat /\ s.min <= s.max /\ s.max <= 10080
    /\ s.fallback \in s.min..s.max /\ s.fallback = default
    /\ s = Setting(s.raw, s.fallback, s.min, s.max)

IsAnswer(rows) ==
    /\ rows = [k \in SettingKeys |-> rows[k]]
    /\ \A k \in SettingKeys : IsRaw(rows[k])

LEMMA RowsReadable ==
    ASSUME NEW rows, IsAnswer(rows), NEW k \in DOMAIN SettingsOf(rows)
    PROVE  Readable(SettingsOf(rows)[k], DefaultAppSettings[k])
BY DEF IsAnswer, SettingKeys, SettingsOf, Setting, Readable, DefaultAppSettings

\* Each setting means what its row says.
LEMMA SettingsMean ==
    ASSUME NEW rows, IsAnswer(rows), NEW k \in DOMAIN SettingsOf(rows)
    PROVE  Means(ReadAppSettings(rows)[k], SettingsOf(rows)[k])
<1> DEFINE s == SettingsOf(rows)[k]
<1>1. Readable(s, DefaultAppSettings[k])
    BY RowsReadable
<1>2. ReadAppSettings(rows)[k] =
          IF s.raw = Absent THEN DefaultAppSettings[k]
          ELSE ParsePositiveIntValue(s.raw, s.fallback, s.min, s.max)
    BY DEF ReadAppSettings
<1>3. CASE s.raw = Absent
    BY <1>1, <1>2, <1>3 DEF Readable, Means, Absent
<1>4. CASE s.raw # Absent
    BY <1>1, <1>2, <1>4, ParsedMeans DEF Readable
<1> QED
    BY <1>3, <1>4

LEMMA NewKeyWins ==
    ASSUME NEW rows, IsAnswer(rows)
    PROVE  NewKeyDecides(rows)
<1> SUFFICES ASSUME rows["cpu_limit_percent"] # Absent
             PROVE  ReadAppSettings(rows) = ReadAppSettings([rows EXCEPT !["max_cpu_percent"] = Absent])
    BY DEF NewKeyDecides
<1>1. SettingsOf(rows) = SettingsOf([rows EXCEPT !["max_cpu_percent"] = Absent])
    BY DEF IsAnswer, SettingKeys, SettingsOf
<1> QED
    BY <1>1 DEF ReadAppSettings

LEMMA LimitsHold ==
    ASSUME NEW settings, settings.CPULimitPercent \in 1..100, settings.ThreadsPerJob \in 0..256
    PROVE  Limits(settings)
<1> DEFINE p == settings.CPULimitPercent
           t == settings.ThreadsPerJob
           limit == ResolveCPULimit(p, t)
<1>1. ClampInt(p, 1, 100) = p /\ ClampInt(t, 0, 256) = t
    BY DEF ClampInt
<1>2. Cpus * p \in Nat \ {0}
    BY BuildAssumption
<1>3. limit = [Percent |-> p, Threads |-> t, CPULimitPercent |-> IF p >= 100 THEN 0 ELSE Cpus * p]
    BY <1>1 DEF ResolveCPULimit
<1>4. FFmpegCommand(limit, FALSE).program = "ffmpeg"
    BY DEF FFmpegCommand
<1>5. ApplyFFmpegThreadLimit(limit) = t
    BY <1>3 DEF ApplyFFmpegThreadLimit
<1>6. CASE p = 100
    <2>1. FFmpegCommand(limit, TRUE).program = "ffmpeg"
        BY <1>3, <1>6 DEF FFmpegCommand
    <2>2. "ffmpeg" # "cpulimit" /\ ~(p < 100)
        BY <1>6
    <2> QED
        BY <1>4, <1>5, <2>1, <2>2, Zenon DEF Limits
<1>7. CASE p < 100
    <2>1. /\ FFmpegCommand(limit, TRUE).program = "cpulimit"
          /\ FFmpegCommand(limit, TRUE).percent = Cpus * p
        BY <1>2, <1>3, <1>7 DEF FFmpegCommand
    <2> QED
        BY <1>4, <1>5, <1>7, <2>1, Zenon DEF Limits
<1> QED
    BY <1>6, <1>7

\* Whatever the rows of an answer hold.
THEOREM AnswersTakeEffect ==
    ASSUME NEW rows, IsAnswer(rows)
    PROVE  TakesEffect(rows)
<1> DEFINE settings == ReadAppSettings(rows)
<1>1. \A k \in DOMAIN settings : Means(settings[k], SettingsOf(rows)[k])
    BY SettingsMean DEF ReadAppSettings
<1>2. settings.CPULimitPercent \in 1..100
    <2>1. "CPULimitPercent" \in DOMAIN settings
        BY DEF ReadAppSettings, SettingsOf
    <2>2. SettingsOf(rows)["CPULimitPercent"].min = 1 /\ SettingsOf(rows)["CPULimitPercent"].max = 100
        BY DEF SettingsOf, Setting
    <2>3. Means(settings.CPULimitPercent, SettingsOf(rows)["CPULimitPercent"])
        BY <1>1, <2>1
    <2> QED
        BY <2>2, <2>3 DEF Means
<1>3. settings.ThreadsPerJob \in 0..256
    <2>1. "ThreadsPerJob" \in DOMAIN settings
        BY DEF ReadAppSettings, SettingsOf
    <2>2. SettingsOf(rows)["ThreadsPerJob"].min = 0 /\ SettingsOf(rows)["ThreadsPerJob"].max = 256
        BY DEF SettingsOf, Setting
    <2>3. Means(settings.ThreadsPerJob, SettingsOf(rows)["ThreadsPerJob"])
        BY <1>1, <2>1
    <2> QED
        BY <2>2, <2>3 DEF Means
<1> QED
    BY <1>1, <1>2, <1>3, NewKeyWins, LimitsHold DEF TakesEffect

\* What the gate and the deadlines of jobs are built on: JobGate, Converter and
\* Service assume it of the settings they are given.
Usable(settings) ==
    /\ settings.MaxConcurrentJobs \in Nat \ {0}
    /\ settings.MaxConcurrentJobsPerUser \in Nat \ {0}
    /\ settings.MaxQueuedJobsPerUser \in Nat
    /\ settings.JobTimeoutMinutes \in Nat \ {0}

\* Where the range of each of them begins.
LEMMA UsableRanges ==
    ASSUME NEW rows
    PROVE  LET of == SettingsOf(rows)
           IN  /\ {"MaxConcurrentJobs", "MaxConcurrentJobsPerUser", "MaxQueuedJobsPerUser",
                   "JobTimeoutMinutes"} \subseteq DOMAIN of
               /\ of["MaxConcurrentJobs"].min = 1
               /\ of["MaxConcurrentJobsPerUser"].min = 1
               /\ of["MaxQueuedJobsPerUser"].min = 0
               /\ of["JobTimeoutMinutes"].min = 1
BY DEF SettingsOf, Setting

LEMMA AboveLeast ==
    ASSUME NEW min, NEW max, NEW n \in min..max
    PROVE  (min = 1 => n \in Nat \ {0}) /\ (min = 0 => n \in Nat)
OBVIOUS

\* Whatever the rows of an answer hold, and of the defaults.
THEOREM SettingsUsable ==
    ASSUME NEW rows, IsAnswer(rows)
    PROVE  Usable(ReadAppSettings(rows)) /\ Usable(DefaultAppSettings)
<1> DEFINE of == SettingsOf(rows)
           settings == ReadAppSettings(rows)
<1>1. \A k \in DOMAIN of : settings[k] \in of[k].min..of[k].max
    BY SettingsMean DEF Means
<1>2. /\ {"MaxConcurrentJobs", "MaxConcurrentJobsPerUser", "MaxQueuedJobsPerUser",
          "JobTimeoutMinutes"} \subseteq DOMAIN of
      /\ of["MaxConcurrentJobs"].min = 1
      /\ of["MaxConcurrentJobsPerUser"].min = 1
      /\ of["MaxQueuedJobsPerUser"].min = 0
      /\ of["JobTimeoutMinutes"].min = 1
    BY UsableRanges
<1> HIDE DEF of, settings
<1>3. settings.MaxConcurrentJobs \in Nat \ {0}
    <2>1. settings.MaxConcurrentJobs \in of["MaxConcurrentJobs"].min..of["MaxConcurrentJobs"].max
        BY <1>1, <1>2, Zenon
    <2> QED
        BY <1>2, <2>1, AboveLeast
<1>4. settings.MaxConcurrentJobsPerUser \in Nat \ {0}
    <2>1. settings.MaxConcurrentJobsPerUser \in of["MaxConcurrentJobsPerUser"].min..of["MaxConcurrentJobsPerUser"].max
        BY <1>1, <1>2, Zenon
    <2> QED
        BY <1>2, <2>1, AboveLeast
<1>5. settings.MaxQueuedJobsPerUser \in Nat
    <2>1. settings.MaxQueuedJobsPerUser \in of["MaxQueuedJobsPerUser"].min..of["MaxQueuedJobsPerUser"].max
        BY <1>1, <1>2, Zenon
    <2> QED
        BY <1>2, <2>1, AboveLeast
<1>6. settings.JobTimeoutMinutes \in Nat \ {0}
    <2>1. settings.JobTimeoutMinutes \in of["JobTimeoutMinutes"].min..of["JobTimeoutMinutes"].max
        BY <1>1, <1>2, Zenon
    <2> QED
        BY <1>2, <2>1, AboveLeast
<1>7. Usable(ReadAppSettings(rows))
    BY <1>3, <1>4, <1>5, <1>6, Zenon DEF Usable, settings
<1>8. Usable(DefaultAppSettings)
    BY DEF Usable, DefaultAppSettings
<1> QED
    BY <1>7, <1>8

\* For every request, answer and processor.
THEOREM SettingsAlwaysTakeEffect == Spec => []SettingsTakeEffect
<1>1. EveryAnswerTakesEffect
    BY AnswersTakeEffect, AnswersAssumption DEF EveryAnswerTakesEffect, IsAnswer
<1>2. Limits(DefaultAppSettings)
    BY LimitsHold DEF DefaultAppSettings
<1>3. SettingsTakeEffect
    BY <1>1, <1>2 DEF SettingsTakeEffect
<1> QED
    BY <1>3, PTL
=============================================================================
