--------------------------- MODULE SettingsCache ---------------------------
(***************************************************************************)
(* The admin settings a conversion is admitted under: getCachedAppSettings *)
(* and the cache of five seconds it keeps (settingsCache in                *)
(* src/ex_app/main.go), used by concurrent requests.                       *)
(*                                                                         *)
(* The cache is looked up under a read lock, the settings are fetched from *)
(* Nextcloud without any lock, and stored under the write lock: fetches    *)
(* overlap, and a slow one may store an older version over a newer one.    *)
(* A version of the settings is the number of changes an administrator had *)
(* made when it was in force.                                              *)
(***************************************************************************)
EXTENDS Integers, Sequences

CONSTANTS
    Requests,   \* requests for a conversion
    Anonymous,  \* those without AppAPI credentials to ask Nextcloud with
    Duration,   \* settingsCacheDuration
    MaxTime,    \* bound on the clock
    MaxChanges  \* bound on what administrators do

ASSUME RequestsAssumption == Anonymous \subseteq Requests

ASSUME TimeAssumption ==
    /\ Duration \in Nat \ {0}
    /\ MaxTime \in Nat
    /\ MaxChanges \in Nat

VARIABLES
    clock,      \* time.Now, monotonic
    changes,    \* the times of the administrators' changes, in order
    value, expires,  \* settingsCache
    pc,         \* where each request is
    now,        \* the variable now of each request
    got         \* what each request has read or returns

cacheVars == <<value, expires>>
reqVars == <<pc, now, got>>
vars == <<clock, changes, cacheVars, reqVars>>

Defaults == -1  \* defaultAppSettings: no version of Nextcloud's
InForce == Len(changes)

\* Version v was still in force at time t.
StillAt(v, t) == v < InForce => changes[v + 1] >= t

Init ==
    /\ clock = 0
    /\ changes = <<>>
    /\ value = 0 /\ expires = 0
    /\ pc = [r \in Requests |-> "idle"]
    /\ now = [r \in Requests |-> 0]
    /\ got = [r \in Requests |-> Defaults]

Tick ==
    /\ clock < MaxTime
    /\ clock' = clock + 1
    /\ UNCHANGED <<changes, cacheVars, reqVars>>

Change ==
    /\ InForce < MaxChanges
    /\ changes' = Append(changes, clock)
    /\ UNCHANGED <<clock, cacheVars, reqVars>>

\* Without credentials the defaults are returned, and the cache is not used.
AnswerDefaults(r) ==
    /\ r \in Anonymous
    /\ pc[r] = "idle"
    /\ pc' = [pc EXCEPT ![r] = "answered"]
    /\ UNCHANGED <<clock, changes, cacheVars, now, got>>

\* now := time.Now()
Begin(r) ==
    /\ r \notin Anonymous
    /\ pc[r] = "idle"
    /\ pc' = [pc EXCEPT ![r] = "lookup"]
    /\ now' = [now EXCEPT ![r] = clock]
    /\ UNCHANGED <<clock, changes, cacheVars, got>>

Hit(r) ==
    /\ pc[r] = "lookup"
    /\ now[r] < expires
    /\ got' = [got EXCEPT ![r] = value]
    /\ pc' = [pc EXCEPT ![r] = "answered"]
    /\ UNCHANGED <<clock, changes, cacheVars, now>>

Miss(r) ==
    /\ pc[r] = "lookup"
    /\ now[r] >= expires
    /\ pc' = [pc EXCEPT ![r] = "fetch"]
    /\ UNCHANGED <<clock, changes, cacheVars, now, got>>

\* readAppSettings: Nextcloud answers at some moment.
Fetched(r) ==
    /\ pc[r] = "fetch"
    /\ got' = [got EXCEPT ![r] = InForce]
    /\ pc' = [pc EXCEPT ![r] = "store"]
    /\ UNCHANGED <<clock, changes, cacheVars, now>>

\* Mutation of FetchFailed: the error is ignored.
FetchFailed_Ignored(r) ==
    /\ pc[r] = "fetch"
    /\ pc' = [pc EXCEPT ![r] = "store"]
    /\ UNCHANGED <<clock, changes, cacheVars, now, got>>

\* The request is answered 503 and the cache left alone.
FetchFailed(r) ==
    /\ pc[r] = "fetch"
    /\ pc' = [pc EXCEPT ![r] = "unavailable"]
    /\ UNCHANGED <<clock, changes, cacheVars, now, got>>

\* Mutation of Store: the value expires five seconds after it is stored.
Store_FromNow(r) ==
    /\ pc[r] = "store"
    /\ value' = got[r]
    /\ expires' = clock + Duration
    /\ pc' = [pc EXCEPT ![r] = "answered"]
    /\ UNCHANGED <<clock, changes, now, got>>

\* expires is counted from before the fetch.
Store(r) ==
    /\ pc[r] = "store"
    /\ value' = got[r]
    /\ expires' = now[r] + Duration
    /\ pc' = [pc EXCEPT ![r] = "answered"]
    /\ UNCHANGED <<clock, changes, now, got>>

\* Every request is over.
Over ==
    /\ \A r \in Requests : pc[r] \in {"answered", "unavailable"}
    /\ UNCHANGED vars

Request(r) ==
    \/ AnswerDefaults(r) \/ Begin(r) \/ Hit(r) \/ Miss(r)
    \/ Fetched(r) \/ FetchFailed(r) \/ Store(r)

Next == Tick \/ Change \/ (\E r \in Requests : Request(r)) \/ Over

Spec == Init /\ [][Next]_vars

-----------------------------------------------------------------------------
(***************************************************************************)
(* Safety.                                                                 *)
(***************************************************************************)
States == {"idle", "lookup", "fetch", "store", "answered", "unavailable"}

\* The state has the shape the code declares; only versions read from
\* Nextcloud are cached.
TypeOK ==
    /\ clock \in Nat
    /\ changes \in Seq(Nat)
    /\ value \in Nat
    /\ expires \in Nat
    /\ pc \in [Requests -> States]
    /\ now \in [Requests -> Nat]
    /\ got \in [Requests -> Nat \union {Defaults}]

\* A conversion is admitted under settings that were in force less than
\* Duration before its request came, in whatever order concurrent fetches
\* are answered and stored, and never under the defaults because Nextcloud
\* did not answer (README: "If the settings service is unavailable,
\* /api/convert returns HTTP 503").
FreshSettings ==
    \A r \in Requests : pc[r] = "answered" =>
        IF r \in Anonymous
        THEN got[r] = Defaults
        ELSE got[r] \in 0..InForce /\ StillAt(got[r], now[r] - Duration + 1)

=============================================================================
