---------------------------- MODULE Registration ----------------------------
(***************************************************************************)
(* How the service makes itself known to Nextcloud (src/ex_app/main.go):   *)
(* told that it is enabled, or started in manual mode, a goroutine drops   *)
(* the settings forms of earlier versions, registers the two of today and  *)
(* then menu, script, style and files action, one request after the other. *)
(* Whatever fails is logged; what is tried again is only the settings, by  *)
(* a loop that the first goroutine leaves behind.                          *)
(*                                                                         *)
(* A request is executed and answered, executed with its answer lost, or   *)
(* not executed.  Without the header AUTHORIZATION-APP-API of some earlier *)
(* request from Nextcloud, none is even sent.                              *)
(***************************************************************************)
EXTENDS Naturals

CONSTANTS
    Handlers,    \* the goroutines of PUT /enabled, one for each
    AtStart,     \* the one main starts in manual mode
    Loop         \* the goroutine of startAdminSettingsRefreshLoop

VARIABLES
    process,
    manual,      \* NEXTCLOUD_USER is set
    auth,        \* globalAppAPIAuth is
    told,        \* this process has been told to register
    at,          \* the request each goroutine is at, or off, sleep, tick
    loops,       \* refresh loops started
    enabled,     \* Nextcloud has the app enabled
    forms        \* the settings forms Nextcloud has

vars == <<process, manual, auth, told, at, loops, enabled, forms>>

OldForms == {"legacy", "access"}
NewForms == {"queue", "ffmpeg"}
Elements == {"menu", "script", "style", "actionV2", "actionV1"}
Goroutines == Handlers \union {AtStart, Loop}
Requests == OldForms \union NewForms \union Elements

\* In manual mode main starts a goroutine that sleeps for two seconds.
Idle == [g \in Goroutines |-> IF g = AtStart /\ manual THEN "sleep" ELSE "off"]

Init ==
    /\ process = "up"
    /\ manual \in BOOLEAN
    /\ auth = FALSE
    /\ told = FALSE
    /\ at = Idle
    /\ loops = 0
    /\ enabled = FALSE
    /\ forms = OldForms    \* an earlier version of the app was there before

-----------------------------------------------------------------------------
(***************************************************************************)
(* What the service is told.                                               *)
(***************************************************************************)

\* logging keeps the header of the first request that has one.
Heard ==
    /\ process # "down"
    /\ auth' = TRUE
    /\ UNCHANGED <<process, manual, told, at, loops, enabled, forms>>

\* PUT /enabled with a value that means yes.
PutEnabled(g) ==
    /\ process # "down"
    /\ at[g] = "off"
    /\ enabled' = TRUE
    /\ auth' = TRUE
    /\ told' = TRUE
    /\ at' = [at EXCEPT ![g] = "legacy"]
    /\ UNCHANGED <<process, manual, loops, forms>>

\* PUT /enabled with a value that means no: the service does nothing, AppAPI
\* removes what was registered.
PutDisabled ==
    /\ process # "down"
    /\ enabled
    /\ enabled' = FALSE
    /\ auth' = TRUE
    /\ forms' = {}
    /\ UNCHANGED <<process, manual, told, at, loops>>

\* Two seconds are over.
ManualStart ==
    /\ at[AtStart] = "sleep"
    /\ told' = TRUE
    /\ at' = [at EXCEPT ![AtStart] = "legacy"]
    /\ UNCHANGED <<process, manual, auth, loops, enabled, forms>>

-----------------------------------------------------------------------------
(***************************************************************************)
(* The requests.                                                           *)
(***************************************************************************)

\* registerDeclarativeAdminSettings is over.
AfterSettings(g) == IF g = Loop THEN "tick" ELSE "menu"

\* The request after r.  Of the settings, only the first failed form ends the
\* sequence; of the rest, the older API is used when the newer one fails.
After(g, r, ok) ==
    IF r \in {"queue", "ffmpeg"} THEN IF r = "queue" /\ ok THEN "ffmpeg" ELSE AfterSettings(g)
    ELSE IF r \in {"actionV2", "actionV1"} THEN IF r = "actionV2" /\ ~ok THEN "actionV1" ELSE "off"
    ELSE [legacy |-> "access", access |-> "queue", menu |-> "script", script |-> "style",
          style |-> "actionV2"][r]

Executed(r) == (forms \ ({r} \intersect OldForms)) \union ({r} \intersect NewForms)

\* Mutations of Advance: the loop is started only after a success, or again by
\* every goroutine.
Advance_LoopAfterSuccess(g, ok) ==
    LET next == After(g, at[g], ok)
        first == next = "menu" /\ ok /\ loops = 0
    IN  /\ at' = IF first THEN [at EXCEPT ![g] = next, ![Loop] = "tick"]
                 ELSE [at EXCEPT ![g] = next]
        /\ loops' = IF first THEN 1 ELSE loops
Advance_LoopAgain(g, ok) ==
    LET next == After(g, at[g], ok)
        starts == next = "menu"
    IN  /\ at' = IF starts THEN [at EXCEPT ![g] = next, ![Loop] = "tick"]
                 ELSE [at EXCEPT ![g] = next]
        /\ loops' = IF starts THEN loops + 1 ELSE loops

\* Goes on to the next request; after its settings, well or not, the first
\* goroutine of the process starts the loop (sync.Once).
Advance(g, ok) ==
    LET next == After(g, at[g], ok)
        first == next = "menu" /\ loops = 0
    IN  /\ at' = IF first THEN [at EXCEPT ![g] = next, ![Loop] = "tick"]
                 ELSE [at EXCEPT ![g] = next]
        /\ loops' = IF first THEN 1 ELSE loops

\* sendOCSJSON: an answer of success.  A form that is not there (404) is as
\* good as removed.
Answered(g) ==
    /\ at[g] \in Requests
    /\ auth
    /\ forms' = Executed(at[g])
    /\ Advance(g, TRUE)
    /\ UNCHANGED <<process, manual, auth, told, enabled>>

\* No answer within 30 seconds, though Nextcloud has done it.
AnswerLost(g) ==
    /\ at[g] \in Requests
    /\ auth
    /\ forms' = Executed(at[g])
    /\ Advance(g, FALSE)
    /\ UNCHANGED <<process, manual, auth, told, enabled>>

\* An error, or no header to send.
Failed(g) ==
    /\ at[g] \in Requests
    /\ Advance(g, FALSE)
    /\ UNCHANGED <<process, manual, auth, told, enabled, forms>>

\* The ticker of the loop, every minute.
RefreshTick ==
    /\ at[Loop] = "tick"
    /\ at' = [at EXCEPT ![Loop] = "legacy"]
    /\ UNCHANGED <<process, manual, auth, told, loops, enabled, forms>>

Exit ==
    /\ process # "down"
    /\ process' = "down"
    /\ auth' = FALSE
    /\ told' = FALSE
    /\ at' = [g \in Goroutines |-> "off"]
    /\ loops' = 0
    /\ UNCHANGED <<manual, enabled, forms>>

Start ==
    /\ process = "down"
    /\ process' = "up"
    /\ at' = Idle
    /\ UNCHANGED <<manual, auth, told, loops, enabled, forms>>

Post(g) == Answered(g) \/ AnswerLost(g) \/ Failed(g)

-----------------------------------------------------------------------------
(***************************************************************************)
(* Properties.                                                             *)
(***************************************************************************)

\* One refresh loop at most, however often the app is enabled.
TypeOK ==
    /\ manual \in BOOLEAN /\ auth \in BOOLEAN /\ told \in BOOLEAN /\ enabled \in BOOLEAN
    /\ at \in [Goroutines -> Requests \union {"off", "sleep", "tick"}]
    /\ loops \in 0..1
    /\ forms \subseteq OldForms \union NewForms

\* "On enable, the ExApp registers AppAPI declarative admin settings" (README)
\* and drops those of earlier versions ("Drop any previously registered copy",
\* main.go), whichever requests fail on the way: a process that was told to,
\* and goes on running while the app is enabled, gets there in the end.
FormsRegistered ==
    <>[](process = "up" /\ enabled /\ told /\ auth) => <>[](forms = NewForms)
=============================================================================
