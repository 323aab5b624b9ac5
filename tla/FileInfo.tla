------------------------------ MODULE FileInfo ------------------------------
(***************************************************************************)
(* The way of a file from the Files app to the page that converts it:      *)
(* makeActionHandler is told where the file is and keeps its name and path *)
(* in fileInfoCache, the browser is redirected with the id alone, and      *)
(* makeUIHandler completes the page from the cache (src/ex_app/main.go).   *)
(*                                                                         *)
(* A file that is shared has one id but a place of its own for each user.  *)
(* The id comes as a string or as a JSON number, which encoding/json makes *)
(* a float64 and fmt prints with %v: from seven digits on in scientific    *)
(* notation.  pruneOldFileCache reads an entry and deletes its key in two  *)
(* steps.                                                                  *)
(***************************************************************************)
EXTENDS Naturals, FiniteSetsExt, RemotePaths

CONSTANTS
    Ids, Users,
    Places,     \* directory and name a file may have for a user, over time
    Typed,      \* paths a page is opened with outright
    NoInfo,
    Lifetime    \* the two hours of pruneOldFileCache

VARIABLES
    process,
    cache,      \* fileInfoCache
    last,       \* the last action on each id that this process was told of, and its key
    since,      \* age of an entry, or what it was when the entry went
    raced,      \* the entry came while an older one was being deleted
    sweeping,   \* keys pruneOldFileCache has found old and is about to delete
    page        \* the page that has just been opened, if any

vars == <<process, cache, last, since, raced, sweeping, page>>

\* fmt.Sprintf("%v", payload["fileId"]), and the id of a page.
Forms == {"string", "number"}
Keys == Ids \X {"decimal", "scientific"}
Decimal(f) == <<f, "decimal">>

KeyOf(f, form) ==
    <<f, IF form = "number" /\ f >= 1000000 THEN "scientific" ELSE "decimal">>

\* An entry, and whose action brought it and on which file.
CachedFileInfo(u, p) ==
    [user |-> u, file |-> Append(p.directory, p.name), name |-> p.name,
     path |-> BuildRelativePath(p.directory, p.name)]

Infos == {CachedFileInfo(u, p) : u \in Users, p \in Places}

Closed == [open |-> FALSE]

\* A page that was asked for with an id alone, and what the cache had for it.
PageById(u, f) == [open |-> TRUE, user |-> u, id |-> f, byId |-> TRUE, info |-> cache[Decimal(f)]]

\* A page that says itself what it converts; the cache is not looked at.
TypedInfo(u, p) == [user |-> u, file |-> Clean(p), name |-> Last(p), path |-> p]
TypedPage(u, f, p) == [open |-> TRUE, user |-> u, id |-> f, byId |-> FALSE, info |-> TypedInfo(u, p)]

Oldest == Lifetime + 1
Expired(k) == cache[k] # NoInfo /\ since[k] > Lifetime

Init ==
    /\ process = "up"
    /\ cache = [k \in Keys |-> NoInfo]
    /\ last = [f \in Ids |-> NoInfo]
    /\ since = [k \in Keys |-> 0]
    /\ raced = [k \in Keys |-> FALSE]
    /\ sweeping = {}
    /\ page = Closed

\* Mutation of Action: an entry that is there stays.
Action_KeepsFirst(u, f, form, p) ==
    LET k == KeyOf(f, form)
    IN  /\ process # "down"
        /\ last' = [last EXCEPT ![f] = [key |-> k, info |-> CachedFileInfo(u, p)]]
        /\ cache' = IF cache[k] = NoInfo THEN [cache EXCEPT ![k] = CachedFileInfo(u, p)] ELSE cache
        /\ since' = [since EXCEPT ![k] = 0]
        /\ raced' = [raced EXCEPT ![k] = k \in sweeping]
        /\ UNCHANGED <<process, sweeping, page>>

\* A user chooses the action on a file.
Action(u, f, form, p) ==
    LET k == KeyOf(f, form)
    IN  /\ process # "down"
        /\ last' = [last EXCEPT ![f] = [key |-> k, info |-> CachedFileInfo(u, p)]]
        /\ cache' = [cache EXCEPT ![k] = CachedFileInfo(u, p)]
        /\ since' = [since EXCEPT ![k] = 0]
        /\ raced' = [raced EXCEPT ![k] = k \in sweeping]
        /\ UNCHANGED <<process, sweeping, page>>

\* The page is loaded, by way of the action or again later, with the id.
OpenPage(u, f) ==
    /\ process # "down"
    /\ page = Closed
    /\ page' = PageById(u, f)
    /\ UNCHANGED <<process, cache, last, since, raced, sweeping>>

\* The page is loaded with file_name and file_path.
OpenTyped(u, f, p) ==
    /\ process # "down"
    /\ page = Closed
    /\ page' = TypedPage(u, f, p)
    /\ UNCHANGED <<process, cache, last, since, raced, sweeping>>

ClosePage ==
    /\ page # Closed
    /\ page' = Closed
    /\ UNCHANGED <<process, cache, last, since, raced, sweeping>>

\* pruneOldFileCache: Range hands over an entry ...
SweepRead(k) ==
    /\ process = "up"
    /\ Expired(k)
    /\ k \notin sweeping
    /\ sweeping' = sweeping \union {k}
    /\ UNCHANGED <<process, cache, last, since, raced, page>>

\* ... and its key is deleted, whatever it stands for by now.
SweepDelete(k) ==
    /\ k \in sweeping
    /\ sweeping' = sweeping \ {k}
    /\ cache' = [cache EXCEPT ![k] = NoInfo]
    /\ UNCHANGED <<process, last, since, raced, page>>

Tick ==
    /\ since' = [k \in Keys |-> IF cache[k] = NoInfo THEN since[k] ELSE Min({since[k] + 1, Oldest})]
    /\ UNCHANGED <<process, cache, last, raced, sweeping, page>>

\* What a new process knows of earlier ones: nothing.
Exit ==
    /\ process # "down"
    /\ process' = "down"
    /\ cache' = [k \in Keys |-> NoInfo]
    /\ last' = [f \in Ids |-> NoInfo]
    /\ since' = [k \in Keys |-> 0]
    /\ raced' = [k \in Keys |-> FALSE]
    /\ sweeping' = {}
    /\ UNCHANGED page

-----------------------------------------------------------------------------
(***************************************************************************)
(* Properties.                                                             *)
(***************************************************************************)
TypeOK ==
    /\ cache \in [Keys -> Infos \union {NoInfo}]
    /\ last \in [Ids -> [key : Keys, info : Infos] \union {NoInfo}]
    /\ since \in [Keys -> 0..Oldest]
    /\ raced \in [Keys -> BOOLEAN]
    /\ sweeping \subseteq Keys
    /\ \/ page = Closed
       \/ /\ page.user \in Users /\ page.id \in Ids /\ page.byId \in BOOLEAN
          /\ page.info \in Infos \union {NoInfo} \union {TypedInfo(page.user, p) : p \in Typed}

OpensById == page = Closed /\ page'.open /\ page'.byId

\* The page shows what the action said.  It may lack it only after the two
\* hours, or when the cleanup was deleting an older entry of the same id as
\* it came.
Shows(i, k) ==
    \/ i = last[k[1]].info
    \/ i = NoInfo /\ (since[k] > Lifetime \/ raced[k])

\* A page opened by the user whose action on the file was the last shows the
\* file of that action, when its id came as a string or has up to six digits.
\* (The page of a user who shares the file with a later one shows the other's
\* path; nothing in the code prevents that, and the user is not told.)
PageShowsOwnFile ==
    [][OpensById =>
          LET f == page'.id
          IN  last[f] # NoInfo /\ last[f].info.user = page'.user /\ last[f].key = Decimal(f)
                 => Shows(page'.info, last[f].key)]_vars

\* The same of every id.  The comment on the conversion in makeActionHandler
\* calls it safe for numbers.
EveryIdReachesPage ==
    [][OpensById =>
          LET f == page'.id
          IN  last[f] # NoInfo /\ last[f].info.user = page'.user
                 => Shows(page'.info, last[f].key)]_vars

\* What a page converts is the file it was opened for, unless names end in a
\* blank, and its output is written beside it and never over it.  Three pieces
\* of code clean the path, each in its own way: that of the action, that of
\* the requests for the source and that of the output.
Plain(p) == \A n \in 1..Len(p) : ~p[n].blank

OutputBesideSource ==
    page.open /\ page.info # NoInfo =>
        LET i == page.info
            source == CleanRemotePath(i.path)
        IN  /\ Plain(i.file) => source \in {Clean(i.file), Refused}
            /\ \A c \in {".mp4", ".mov", ".mkv"} :
                  LET out == CleanRemotePath(BuildRemoteOutputPath(i.path, i.name, c))
                  IN  source # Refused => /\ out # Refused => Front(out) = Front(source)
                                          /\ out # source
=============================================================================
