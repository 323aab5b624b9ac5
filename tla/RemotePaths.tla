---------------------------- MODULE RemotePaths ----------------------------
(***************************************************************************)
(* Paths in a user's files, as src/ex_app/main.go makes and cleans them.   *)
(* A path is absolute and a sequence of segments; slashes are what is      *)
(* between them.  Of a segment counts its text without extension, its      *)
(* extension, and whether it ends in a blank.  Backslashes, which the code *)
(* takes for slashes, are not allowed in names by Nextcloud.               *)
(***************************************************************************)
EXTENDS Sequences, SequencesExt

CONSTANT Dotted    \* the texts that begin with two dots, besides ".." itself

Segment(text, ext) == [text |-> text, ext |-> ext, blank |-> FALSE]

Nothing == Segment("", "")    \* between two slashes
Here == Segment(".", "")
Up == Segment("..", "")

\* No path: cleanRemotePath has returned an error.
Refused == <<>>

\* path.Clean of a rooted path, segment by segment: there is nothing above the
\* root.
Push(stack, s) ==
    IF s \in {Nothing, Here} THEN stack
    ELSE IF s = Up THEN (IF stack = <<>> THEN <<>> ELSE Front(stack))
    ELSE Append(stack, s)

Clean(p) ==
    LET cleaned[n \in 0..Len(p)] == IF n = 0 THEN <<>> ELSE Push(cleaned[n - 1], p[n])
    IN  cleaned[Len(p)]

\* strings.TrimSpace: a blank before the leading slash is no part of a path.
TrimSpace(p) == IF p = <<>> THEN p ELSE [p EXCEPT ![Len(p)].blank = FALSE]

\* What a WebDAV request is really sent for.
CleanRemotePath(p) ==
    LET c == Clean(TrimSpace(p))
    IN  IF c # <<>> /\ Head(c).text \in Dotted THEN Refused ELSE c

BuildRelativePath(directory, name) ==
    LET d == Clean(TrimSpace(directory))
    IN  IF d = <<>> THEN <<name>> ELSE Clean(Append(d, name))

SanitizeFilename(text) == IF text \in {"", ".", ".."} THEN "video" ELSE text

Converted(text) == SanitizeFilename(text) \o "_converted"

\* Mutation of BuildRemoteOutputPath: the name is kept.
BuildRemoteOutputPath_SameName(source, name, container) ==
    Append(Clean(Front(source)), Segment(SanitizeFilename(name.text), container))

\* The name is that of the request, the directory that of the source.
BuildRemoteOutputPath(source, name, container) ==
    Append(Clean(Front(source)),
           Segment(Converted(name.text), container))

-----------------------------------------------------------------------------
\* Paths that there are.  Nextcloud has no name that is empty or only dots or
\* blanks.
Segments == [text : STRING, ext : STRING, blank : BOOLEAN]

Trimmed(s) == [s EXCEPT !.blank = FALSE]

IsName(s) == s \in Segments /\ Trimmed(s) \notin {Nothing, Here, Up}

\* A text with more behind it is another text.
Extends(text) == text \o "_converted" \in STRING \ {text, "", ".", ".."}
=============================================================================
