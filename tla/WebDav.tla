------------------------------- MODULE WebDav -------------------------------
(***************************************************************************)
(* The Nextcloud files a conversion reads and writes, behind WebDAV, and   *)
(* the requests on their way there.  The server is not part of the         *)
(* repository: it is modelled from the preconditions the client sends      *)
(* (uploadWebDAV, deleteWebDAV) and the status codes it tells apart.       *)
(*                                                                         *)
(* A worker has at most one write request on its way.  The server may      *)
(* execute it at any moment, also after the worker has stopped waiting for *)
(* the answer: giving up on a request does not take it back.  A file's     *)
(* ETag is its content: two contents never have one ETag.                  *)
(***************************************************************************)
EXTENDS Naturals

CONSTANTS
    Jobs,
    Paths,      \* remote paths
    Absent,     \* no file at the path
    AnyVersion, \* a request without a precondition
    NoRequest,
    MaxEdits    \* bound on what users do to the files behind the converter

VARIABLES
    files,   \* content of each path
    wire,    \* the write request of each job that the server has not executed
    answer,  \* the answer on its way back to the worker, "none" if there is none
    edits    \* number of user edits so far

Answers == {"none", "ok", "precondition", "missing", "refused"}

UserFile(n) == [maker |-> "user", of |-> n]
Output(j, c) == [maker |-> j, of |-> c]

\* Mutations of Put and Delete: the precondition header is forgotten.
Put_NoPrecondition(p, c) ==
    [op |-> "put", path |-> p, content |-> c, match |-> AnyVersion]
Delete_NoPrecondition(p, c) ==
    [op |-> "delete", path |-> p, match |-> AnyVersion]

\* PUT with If-None-Match: *
Put(p, c) == [op |-> "put", path |-> p, content |-> c, match |-> Absent]

\* DELETE with If-Match: the ETag the download returned
Delete(p, c) == [op |-> "delete", path |-> p, match |-> c]

Matches(p, match) == match \in {AnyVersion, files[p]}

Send(j, request) ==
    /\ wire' = [wire EXCEPT ![j] = request]
    /\ answer' = [answer EXCEPT ![j] = "none"]
    /\ UNCHANGED <<files, edits>>

Reply(j, code, listening) ==
    /\ wire' = [wire EXCEPT ![j] = NoRequest]
    /\ answer' = [answer EXCEPT ![j] = IF listening THEN code ELSE "none"]
    /\ UNCHANGED edits

\* The server evaluates the precondition and acts on it in one step.
\* listening: the worker still waits for the answer.
ServePut(j, listening) ==
    /\ wire[j] # NoRequest
    /\ wire[j].op = "put"
    /\ IF Matches(wire[j].path, wire[j].match)
       THEN /\ files' = [files EXCEPT ![wire[j].path] = wire[j].content]
            /\ Reply(j, "ok", listening)
       ELSE /\ UNCHANGED files
            /\ Reply(j, "precondition", listening)

ServeDelete(j, listening) ==
    /\ wire[j] # NoRequest
    /\ wire[j].op = "delete"
    /\ \/ /\ files[wire[j].path] = Absent
          /\ UNCHANGED files
          /\ Reply(j, "missing", listening)
       \/ /\ files[wire[j].path] # Absent
          /\ ~Matches(wire[j].path, wire[j].match)
          /\ UNCHANGED files
          /\ Reply(j, "precondition", listening)
       \/ /\ files[wire[j].path] # Absent
          /\ Matches(wire[j].path, wire[j].match)
          /\ files' = [files EXCEPT ![wire[j].path] = Absent]
          /\ Reply(j, "ok", listening)

\* The server answers with an error (quota, rights, maintenance) and does
\* nothing, or the request never reaches it.
Refuse(j, listening) ==
    /\ wire[j] # NoRequest
    /\ UNCHANGED files
    /\ Reply(j, "refused", listening)

\* A user replaces a file, removes it, or creates one at a free path.
Edit(p) ==
    /\ edits < MaxEdits
    /\ edits' = edits + 1
    /\ \E c \in {UserFile(edits + 1), Absent} :
           c # files[p] /\ files' = [files EXCEPT ![p] = c]
    /\ UNCHANGED <<wire, answer>>
=============================================================================
