------------------------------- MODULE Uploads -------------------------------
(***************************************************************************)
(* The attachments of a sandbox: AttachmentsService.upload and remove with   *)
(* their rows and files, the temporary file that multer leaves and the       *)
(* interceptor that discards it, under overlapping requests, failing         *)
(* statements and a crash.  Whether the user may upload or remove is decided *)
(* before, in Pages.                                                        *)
(***************************************************************************)
EXTENDS Naturals, FiniteSets

CONSTANTS
    Uploads,    \* uploads, each with the attachment it makes
    Removals,   \* requests to remove an attachment
    Quota       \* DEMO_MAX_ATTACHMENTS

ASSUME UploadsAssumption == Quota \in Nat

VARIABLES
    step,       \* upload -> idle, received, admitted, created, moved, done, failed
    row,        \* attachment -> none, empty (no path yet) or stored
    temp,       \* temporary files
    files,      \* files in the folder of a sale
    removal,    \* removal -> what it works on, the path it read and how far it is
    crowd,      \* uploads admitted while another one had yet to create its row
    lost        \* attachments whose file nobody owns any more, and why it may be so

uploadVars == <<step, row, temp, files, removal, crowd, lost>>

NoRemoval == [at |-> "idle"]

Counted == {u \in Uploads : row[u] # "none"}

Admitted == {u \in Uploads : step[u] = "admitted"}

-----------------------------------------------------------------------------
(* Upload. *)

\* multer has written the file.
TakeFile(u) ==
    /\ step[u] = "idle"
    /\ step' = [step EXCEPT ![u] = "received"] /\ temp' = temp \cup {u}
    /\ UNCHANGED <<row, files, removal, crowd, lost>>

\* assertDemoQuota
Admit(u) ==
    /\ step[u] = "received" /\ Cardinality(Counted) < Quota
    /\ step' = [step EXCEPT ![u] = "admitted"]
    /\ crowd' = IF Admitted = {} THEN crowd ELSE crowd + 1
    /\ UNCHANGED <<row, temp, files, removal, lost>>

CreateRow(u) ==
    /\ step[u] = "admitted"
    /\ step' = [step EXCEPT ![u] = "created"] /\ row' = [row EXCEPT ![u] = "empty"]
    /\ UNCHANGED <<temp, files, removal, crowd, lost>>

Move(u) ==
    /\ step[u] = "created"
    /\ step' = [step EXCEPT ![u] = "moved"]
    /\ temp' = temp \ {u} /\ files' = files \cup {u}
    /\ UNCHANGED <<row, removal, crowd, lost>>

\* The update of a row that was removed fails, like any other statement.
StorePath(u) ==
    /\ step[u] = "moved" /\ row[u] # "none"
    /\ step' = [step EXCEPT ![u] = "done"] /\ row' = [row EXCEPT ![u] = "stored"]
    /\ UNCHANGED <<temp, files, removal, crowd, lost>>

\* A service that counts on the temporary folder being emptied.
DiscardNothing(u) == temp

\* The catch of the service, or DiscardUploadOnErrorInterceptor.
Discard(u) == temp \ {u}

\* A refusal or a failure; what was moved stays where it is.
Fail(u) ==
    /\ step[u] \in {"received", "admitted", "created", "moved"}
    /\ step' = [step EXCEPT ![u] = "failed"]
    /\ temp' = Discard(u)
    /\ lost' = IF step[u] = "moved" THEN lost \cup {u} ELSE lost
    /\ UNCHANGED <<row, files, removal, crowd>>

-----------------------------------------------------------------------------
(* Removal. *)

StartRemoval(r, u) ==
    /\ removal[r].at = "idle" /\ row[u] # "none"
    /\ removal' = [removal EXCEPT ![r] = [at |-> "read", of |-> u, path |-> row[u] = "stored"]]
    /\ UNCHANGED <<step, row, temp, files, crowd, lost>>

\* The second removal of an attachment fails here and leaves the file alone.
DeleteRow(r) ==
    /\ removal[r].at = "read"
    /\ LET u == removal[r].of IN
       IF row[u] = "none"
       THEN removal' = [removal EXCEPT ![r] = NoRemoval] /\ UNCHANGED <<row, lost>>
       ELSE /\ row' = [row EXCEPT ![u] = "none"]
            /\ removal' = [removal EXCEPT ![r].at = "deleted"]
            /\ lost' = IF removal[r].path THEN lost ELSE lost \cup {u}
    /\ UNCHANGED <<step, temp, files, crowd>>

Unlink(r) ==
    /\ removal[r].at = "deleted"
    /\ files' = IF removal[r].path THEN files \ {removal[r].of} ELSE files
    /\ removal' = [removal EXCEPT ![r] = NoRemoval]
    /\ UNCHANGED <<step, row, temp, crowd, lost>>

\* The process ends between two steps.
Crash ==
    /\ step' = [u \in Uploads |-> IF step[u] \in {"idle", "done", "failed"} THEN step[u] ELSE "failed"]
    /\ removal' = [r \in Removals |-> NoRemoval]
    /\ lost' = lost \cup {u \in Uploads : step[u] \in {"received", "admitted", "created", "moved"}}
                    \cup {removal[r].of : r \in {q \in Removals : removal[q].at = "deleted"}}
    /\ UNCHANGED <<row, temp, files, crowd>>

UploadsInit ==
    /\ step = [u \in Uploads |-> "idle"] /\ row = [u \in Uploads |-> "none"]
    /\ temp = {} /\ files = {} /\ removal = [r \in Removals |-> NoRemoval]
    /\ crowd = 0 /\ lost = {}

UploadsNext ==
    \/ \E u \in Uploads :
           \/ TakeFile(u) \/ Admit(u) \/ CreateRow(u) \/ Move(u) \/ StorePath(u) \/ Fail(u)
           \/ \E r \in Removals : StartRemoval(r, u)
    \/ \E r \in Removals : DeleteRow(r) \/ Unlink(r)
    \/ Crash

UploadsSpec == UploadsInit /\ [][UploadsNext]_uploadVars

-----------------------------------------------------------------------------
(* Properties. *)

\* An attachment with a path can be downloaded, a file without one is about to
\* get it or to go, and a temporary file belongs to an upload under way; but for
\* what a crash leaves, a failure after the move, and a removal that read the
\* row before its path was there.
FilesMatchRows ==
    \A u \in Uploads :
        /\ row[u] = "stored" => u \in files
        /\ u \in files \ lost => \/ row[u] = "stored" \/ step[u] = "moved"
                                 \/ \E r \in Removals : removal[r].at = "deleted" /\ removal[r].of = u
        /\ u \in temp \ lost => step[u] \in {"received", "admitted", "created"}

\* The quota is exceeded only by uploads that were admitted together.
WithinQuota == Cardinality(Counted) <= Quota + crowd

UploadsAccounted == FilesMatchRows /\ WithinQuota
=============================================================================
