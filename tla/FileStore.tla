----------------------------- MODULE FileStore -----------------------------
(***************************************************************************)
(* FileService: the rows of SysFile next to the objects of the configured  *)
(* storage (local directory, Aliyun OSS or Tencent COS).                   *)
(*                                                                         *)
(* No transaction spans the two: an upload stores the object first and     *)
(* compensates, a removal hides the row first, deletes the objects of the  *)
(* whole batch and then settles the rows.  Each statement and each storage *)
(* call is an action; several requests may work on the same file.  Any of  *)
(* them may fail, and a call that failed may have taken effect (a reply    *)
(* lost or timed out).                                                     *)
(***************************************************************************)
EXTENDS FiniteSets

CONSTANTS
    File,     \* the files: one id, one storage key, used once
    Request,  \* the requests that can be in flight at once
    Crashes,  \* may the instance stop between two steps?
    Lost      \* may a call that failed have taken effect (its reply lost)?

ASSUME FileStoreAssumption == Crashes \in BOOLEAN /\ Lost \in BOOLEAN

VARIABLES
    status,   \* the row: not there yet, ACTIVE, INACTIVE (hidden), or deleted
    object,   \* the files whose bytes the storage holds
    req,      \* the requests in flight
    torn,     \* history: files that met a crash, a lost reply or a failed repair
    abandoned, \* history: files a removal left hidden when it could not delete rows
    shelved   \* history: files that an edit set to INACTIVE

vars == <<status, object, req, torn, abandoned, shelved>>

Row == {"ACTIVE", "INACTIVE"}
Uploading == {"put", "create", "rollback"}
Removing == {"hide", "objects", "rows", "restore"}
Stage == {"idle", "edit"} \union Uploading \union Removing

RequestState == [stage : Stage, files : SUBSET File, ok : SUBSET File, failed : SUBSET File]

Idle == [stage |-> "idle", files |-> {}, ok |-> {}, failed |-> {}]

-----------------------------------------------------------------------------
At(r, stage) == req[r].stage = stage

Enter(r, stage, files) ==
    /\ At(r, "idle")
    /\ req' = [req EXCEPT ![r] = [Idle EXCEPT !.stage = stage, !.files = files]]

Goto(r, stage) == req' = [req EXCEPT ![r].stage = stage]

Finish(r) == req' = [req EXCEPT ![r] = Idle]

\* An updateMany: every row among "files" that exists and satisfies the
\* condition gets the new status.
Update(files, from, to) ==
    [f \in File |-> IF f \in files /\ status[f] \in from THEN to ELSE status[f]]

\* A statement that failed left the rows as they were, or was committed all
\* the same: then the caller and the database disagree about "files".
Failed(effect, files) ==
    \/ UNCHANGED <<status, torn>>
    \/ Lost /\ status' = effect /\ torn' = torn \union files

Free(f) == \A r \in Request : f \notin req[r].files

Init ==
    /\ status = [f \in File |-> "none"]
    /\ object = {}
    /\ req = [r \in Request |-> Idle]
    /\ torn = {} /\ abandoned = {} /\ shelved = {}

-----------------------------------------------------------------------------
(* saveUploadedFile, saveFile and createFileRecord.                         *)

BeginUpload(r) ==
    /\ \E f \in File \ (object \union torn) :
        status[f] = "none" /\ Free(f) /\ Enter(r, "put", {f})
    /\ UNCHANGED <<status, object, torn, abandoned, shelved>>

\* A put that fails may leave (part of) the object behind: nothing removes it.
Put(r) ==
    /\ At(r, "put")
    /\ \/ object' = object \union req[r].files /\ Goto(r, "create") /\ UNCHANGED torn
       \/ /\ Finish(r)
          /\ \/ UNCHANGED <<object, torn>>
             \/ Lost /\ object' = object \union req[r].files /\ torn' = torn \union req[r].files
    /\ UNCHANGED <<status, abandoned, shelved>>

CreateRecord(r) ==
    /\ At(r, "create")
    /\ LET created == Update(req[r].files, {"none"}, "ACTIVE") IN
        \/ status' = created /\ Finish(r) /\ UNCHANGED torn
        \/ Failed(created, req[r].files) /\ Goto(r, "rollback")
    /\ UNCHANGED <<object, abandoned, shelved>>

\* Mutant of Rollback: the object of a failed upload is kept.
RollbackForgotten(r) ==
    /\ At(r, "rollback")
    /\ Finish(r)
    /\ UNCHANGED <<status, object, torn, abandoned, shelved>>

\* The error of a rollback is logged and dropped.
Rollback(r) ==
    /\ At(r, "rollback")
    /\ \/ object' = object \ req[r].files /\ UNCHANGED torn
       \/ UNCHANGED object /\ torn' = torn \union req[r].files
    /\ Finish(r)
    /\ UNCHANGED <<status, abandoned, shelved>>

-----------------------------------------------------------------------------
(* update: the row is found ACTIVE, then written by its id alone.           *)

BeginEdit(r) ==
    /\ \E f \in File : status[f] = "ACTIVE" /\ Enter(r, "edit", {f})
    /\ UNCHANGED <<status, object, torn, abandoned, shelved>>

\* The new status is optional.  A row that is gone makes the update fail.
Edit(r) ==
    /\ At(r, "edit")
    /\ \/ \E new \in Row :
            /\ status' = Update(req[r].files, Row, new)
            /\ shelved' = IF new = "INACTIVE" THEN shelved \union req[r].files ELSE shelved
       \/ UNCHANGED <<status, shelved>>
    /\ Finish(r)
    /\ UNCHANGED <<object, torn, abandoned>>

-----------------------------------------------------------------------------
(* remove, removeBatch and removeFiles.                                     *)

\* All the files asked for are found ACTIVE, or the request is refused.
BeginRemove(r) ==
    /\ \E files \in SUBSET File \ {{}} :
        (\A f \in files : status[f] = "ACTIVE") /\ Enter(r, "hide", files)
    /\ UNCHANGED <<status, object, torn, abandoned, shelved>>

Hide(r) ==
    /\ At(r, "hide")
    /\ LET hidden == Update(req[r].files, {"ACTIVE"}, "INACTIVE") IN
        \/ status' = hidden /\ Goto(r, "objects") /\ UNCHANGED torn
        \/ Failed(hidden, req[r].files) /\ Finish(r)
    /\ UNCHANGED <<object, abandoned, shelved>>

\* When the last deletion has ended, the rows of the successful files are
\* next, if there are any.
Tried(r, ok, failed) ==
    req' = [req EXCEPT ![r] = [@ EXCEPT
        !.ok = ok,
        !.failed = failed,
        !.stage = IF ok \union failed # req[r].files THEN "objects"
                  ELSE IF ok # {} THEN "rows" ELSE "restore"]]

\* One of the concurrent storage deletions ends.
DeleteObject(r) ==
    /\ At(r, "objects")
    /\ \E f \in req[r].files \ (req[r].ok \union req[r].failed) :
        \/ /\ object' = object \ {f}
           /\ Tried(r, req[r].ok \union {f}, req[r].failed)
           /\ UNCHANGED torn
        \/ /\ \/ UNCHANGED <<object, torn>>
              \/ Lost /\ object' = object \ {f} /\ torn' = torn \union {f}
           /\ Tried(r, req[r].ok, req[r].failed \union {f})
    /\ UNCHANGED <<status, abandoned, shelved>>

\* Mutant of DeleteRows: the rows of the whole batch go.
DeleteRowsOfBatch(r) ==
    /\ At(r, "rows")
    /\ status' = Update(req[r].files, Row, "deleted")
    /\ Finish(r)
    /\ UNCHANGED <<object, torn, abandoned, shelved>>

\* When this statement fails the request ends: the rows stay hidden, those of
\* the files that could not be deleted too.
DeleteRows(r) ==
    /\ At(r, "rows")
    /\ LET deleted == Update(req[r].ok, Row, "deleted") IN
        \/ /\ status' = deleted
           /\ IF req[r].failed = {} THEN Finish(r) ELSE Goto(r, "restore")
           /\ UNCHANGED <<torn, abandoned>>
        \/ /\ status' = status \/ (Lost /\ status' = deleted)
           /\ torn' = torn \union req[r].ok
           /\ abandoned' = abandoned \union req[r].failed
           /\ Finish(r)
    /\ UNCHANGED <<object, shelved>>

\* Mutant of Restore: only the answer is given.
RestoreForgotten(r) ==
    /\ At(r, "restore")
    /\ Finish(r)
    /\ UNCHANGED <<status, object, torn, abandoned, shelved>>

Restore(r) ==
    /\ At(r, "restore")
    /\ LET restored == Update(req[r].failed, Row, "ACTIVE") IN
        \/ status' = restored /\ UNCHANGED torn
        \/ /\ status' = status \/ (Lost /\ status' = restored)
           /\ torn' = torn \union req[r].failed
    /\ Finish(r)
    /\ UNCHANGED <<object, abandoned, shelved>>

\* The instance stops: what was done stays done, the rest never happens.
Crash(r) ==
    /\ Crashes
    /\ ~At(r, "idle")
    /\ torn' = torn \union req[r].files
    /\ Finish(r)
    /\ UNCHANGED <<status, object, abandoned, shelved>>

Next ==
    \E r \in Request :
        \/ BeginUpload(r) \/ Put(r) \/ CreateRecord(r) \/ Rollback(r)
        \/ BeginEdit(r) \/ Edit(r)
        \/ BeginRemove(r) \/ Hide(r) \/ DeleteObject(r) \/ DeleteRows(r) \/ Restore(r)
        \/ Crash(r)

Spec == Init /\ [][Next]_vars

-----------------------------------------------------------------------------
(* Properties.                                                              *)

TypeOK ==
    /\ status \in [File -> {"none", "deleted"} \union Row]
    /\ object \subseteq File /\ torn \subseteq File /\ shelved \subseteq File
    /\ req \in [Request -> RequestState]

\* removeFiles deletes the row of a file only when its object is gone, so no
\* removal leaves bytes behind that no row leads to: whatever failed, and
\* however many removals and edits of the file were under way.
NoBytesWithoutRow == \A f \in File : status[f] = "deleted" => f \notin object

\* A file that met no crash, no lost reply, no failed repair and no abandoned
\* removal is settled as soon as no request works on it: listed with its
\* bytes, gone without, or shelved by an edit.  Two removals of one file may
\* disagree on the way: one restores the row, the other has deleted the bytes.
Settled ==
    \A f \in File \ (torn \union abandoned) : Free(f) =>
        /\ status[f] \in Row => f \in object
        /\ status[f] = "INACTIVE" => f \in shelved
        /\ status[f] = "none" => f \notin object

(* Why: what is true of the requests in flight.                             *)

\* A request under way lists its files and what became of their objects.
Progress ==
    \A r \in Request :
        /\ At(r, "idle") => req[r].files = {}
        /\ req[r].ok \union req[r].failed \subseteq req[r].files
        /\ req[r].stage \notin {"objects", "rows", "restore"} =>
              req[r].ok = {} /\ req[r].failed = {}
        /\ At(r, "rows") => req[r].ok \union req[r].failed = req[r].files

\* Nothing else works on a file that is being uploaded; it has no row yet,
\* and its bytes are there once they are stored.
UploadsAreAlone ==
    \A r \in Request : \A f \in req[r].files :
        /\ req[r].stage \in {"put", "create"} \/ (At(r, "rollback") /\ f \notin torn) =>
              status[f] = "none" /\ \A q \in Request \ {r} : f \notin req[q].files
        /\ At(r, "put") => f \notin object
        /\ At(r, "create") \/ (At(r, "rollback") /\ f \notin torn) => f \in object
        /\ req[r].stage \in {"edit"} \union Removing => status[f] # "none"

\* Bytes that a removal deleted do not come back.
DeletedStaysDeleted == \A r \in Request : req[r].ok \intersect object = {}

\* A row without bytes is one whose removal is about to delete it.
RowsWithoutBytes ==
    \A f \in File \ (torn \union abandoned \union object) : status[f] \in Row =>
        \E r \in Request : f \in req[r].ok /\ req[r].stage \in {"objects", "rows"}

\* A hidden row is one whose removal will delete it or show it again.
HiddenRows ==
    \A f \in File \ (torn \union abandoned \union shelved) : status[f] = "INACTIVE" =>
        \E r \in Request :
            \/ f \in req[r].files /\ req[r].stage \in {"objects", "rows"}
            \/ f \in req[r].failed /\ At(r, "restore")

\* Bytes without a row are those of an upload under way.
BytesWithoutRow ==
    \A f \in object \ torn : status[f] = "none" =>
        \E r \in Request : f \in req[r].files /\ req[r].stage \in {"create", "rollback"}

\* The inductive invariant of the proofs.
FileInv ==
    /\ TypeOK
    /\ Progress
    /\ UploadsAreAlone
    /\ DeletedStaysDeleted
    /\ NoBytesWithoutRow
    /\ RowsWithoutBytes
    /\ HiddenRows
    /\ BytesWithoutRow
=============================================================================
