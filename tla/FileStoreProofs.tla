-------------------------- MODULE FileStoreProofs --------------------------
(* The inductive invariants of FileStore and of Upload and what follows from *)
(* them.                                                                     *)
EXTENDS FileStore, Upload, TLAPS

-----------------------------------------------------------------------------
(* What the helpers do to the requests.                                     *)

OthersKept(r) == \A q \in Request \ {r} : req'[q] = req[q]

\* Request r is now at this stage, with these files, successes and failures.
Now(r, stage, files, ok, failed) ==
    /\ req' \in [Request -> RequestState]
    /\ req'[r] = [stage |-> stage, files |-> files, ok |-> ok, failed |-> failed]
    /\ OthersKept(r)

\* Entering a stage starts the request with these files.
LEMMA EnterStarts ==
    ASSUME TypeOK, NEW r \in Request, NEW stage \in Stage, NEW files \in SUBSET File,
           Enter(r, stage, files)
    PROVE  Now(r, stage, files, {}, {}) /\ At(r, "idle")
BY DEF TypeOK, Enter, Now, OthersKept, RequestState, Idle

\* Goto changes the stage and nothing else.
LEMMA GotoMoves ==
    ASSUME TypeOK, NEW r \in Request, NEW stage \in Stage, Goto(r, stage)
    PROVE  Now(r, stage, req[r].files, req[r].ok, req[r].failed)
BY DEF TypeOK, Goto, Now, OthersKept, RequestState

\* Finish gives the slot back.
LEMMA FinishReleases ==
    ASSUME TypeOK, NEW r \in Request, Finish(r)
    PROVE  Now(r, "idle", {}, {}, {})
<1>1. Idle \in RequestState
  BY DEF Idle, RequestState, Stage
<1> QED BY <1>1 DEF TypeOK, Finish, Now, OthersKept, Idle

\* One storage deletion of a removal succeeds or fails; the stage follows from
\* what is left to do.
LEMMA OneDeletion ==
    ASSUME TypeOK, NEW r \in Request, DeleteObject(r)
    PROVE  \E f \in req[r].files \ (req[r].ok \union req[r].failed), stage \in Stage :
            \/ /\ object' = object \ {f} /\ torn' = torn
               /\ Now(r, stage, req[r].files, req[r].ok \union {f}, req[r].failed)
               /\ \/ stage = "objects"
                  \/ stage = "rows" /\ req[r].files = req[r].ok \union {f} \union req[r].failed
            \/ /\ \/ object' = object /\ torn' = torn
                  \/ object' = object \ {f} /\ torn' = torn \union {f}
               /\ Now(r, stage, req[r].files, req[r].ok, req[r].failed \union {f})
               /\ \/ stage = "objects"
                  \/ stage = "rows" /\ req[r].files = req[r].ok \union req[r].failed \union {f}
                  \/ /\ stage = "restore" /\ req[r].ok = {}
                     /\ req[r].files = req[r].failed \union {f}
<1>1. PICK f \in req[r].files \ (req[r].ok \union req[r].failed) :
          \/ /\ object' = object \ {f} /\ torn' = torn
             /\ Tried(r, req[r].ok \union {f}, req[r].failed)
          \/ /\ \/ object' = object /\ torn' = torn
                \/ object' = object \ {f} /\ torn' = torn \union {f}
             /\ Tried(r, req[r].ok, req[r].failed \union {f})
  BY DEF DeleteObject
<1>2. ASSUME NEW gone \in SUBSET File, NEW kept \in SUBSET File, Tried(r, gone, kept)
      PROVE  \E stage \in Stage :
                 /\ Now(r, stage, req[r].files, gone, kept)
                 /\ \/ stage = "objects"
                    \/ stage = "rows" /\ req[r].files = gone \union kept
                    \/ stage = "restore" /\ gone = {} /\ req[r].files = kept
  BY <1>2 DEF Tried, TypeOK, RequestState, Stage, Removing, Now, OthersKept
<1>3. /\ req[r].ok \union {f} \in SUBSET File /\ req[r].failed \union {f} \in SUBSET File
      /\ req[r].ok \in SUBSET File /\ req[r].failed \in SUBSET File
  BY <1>1 DEF TypeOK, RequestState
<1> QED BY <1>1, <1>2, <1>3

\* The files a request lists are files.
Lists ==
    \A r \in Request :
        /\ req[r].files \subseteq File
        /\ req[r].ok \subseteq File /\ req[r].failed \subseteq File

\* This is what the type of req says of them.
LEMMA ListsAreFiles == ASSUME TypeOK PROVE Lists
BY DEF TypeOK, RequestState, Lists

\* An update keeps the type of the rows when it writes one of their values.
LEMMA UpdateTyped ==
    ASSUME TypeOK, NEW files, NEW from, NEW to \in {"none", "deleted"} \union Row
    PROVE  Update(files, from, to) \in [File -> {"none", "deleted"} \union Row]
BY DEF TypeOK, Update

-----------------------------------------------------------------------------

\* An upload starts with a file nothing refers to.
LEMMA BeginUploadKeeps ==
    ASSUME FileInv, NEW r \in Request, BeginUpload(r)
    PROVE  FileInv'
<1>1. TypeOK /\ Lists
  BY ListsAreFiles DEF FileInv
<1>2. PICK f \in File \ (object \union torn) :
         /\ status[f] = "none" /\ Free(f)
         /\ Now(r, "put", {f}, {}, {}) /\ At(r, "idle")
  BY <1>1, EnterStarts DEF BeginUpload, Stage, Uploading
<1>3. UNCHANGED <<status, object, torn, abandoned, shelved>>
  BY DEF BeginUpload, At
<1>4. TypeOK'
  BY <1>1, <1>2, <1>3 DEF FileInv, TypeOK, Now, Lists, Free, At
<1>5. Progress'
  BY <1>1, <1>2, <1>3 DEF FileInv, Progress, Now, OthersKept, Lists, Free, At
<1>6. UploadsAreAlone'
  BY <1>1, <1>2, <1>3 DEF FileInv, UploadsAreAlone, TypeOK, Progress, Now, OthersKept,
     Row, Removing, Lists, Free, At
<1>7. DeletedStaysDeleted'
  BY <1>1, <1>2, <1>3 DEF FileInv, DeletedStaysDeleted, TypeOK, Progress,
     UploadsAreAlone, Now, OthersKept, Lists, Free, At
<1>8. NoBytesWithoutRow'
  BY <1>1, <1>2, <1>3 DEF FileInv, NoBytesWithoutRow, TypeOK, UploadsAreAlone,
     DeletedStaysDeleted, Row, Free, At
<1>9. RowsWithoutBytes'
  BY <1>1, <1>2, <1>3 DEF FileInv, RowsWithoutBytes, TypeOK, Progress,
     UploadsAreAlone, Now, OthersKept, Row, Lists, Free, At
<1>10. HiddenRows'
  BY <1>1, <1>2, <1>3 DEF FileInv, HiddenRows, TypeOK, Progress, Now, OthersKept, Row,
     Lists, Free, At
<1>11. BytesWithoutRow'
  BY <1>1, <1>2, <1>3 DEF FileInv, BytesWithoutRow, TypeOK, Progress, UploadsAreAlone,
     Now, OthersKept, Row, Lists, Free, At
<1> QED BY <1>4, <1>5, <1>6, <1>7, <1>8, <1>9, <1>10, <1>11 DEF FileInv

\* The object is stored, or the request ends.
LEMMA PutKeeps ==
    ASSUME FileInv, NEW r \in Request, Put(r)
    PROVE  FileInv'
<1>1. TypeOK /\ Lists
  BY ListsAreFiles DEF FileInv
<1>2. \/ /\ object' = object \union req[r].files /\ torn' = torn
         /\ Now(r, "create", req[r].files, req[r].ok, req[r].failed)
      \/ /\ Now(r, "idle", {}, {}, {})
         /\ \/ object' = object /\ torn' = torn
            \/ object' = object \union req[r].files /\ torn' = torn \union req[r].files
  BY <1>1, GotoMoves, FinishReleases DEF Put, Stage, Uploading
<1>3. At(r, "put") /\ UNCHANGED <<status, abandoned, shelved>>
  BY DEF Put, At
<1>4. TypeOK'
  BY <1>1, <1>2, <1>3 DEF FileInv, TypeOK, Now, Lists, At
<1>5. Progress'
  BY <1>1, <1>2, <1>3 DEF FileInv, Progress, Now, OthersKept, Lists, At
<1>6. UploadsAreAlone'
  BY <1>1, <1>2, <1>3 DEF FileInv, UploadsAreAlone, TypeOK, Progress, Now, OthersKept,
     Row, Removing, Lists, At
<1>7. DeletedStaysDeleted'
  BY <1>1, <1>2, <1>3 DEF FileInv, DeletedStaysDeleted, TypeOK, Progress,
     UploadsAreAlone, Now, OthersKept, Lists, At
<1>8. NoBytesWithoutRow'
  BY <1>1, <1>2, <1>3 DEF FileInv, NoBytesWithoutRow, TypeOK, UploadsAreAlone,
     DeletedStaysDeleted, Row, At
<1>9. RowsWithoutBytes'
  BY <1>1, <1>2, <1>3 DEF FileInv, RowsWithoutBytes, TypeOK, Progress,
     UploadsAreAlone, Now, OthersKept, Row, Lists, At
<1>10. HiddenRows'
  BY <1>1, <1>2, <1>3 DEF FileInv, HiddenRows, TypeOK, Progress, Now, OthersKept, Row,
     Lists, At
<1>11. BytesWithoutRow'
  BY <1>1, <1>2, <1>3 DEF FileInv, BytesWithoutRow, TypeOK, Progress, UploadsAreAlone,
     Now, OthersKept, Row, Lists, At
<1> QED BY <1>4, <1>5, <1>6, <1>7, <1>8, <1>9, <1>10, <1>11 DEF FileInv

\* The row is created, or the object is to be removed again.
LEMMA CreateRecordKeeps ==
    ASSUME FileInv, NEW r \in Request, CreateRecord(r)
    PROVE  FileInv'
<1>1. TypeOK /\ Lists
  BY ListsAreFiles DEF FileInv
<1>2. LET created == Update(req[r].files, {"none"}, "ACTIVE") IN
      \/ status' = created /\ torn' = torn /\ Now(r, "idle", {}, {}, {})
      \/ /\ Now(r, "rollback", req[r].files, req[r].ok, req[r].failed)
         /\ \/ status' = status /\ torn' = torn
            \/ status' = created /\ torn' = torn \union req[r].files
  BY <1>1, GotoMoves, FinishReleases DEF CreateRecord, Failed, Stage, Uploading
<1>3. At(r, "create") /\ UNCHANGED <<object, abandoned, shelved>>
  BY DEF CreateRecord, At
<1>4. TypeOK'
  BY <1>1, <1>2, <1>3, UpdateTyped DEF FileInv, TypeOK, Now, Row, Lists, At
<1>5. Progress'
  BY <1>1, <1>2, <1>3 DEF FileInv, Progress, Now, OthersKept, Lists, At
<1>6. UploadsAreAlone'
  BY <1>1, <1>2, <1>3 DEF FileInv, UploadsAreAlone, TypeOK, Progress, Now, OthersKept,
     Row, Removing, Lists, At, Update
<1>7. DeletedStaysDeleted'
  BY <1>1, <1>2, <1>3 DEF FileInv, DeletedStaysDeleted, TypeOK, Progress,
     UploadsAreAlone, Now, OthersKept, Lists, At, Update
<1>8. NoBytesWithoutRow'
  BY <1>1, <1>2, <1>3 DEF FileInv, NoBytesWithoutRow, TypeOK, UploadsAreAlone,
     DeletedStaysDeleted, Row, Lists, At, Update
<1>9. RowsWithoutBytes'
  BY <1>1, <1>2, <1>3 DEF FileInv, RowsWithoutBytes, TypeOK, Progress,
     UploadsAreAlone, Now, OthersKept, Row, Lists, At, Update
<1>10. HiddenRows'
  BY <1>1, <1>2, <1>3 DEF FileInv, HiddenRows, TypeOK, Progress, Now, OthersKept, Row,
     Lists, At, Update
<1>11. BytesWithoutRow'
  BY <1>1, <1>2, <1>3 DEF FileInv, BytesWithoutRow, TypeOK, Progress, UploadsAreAlone,
     Now, OthersKept, Row, Lists, At, Update
<1> QED BY <1>4, <1>5, <1>6, <1>7, <1>8, <1>9, <1>10, <1>11 DEF FileInv

\* The object of a failed upload is removed, or marked.
LEMMA RollbackKeeps ==
    ASSUME FileInv, NEW r \in Request, Rollback(r)
    PROVE  FileInv'
<1>1. TypeOK /\ Lists
  BY ListsAreFiles DEF FileInv
<1>2. /\ Now(r, "idle", {}, {}, {})
      /\ \/ object' = object \ req[r].files /\ torn' = torn
         \/ object' = object /\ torn' = torn \union req[r].files
  BY <1>1, FinishReleases DEF Rollback
<1>3. At(r, "rollback") /\ UNCHANGED <<status, abandoned, shelved>>
  BY DEF Rollback, At
<1>4. TypeOK'
  BY <1>1, <1>2, <1>3 DEF FileInv, TypeOK, Now, Lists, At
<1>5. Progress'
  BY <1>1, <1>2, <1>3 DEF FileInv, Progress, Now, OthersKept, Lists, At
<1>6. UploadsAreAlone'
  BY <1>1, <1>2, <1>3 DEF FileInv, UploadsAreAlone, TypeOK, Progress, Now, OthersKept,
     Row, Removing, Lists, At
<1>7. DeletedStaysDeleted'
  BY <1>1, <1>2, <1>3 DEF FileInv, DeletedStaysDeleted, TypeOK, Progress,
     UploadsAreAlone, Now, OthersKept, Lists, At
<1>8. NoBytesWithoutRow'
  BY <1>1, <1>2, <1>3 DEF FileInv, NoBytesWithoutRow, TypeOK, UploadsAreAlone,
     DeletedStaysDeleted, Row, At
<1>9. RowsWithoutBytes'
  BY <1>1, <1>2, <1>3 DEF FileInv, RowsWithoutBytes, TypeOK, Progress,
     UploadsAreAlone, Now, OthersKept, Row, Lists, At
<1>10. HiddenRows'
  BY <1>1, <1>2, <1>3 DEF FileInv, HiddenRows, TypeOK, Progress, Now, OthersKept, Row,
     Lists, At
<1>11. BytesWithoutRow'
  BY <1>1, <1>2, <1>3 DEF FileInv, BytesWithoutRow, TypeOK, Progress, UploadsAreAlone,
     Now, OthersKept, Row, Lists, At
<1> QED BY <1>4, <1>5, <1>6, <1>7, <1>8, <1>9, <1>10, <1>11 DEF FileInv

\* An edit starts with a visible file.
LEMMA BeginEditKeeps ==
    ASSUME FileInv, NEW r \in Request, BeginEdit(r)
    PROVE  FileInv'
<1>1. TypeOK /\ Lists
  BY ListsAreFiles DEF FileInv
<1>2. PICK f \in File : status[f] = "ACTIVE" /\ Now(r, "edit", {f}, {}, {}) /\ At(r, "idle")
  BY <1>1, EnterStarts DEF BeginEdit, Stage
<1>3. UNCHANGED <<status, object, torn, abandoned, shelved>>
  BY DEF BeginEdit, At
<1>4. TypeOK'
  BY <1>1, <1>2, <1>3 DEF FileInv, TypeOK, Now, Lists, At
<1>5. Progress'
  BY <1>1, <1>2, <1>3 DEF FileInv, Progress, Now, OthersKept, Lists, At
<1>6. UploadsAreAlone'
  BY <1>1, <1>2, <1>3 DEF FileInv, UploadsAreAlone, TypeOK, Progress, Now, OthersKept,
     Row, Removing, Lists, At
<1>7. DeletedStaysDeleted'
  BY <1>1, <1>2, <1>3 DEF FileInv, DeletedStaysDeleted, TypeOK, Progress,
     UploadsAreAlone, Now, OthersKept, Lists, At
<1>8. NoBytesWithoutRow'
  BY <1>1, <1>2, <1>3 DEF FileInv, NoBytesWithoutRow, TypeOK, UploadsAreAlone,
     DeletedStaysDeleted, Row, At
<1>9. RowsWithoutBytes'
  BY <1>1, <1>2, <1>3 DEF FileInv, RowsWithoutBytes, TypeOK, Progress,
     UploadsAreAlone, Now, OthersKept, Row, Lists, At
<1>10. HiddenRows'
  BY <1>1, <1>2, <1>3 DEF FileInv, HiddenRows, TypeOK, Progress, Now, OthersKept, Row,
     Lists, At
<1>11. BytesWithoutRow'
  BY <1>1, <1>2, <1>3 DEF FileInv, BytesWithoutRow, TypeOK, Progress, UploadsAreAlone,
     Now, OthersKept, Row, Lists, At
<1> QED BY <1>4, <1>5, <1>6, <1>7, <1>8, <1>9, <1>10, <1>11 DEF FileInv

\* An edit writes a status, if the row is still there.
LEMMA EditKeeps ==
    ASSUME FileInv, NEW r \in Request, Edit(r)
    PROVE  FileInv'
<1>1. TypeOK /\ Lists
  BY ListsAreFiles DEF FileInv
<1>2. /\ Now(r, "idle", {}, {}, {})
      /\ \/ \E new \in Row :
              /\ status' = Update(req[r].files, Row, new)
              /\ shelved' = IF new = "INACTIVE" THEN shelved \union req[r].files ELSE shelved
         \/ status' = status /\ shelved' = shelved
  BY <1>1, FinishReleases DEF Edit
<1>3. At(r, "edit") /\ UNCHANGED <<object, torn, abandoned>>
  BY DEF Edit, At
<1>4. TypeOK'
  BY <1>1, <1>2, <1>3, UpdateTyped DEF FileInv, TypeOK, Now, Row, Lists, At
<1>5. Progress'
  BY <1>1, <1>2, <1>3 DEF FileInv, Progress, Now, OthersKept, Lists, At
<1>6. UploadsAreAlone'
  BY <1>1, <1>2, <1>3 DEF FileInv, UploadsAreAlone, TypeOK, Progress, Now, OthersKept,
     Row, Removing, Lists, At, Update
<1>7. DeletedStaysDeleted'
  BY <1>1, <1>2, <1>3 DEF FileInv, DeletedStaysDeleted, TypeOK, Progress,
     UploadsAreAlone, Now, OthersKept, Lists, At, Update
<1>8. NoBytesWithoutRow'
  BY <1>1, <1>2, <1>3 DEF FileInv, NoBytesWithoutRow, TypeOK, UploadsAreAlone,
     DeletedStaysDeleted, Row, Lists, At, Update
<1>9. RowsWithoutBytes'
  BY <1>1, <1>2, <1>3 DEF FileInv, RowsWithoutBytes, TypeOK, Progress,
     UploadsAreAlone, Now, OthersKept, Row, Lists, At, Update
<1>10. HiddenRows'
  BY <1>1, <1>2, <1>3 DEF FileInv, HiddenRows, TypeOK, Progress, Now, OthersKept, Row,
     Lists, At, Update
<1>11. BytesWithoutRow'
  BY <1>1, <1>2, <1>3 DEF FileInv, BytesWithoutRow, TypeOK, Progress, UploadsAreAlone,
     Now, OthersKept, Row, Lists, At, Update
<1> QED BY <1>4, <1>5, <1>6, <1>7, <1>8, <1>9, <1>10, <1>11 DEF FileInv

\* A removal starts with visible files.
LEMMA BeginRemoveKeeps ==
    ASSUME FileInv, NEW r \in Request, BeginRemove(r)
    PROVE  FileInv'
<1>1. TypeOK /\ Lists
  BY ListsAreFiles DEF FileInv
<1>2. PICK files \in SUBSET File :
         /\ \A f \in files : status[f] = "ACTIVE"
         /\ Now(r, "hide", files, {}, {}) /\ At(r, "idle")
  BY <1>1, EnterStarts DEF BeginRemove, Stage, Removing
<1>3. UNCHANGED <<status, object, torn, abandoned, shelved>>
  BY DEF BeginRemove, At
<1>4. TypeOK'
  BY <1>1, <1>2, <1>3 DEF FileInv, TypeOK, Now, Lists, At
<1>5. Progress'
  BY <1>1, <1>2, <1>3 DEF FileInv, Progress, Now, OthersKept, Lists, At
<1>6. UploadsAreAlone'
  BY <1>1, <1>2, <1>3 DEF FileInv, UploadsAreAlone, TypeOK, Progress, Now, OthersKept,
     Row, Removing, Lists, At
<1>7. DeletedStaysDeleted'
  BY <1>1, <1>2, <1>3 DEF FileInv, DeletedStaysDeleted, TypeOK, Progress,
     UploadsAreAlone, Now, OthersKept, Lists, At
<1>8. NoBytesWithoutRow'
  BY <1>1, <1>2, <1>3 DEF FileInv, NoBytesWithoutRow, TypeOK, UploadsAreAlone,
     DeletedStaysDeleted, Row, At
<1>9. RowsWithoutBytes'
  BY <1>1, <1>2, <1>3 DEF FileInv, RowsWithoutBytes, TypeOK, Progress,
     UploadsAreAlone, Now, OthersKept, Row, Lists, At
<1>10. HiddenRows'
  BY <1>1, <1>2, <1>3 DEF FileInv, HiddenRows, TypeOK, Progress, Now, OthersKept, Row,
     Lists, At
<1>11. BytesWithoutRow'
  BY <1>1, <1>2, <1>3 DEF FileInv, BytesWithoutRow, TypeOK, Progress, UploadsAreAlone,
     Now, OthersKept, Row, Lists, At
<1> QED BY <1>4, <1>5, <1>6, <1>7, <1>8, <1>9, <1>10, <1>11 DEF FileInv

\* The rows are hidden, or the request ends.
LEMMA HideKeeps ==
    ASSUME FileInv, NEW r \in Request, Hide(r)
    PROVE  FileInv'
<1>1. TypeOK /\ Lists
  BY ListsAreFiles DEF FileInv
<1>2. LET hidden == Update(req[r].files, {"ACTIVE"}, "INACTIVE") IN
      \/ /\ status' = hidden /\ torn' = torn
         /\ Now(r, "objects", req[r].files, req[r].ok, req[r].failed)
      \/ /\ Now(r, "idle", {}, {}, {})
         /\ \/ status' = status /\ torn' = torn
            \/ status' = hidden /\ torn' = torn \union req[r].files
  BY <1>1, GotoMoves, FinishReleases DEF Hide, Failed, Stage, Removing
<1>3. At(r, "hide") /\ UNCHANGED <<object, abandoned, shelved>>
  BY DEF Hide, At
<1>4. TypeOK'
  BY <1>1, <1>2, <1>3, UpdateTyped DEF FileInv, TypeOK, Now, Row, Lists, At
<1>5. Progress'
  BY <1>1, <1>2, <1>3 DEF FileInv, Progress, Now, OthersKept, Lists, At
<1>6. UploadsAreAlone'
  BY <1>1, <1>2, <1>3 DEF FileInv, UploadsAreAlone, TypeOK, Progress, Now, OthersKept,
     Row, Removing, Lists, At, Update
<1>7. DeletedStaysDeleted'
  BY <1>1, <1>2, <1>3 DEF FileInv, DeletedStaysDeleted, TypeOK, Progress,
     UploadsAreAlone, Now, OthersKept, Lists, At, Update
<1>8. NoBytesWithoutRow'
  BY <1>1, <1>2, <1>3 DEF FileInv, NoBytesWithoutRow, TypeOK, UploadsAreAlone,
     DeletedStaysDeleted, Row, Lists, At, Update
<1>9. RowsWithoutBytes'
  BY <1>1, <1>2, <1>3 DEF FileInv, RowsWithoutBytes, TypeOK, Progress,
     UploadsAreAlone, Now, OthersKept, Row, Lists, At, Update
<1>10. HiddenRows'
  BY <1>1, <1>2, <1>3 DEF FileInv, HiddenRows, TypeOK, Progress, Now, OthersKept, Row,
     Lists, At, Update
<1>11. BytesWithoutRow'
  BY <1>1, <1>2, <1>3 DEF FileInv, BytesWithoutRow, TypeOK, Progress, UploadsAreAlone,
     Now, OthersKept, Row, Lists, At, Update
<1> QED BY <1>4, <1>5, <1>6, <1>7, <1>8, <1>9, <1>10, <1>11 DEF FileInv

\* The rows of the deleted objects go, or the request ends.
LEMMA DeleteRowsKeeps ==
    ASSUME FileInv, NEW r \in Request, DeleteRows(r)
    PROVE  FileInv'
<1>1. TypeOK /\ Lists
  BY ListsAreFiles DEF FileInv
<1>2. LET deleted == Update(req[r].ok, Row, "deleted") IN
      \/ /\ status' = deleted /\ torn' = torn /\ abandoned' = abandoned
         /\ \/ req[r].failed = {} /\ Now(r, "idle", {}, {}, {})
            \/ Now(r, "restore", req[r].files, req[r].ok, req[r].failed)
      \/ /\ status' = status \/ status' = deleted
         /\ torn' = torn \union req[r].ok /\ abandoned' = abandoned \union req[r].failed
         /\ Now(r, "idle", {}, {}, {})
  BY <1>1, GotoMoves, FinishReleases DEF DeleteRows, Stage, Removing
<1>3. At(r, "rows") /\ UNCHANGED <<object, shelved>>
  BY DEF DeleteRows, At
<1>4. TypeOK'
  BY <1>1, <1>2, <1>3, UpdateTyped DEF FileInv, TypeOK, Now, Row, Lists, At
<1>5. Progress'
  BY <1>1, <1>2, <1>3 DEF FileInv, Progress, Now, OthersKept, Lists, At
<1>6. UploadsAreAlone'
  BY <1>1, <1>2, <1>3 DEF FileInv, UploadsAreAlone, TypeOK, Progress, Now, OthersKept,
     Row, Removing, Lists, At, Update
<1>7. DeletedStaysDeleted'
  BY <1>1, <1>2, <1>3 DEF FileInv, DeletedStaysDeleted, TypeOK, Progress,
     UploadsAreAlone, Now, OthersKept, Lists, At, Update
<1>8. NoBytesWithoutRow'
  BY <1>1, <1>2, <1>3 DEF FileInv, NoBytesWithoutRow, TypeOK, UploadsAreAlone,
     DeletedStaysDeleted, Row, Lists, At, Update
<1>9. RowsWithoutBytes'
  BY <1>1, <1>2, <1>3 DEF FileInv, RowsWithoutBytes, TypeOK, Progress,
     UploadsAreAlone, Now, OthersKept, Row, Lists, At, Update
<1>10. HiddenRows'
  BY <1>1, <1>2, <1>3 DEF FileInv, HiddenRows, TypeOK, Progress, Now, OthersKept, Row,
     Lists, At, Update
<1>11. BytesWithoutRow'
  BY <1>1, <1>2, <1>3 DEF FileInv, BytesWithoutRow, TypeOK, Progress, UploadsAreAlone,
     Now, OthersKept, Row, Lists, At, Update
<1> QED BY <1>4, <1>5, <1>6, <1>7, <1>8, <1>9, <1>10, <1>11 DEF FileInv

\* The rows of the files that were not deleted are shown again.
LEMMA RestoreKeeps ==
    ASSUME FileInv, NEW r \in Request, Restore(r)
    PROVE  FileInv'
<1>1. TypeOK /\ Lists
  BY ListsAreFiles DEF FileInv
<1>2. LET restored == Update(req[r].failed, Row, "ACTIVE") IN
      /\ Now(r, "idle", {}, {}, {})
      /\ \/ status' = restored /\ torn' = torn
         \/ (status' = status \/ status' = restored) /\ torn' = torn \union req[r].failed
  BY <1>1, FinishReleases DEF Restore
<1>3. At(r, "restore") /\ UNCHANGED <<object, abandoned, shelved>>
  BY DEF Restore, At
<1>4. TypeOK'
  BY <1>1, <1>2, <1>3, UpdateTyped DEF FileInv, TypeOK, Now, Row, Lists, At
<1>5. Progress'
  BY <1>1, <1>2, <1>3 DEF FileInv, Progress, Now, OthersKept, Lists, At
<1>6. UploadsAreAlone'
  BY <1>1, <1>2, <1>3 DEF FileInv, UploadsAreAlone, TypeOK, Progress, Now, OthersKept,
     Row, Removing, Lists, At, Update
<1>7. DeletedStaysDeleted'
  BY <1>1, <1>2, <1>3 DEF FileInv, DeletedStaysDeleted, TypeOK, Progress,
     UploadsAreAlone, Now, OthersKept, Lists, At, Update
<1>8. NoBytesWithoutRow'
  BY <1>1, <1>2, <1>3 DEF FileInv, NoBytesWithoutRow, TypeOK, UploadsAreAlone,
     DeletedStaysDeleted, Row, Lists, At, Update
<1>9. RowsWithoutBytes'
  BY <1>1, <1>2, <1>3 DEF FileInv, RowsWithoutBytes, TypeOK, Progress,
     UploadsAreAlone, Now, OthersKept, Row, Lists, At, Update
<1>10. HiddenRows'
  BY <1>1, <1>2, <1>3 DEF FileInv, HiddenRows, TypeOK, Progress, Now, OthersKept, Row,
     Lists, At, Update
<1>11. BytesWithoutRow'
  BY <1>1, <1>2, <1>3 DEF FileInv, BytesWithoutRow, TypeOK, Progress, UploadsAreAlone,
     Now, OthersKept, Row, Lists, At, Update
<1> QED BY <1>4, <1>5, <1>6, <1>7, <1>8, <1>9, <1>10, <1>11 DEF FileInv

\* A crash ends the request and marks its files.
LEMMA CrashKeeps ==
    ASSUME FileInv, NEW r \in Request, Crash(r)
    PROVE  FileInv'
<1>1. TypeOK /\ Lists
  BY ListsAreFiles DEF FileInv
<1>2. torn' = torn \union req[r].files /\ Now(r, "idle", {}, {}, {})
  BY <1>1, FinishReleases DEF Crash
<1>3. ~At(r, "idle") /\ UNCHANGED <<status, object, abandoned, shelved>>
  BY DEF Crash, At
<1>4. TypeOK'
  BY <1>1, <1>2, <1>3 DEF FileInv, TypeOK, Now, Lists, At
<1>5. Progress'
  BY <1>1, <1>2, <1>3 DEF FileInv, Progress, Now, OthersKept, Lists, At
<1>6. UploadsAreAlone'
  BY <1>1, <1>2, <1>3 DEF FileInv, UploadsAreAlone, TypeOK, Progress, Now, OthersKept,
     Row, Removing, Lists, At
<1>7. DeletedStaysDeleted'
  BY <1>1, <1>2, <1>3 DEF FileInv, DeletedStaysDeleted, TypeOK, Progress,
     UploadsAreAlone, Now, OthersKept, Lists, At
<1>8. NoBytesWithoutRow'
  BY <1>1, <1>2, <1>3 DEF FileInv, NoBytesWithoutRow, TypeOK, UploadsAreAlone,
     DeletedStaysDeleted, Row, At
<1>9. RowsWithoutBytes'
  BY <1>1, <1>2, <1>3 DEF FileInv, RowsWithoutBytes, TypeOK, Progress,
     UploadsAreAlone, Now, OthersKept, Row, Lists, At
<1>10. HiddenRows'
  BY <1>1, <1>2, <1>3 DEF FileInv, HiddenRows, TypeOK, Progress, Now, OthersKept, Row,
     Lists, At
<1>11. BytesWithoutRow'
  BY <1>1, <1>2, <1>3 DEF FileInv, BytesWithoutRow, TypeOK, Progress, UploadsAreAlone,
     Now, OthersKept, Row, Lists, At
<1> QED BY <1>4, <1>5, <1>6, <1>7, <1>8, <1>9, <1>10, <1>11 DEF FileInv

\* One storage deletion ends, and with the last one the request moves on.
LEMMA DeleteObjectKeeps ==
    ASSUME FileInv, NEW r \in Request, DeleteObject(r)
    PROVE  FileInv'
<1>1. TypeOK /\ Lists
  BY ListsAreFiles DEF FileInv
<1>2. PICK f \in req[r].files \ (req[r].ok \union req[r].failed), stage \in Stage :
         \/ /\ object' = object \ {f} /\ torn' = torn
            /\ Now(r, stage, req[r].files, req[r].ok \union {f}, req[r].failed)
            /\ \/ stage = "objects"
               \/ stage = "rows" /\ req[r].files = req[r].ok \union {f} \union req[r].failed
         \/ /\ \/ object' = object /\ torn' = torn
               \/ object' = object \ {f} /\ torn' = torn \union {f}
            /\ Now(r, stage, req[r].files, req[r].ok, req[r].failed \union {f})
            /\ \/ stage = "objects"
               \/ stage = "rows" /\ req[r].files = req[r].ok \union req[r].failed \union {f}
               \/ /\ stage = "restore" /\ req[r].ok = {}
                  /\ req[r].files = req[r].failed \union {f}
  BY <1>1, OneDeletion
<1>3. At(r, "objects") /\ UNCHANGED <<status, abandoned, shelved>>
  BY DEF DeleteObject, At
<1>4. TypeOK'
  BY <1>1, <1>2, <1>3 DEF FileInv, TypeOK, Now, Lists, At
<1>5. Progress'
  BY <1>1, <1>2, <1>3 DEF FileInv, Progress, Now, OthersKept, Lists, At
<1>6. UploadsAreAlone'
  BY <1>1, <1>2, <1>3 DEF FileInv, UploadsAreAlone, TypeOK, Progress, Now, OthersKept,
     Row, Removing, Lists, At
<1>7. DeletedStaysDeleted'
  BY <1>1, <1>2, <1>3 DEF FileInv, DeletedStaysDeleted, TypeOK, Progress,
     UploadsAreAlone, Now, OthersKept, Lists, At
<1>8. NoBytesWithoutRow'
  BY <1>1, <1>2, <1>3 DEF FileInv, NoBytesWithoutRow, TypeOK, UploadsAreAlone,
     DeletedStaysDeleted, Row, At
<1>9. RowsWithoutBytes'
  BY <1>1, <1>2, <1>3 DEF FileInv, RowsWithoutBytes, TypeOK, Progress,
     UploadsAreAlone, Now, OthersKept, Row, Lists, At
<1>10. HiddenRows'
  BY <1>1, <1>2, <1>3 DEF FileInv, HiddenRows, TypeOK, Progress, Now, OthersKept, Row,
     Lists, At
<1>11. BytesWithoutRow'
  BY <1>1, <1>2, <1>3 DEF FileInv, BytesWithoutRow, TypeOK, Progress, UploadsAreAlone,
     Now, OthersKept, Row, Lists, At
<1> QED BY <1>4, <1>5, <1>6, <1>7, <1>8, <1>9, <1>10, <1>11 DEF FileInv

-----------------------------------------------------------------------------
\* Nothing has happened at the start.
LEMMA InitInv == Init => FileInv
BY DEF Init, FileInv, TypeOK, Progress, UploadsAreAlone, DeletedStaysDeleted,
   NoBytesWithoutRow, RowsWithoutBytes, HiddenRows, BytesWithoutRow, RequestState, Stage,
   Idle, At, Row

\* A step that changes nothing keeps the invariant.
LEMMA StutterKeeps == FileInv /\ UNCHANGED vars => FileInv'
BY DEF vars, FileInv, TypeOK, Progress, UploadsAreAlone, DeletedStaysDeleted,
   NoBytesWithoutRow, RowsWithoutBytes, HiddenRows, BytesWithoutRow, At

\* Every step of a request keeps it.
LEMMA NextInv == FileInv /\ [Next]_vars => FileInv'
<1> SUFFICES ASSUME FileInv, Next PROVE FileInv'
  BY StutterKeeps
<1>1. PICK r \in Request :
          \/ BeginUpload(r) \/ Put(r) \/ CreateRecord(r) \/ Rollback(r)
          \/ BeginEdit(r) \/ Edit(r)
          \/ BeginRemove(r) \/ Hide(r) \/ DeleteObject(r) \/ DeleteRows(r) \/ Restore(r)
          \/ Crash(r)
  BY DEF Next
<1> QED
  BY <1>1, BeginUploadKeeps, PutKeeps, CreateRecordKeeps, RollbackKeeps, BeginEditKeeps,
     EditKeeps, BeginRemoveKeeps, HideKeeps, DeleteObjectKeeps, DeleteRowsKeeps,
     RestoreKeeps, CrashKeeps

-----------------------------------------------------------------------------
(* The theorems.                                                            *)

\* What the requests in flight guarantee about rows and bytes holds in every
\* reachable state of FileService, for any number of files and requests.
THEOREM FileInvariant == Spec => []FileInv
BY InitInv, NextInv, PTL DEF Spec

\* A removal never leaves bytes behind that no row leads to.
THEOREM RemovalsLeaveNoBytes == Spec => []NoBytesWithoutRow
<1>1. FileInv => NoBytesWithoutRow
  BY DEF FileInv
<1> QED BY <1>1, FileInvariant, PTL

\* A file that no fault hit and no request works on has both its row and its
\* bytes, or neither.
THEOREM FilesSettle == Spec => []Settled
<1>1. ASSUME FileInv PROVE Settled
  <2> SUFFICES ASSUME NEW f \in File \ (torn \union abandoned), Free(f)
               PROVE  /\ status[f] \in Row => f \in object
                      /\ status[f] = "INACTIVE" => f \in shelved
                      /\ status[f] = "none" => f \notin object
    BY DEF Settled
  <2>1. \A r \in Request : f \notin req[r].files /\ f \notin req[r].ok /\ f \notin req[r].failed
    BY <1>1 DEF Free, FileInv, Progress
  <2>2. status[f] \in Row => f \in object
    BY <1>1, <2>1 DEF FileInv, RowsWithoutBytes
  <2>3. status[f] = "INACTIVE" => f \in shelved
    BY <1>1, <2>1 DEF FileInv, HiddenRows
  <2>4. status[f] = "none" => f \notin object
    BY <1>1, <2>1 DEF FileInv, BytesWithoutRow
  <2> QED BY <2>2, <2>3, <2>4
<1> QED BY <1>1, FileInvariant, PTL


-----------------------------------------------------------------------------
(* Uploads.                                                                 *)

\* Nobody uploads anything yet.
LEMMA UploadInitKeeps == UploadInit => UploadInv
  BY DEF UploadInit, UploadInv, UploadTypeOK, UploadState, NoUpload, Handler, Saving, HandlerAt,
         SaveIsOver, Reading, TempFilesAreRemoved, FilesOutliveTheirSave

\* A save that rejects marks its own request, or ends all of them at once.
LEMMA RejectKeeps ==
  ASSUME UploadInv, NEW r \in UploadRequest, ~SaveIsOver(r), Reject(r)
  PROVE  UploadInv'
<1> USE DEF UploadInv, UploadTypeOK, UploadState, Handler, Saving, Reading, HandlerAt,
            SaveIsOver, TempFilesAreRemoved, FilesOutliveTheirSave
<1>1. CASE upload[r].handler \in {"unlink", "gone"}
  BY <1>1 DEF Reject, NoUpload
<1>2. CASE upload[r].handler \notin {"unlink", "gone"}
  <2>1. temp' = temp /\ left' = left /\ upload' = [upload EXCEPT ![r].save = "failed"]
    BY <1>2 DEF Reject
  <2>2. ~HandlerAt(r, "receive") /\ ~HandlerAt(r, "idle")
    OBVIOUS
  <2> QED BY <1>2, <2>1, <2>2
<1> QED BY <1>1, <1>2

\* A step of a save either moves that save on or rejects.
LEMMA ReadKeeps ==
  ASSUME UploadInv, NEW r \in UploadRequest, NEW step \in Reading,
         NEW next \in {"record"} \union Reading, Read(r, step, next)
  PROVE  UploadInv'
<1>1. ~SaveIsOver(r)
  BY DEF Read, SaveIsOver
<1>2. CASE Reject(r)
  BY <1>1, <1>2, RejectKeeps
<1>3. CASE r \in temp /\ upload' = [upload EXCEPT ![r].save = next] /\ UNCHANGED <<temp, left>>
  <2>1. ~HandlerAt(r, "receive") /\ ~HandlerAt(r, "idle")
    BY <1>1 DEF SaveIsOver, UploadInv, Reading
  <2> QED BY <1>1, <1>3, <2>1 DEF UploadInv, UploadTypeOK, UploadState, Handler, Saving, Reading, HandlerAt,
                            SaveIsOver, TempFilesAreRemoved, FilesOutliveTheirSave
<1> QED BY <1>2, <1>3 DEF Read

\* Every step of the handlers and of the saves keeps the invariant.
LEMMA UploadStepKeeps == UploadInv /\ [UploadNext]_uploadVars => UploadInv'
<1> SUFFICES ASSUME UploadInv, [UploadNext]_uploadVars PROVE UploadInv'
  OBVIOUS
<1> USE DEF UploadInv, UploadTypeOK, UploadState, Handler, Saving, Reading, HandlerAt,
            SaveIsOver, TempFilesAreRemoved, FilesOutliveTheirSave
<1>1. CASE UNCHANGED uploadVars
  BY <1>1 DEF uploadVars
<1>2. ASSUME NEW r \in UploadRequest, Receive(r) PROVE UploadInv'
  <2>1. PICK kind \in {"file", "image"} :
          upload' = [upload EXCEPT ![r] = [@ EXCEPT !.kind = kind, !.handler = "receive"]]
    BY <1>2 DEF Receive
  <2>2. HandlerAt(r, "idle") /\ temp' = temp \union {r} /\ left' = left \ {r}
    BY <1>2 DEF Receive
  <2> QED BY <2>1, <2>2
<1>3. ASSUME NEW r \in UploadRequest, Fail(r) PROVE UploadInv'
  BY <1>3 DEF Fail
<1>4. ASSUME NEW r \in UploadRequest, SaveFile(r) PROVE UploadInv'
  BY <1>4 DEF SaveFile
<1>5. ASSUME NEW r \in UploadRequest, SaveImage(r) PROVE UploadInv'
  BY <1>5 DEF SaveImage
<1>6. ASSUME NEW r \in UploadRequest, Saved(r) PROVE UploadInv'
  BY <1>6 DEF Saved
<1>7. ASSUME NEW r \in UploadRequest, Unlink(r) PROVE UploadInv'
  <2>1. CASE temp' = temp \ {r} /\ Leaves(r, "answer") /\ UNCHANGED left
    BY <1>7, <2>1 DEF Unlink, Leaves, NoUpload
  <2>2. CASE r \in temp /\ left' = left \union {r} /\ Leaves(r, "gone") /\ UNCHANGED temp
    BY <1>7, <2>2 DEF Unlink, Leaves, NoUpload
  <2> QED BY <1>7, <2>1, <2>2 DEF Unlink
<1>8. ASSUME NEW r \in UploadRequest, Answer(r) PROVE UploadInv'
  BY <1>8 DEF Answer, NoUpload
<1>9. ASSUME NEW r \in UploadRequest, Validate(r) PROVE UploadInv'
  BY <1>9, ReadKeeps DEF Validate
<1>10. ASSUME NEW r \in UploadRequest, CalculateMd5(r) PROVE UploadInv'
  BY <1>10, ReadKeeps DEF CalculateMd5
<1>11. ASSUME NEW r \in UploadRequest, PutFile(r) PROVE UploadInv'
  BY <1>11, ReadKeeps DEF PutFile
<1>12. ASSUME NEW r \in UploadRequest, SaveRecord(r) PROVE UploadInv'
  <2>1. ~SaveIsOver(r)
    BY <1>12 DEF SaveRecord, SaveIsOver
  <2>2. CASE Reject(r)
    BY <2>1, <2>2, RejectKeeps
  <2>3. CASE upload' = [upload EXCEPT ![r].save = "stored"] /\ UNCHANGED <<temp, left>>
    <3>1. ~HandlerAt(r, "receive") /\ ~HandlerAt(r, "idle")
      BY <2>1 DEF SaveIsOver
    <3> QED BY <2>3, <3>1
  <2> QED BY <1>12, <2>2, <2>3 DEF SaveRecord
<1> QED
  BY <1>1, <1>2, <1>3, <1>4, <1>5, <1>6, <1>7, <1>8, <1>9, <1>10, <1>11, <1>12 DEF UploadNext

\* The invariant of the uploads, for any number of requests.
THEOREM UploadInvariant == UploadSpec => []UploadInv
  BY UploadInitKeeps, UploadStepKeeps, PTL DEF UploadSpec

\* A temporary file that an answered upload leaves behind in a running process
\* is one that unlink failed on.
THEOREM TempFilesRemoved == UploadSpec => []TempFilesAreRemoved
<1>1. UploadInv => TempFilesAreRemoved
  BY DEF UploadInv
<1> QED BY UploadInvariant, <1>1, PTL

\* A plain upload never loses its file to another request.
THEOREM FilesOutlive == UploadSpec => []FilesOutliveTheirSave
<1>1. UploadInv => FilesOutliveTheirSave
  BY DEF UploadInv
<1> QED BY UploadInvariant, <1>1, PTL
=============================================================================
