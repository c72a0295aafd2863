------------------------------- MODULE Upload -------------------------------
(***************************************************************************)
(* FileController.upload and uploadImage: the request body is streamed to  *)
(* a temporary file, FileService saves the file from there, and a finally  *)
(* block unlinks it.                                                       *)
(*                                                                         *)
(* The two handlers differ in one word.  upload awaits saveUploadedFile    *)
(* inside its try block; uploadImage returns the promise of                *)
(* saveUploadedImage from it, so its finally block runs while the picture  *)
(* is still being saved and only then is the promise awaited.  A promise   *)
(* that rejects before anybody awaits it is an unhandled rejection: no     *)
(* handler for those is installed, and Node.js stops the process.          *)
(*                                                                         *)
(* What saving stores and how it is undone is FileStore's: its BeginUpload *)
(* is a request whose digest is computed here.                             *)
(***************************************************************************)
CONSTANT UploadRequest    \* the uploads that can be in flight at once

VARIABLES
    temp,   \* the requests whose temporary file exists
    upload,    \* the uploads: what the handler and the save wait for
    left       \* history: the requests that unlink failed for

uploadVars == <<temp, upload, left>>

\* "gone": the request is answered with an error, its save goes on.
Handler == {"idle", "receive", "save", "unlink", "answer", "gone"}

\* The steps of a save that read the temporary file.
Reading == {"validate", "digest", "put"}
Saving == {"none", "record", "stored", "failed"} \union Reading

UploadState == [kind : {"file", "image"}, handler : Handler, save : Saving]

NoUpload == [kind |-> "file", handler |-> "idle", save |-> "none"]

HandlerAt(r, handler) == upload[r].handler = handler

SaveIsOver(r) == upload[r].save \notin {"record"} \union Reading

UploadInit ==
    /\ temp = {}
    /\ upload = [r \in UploadRequest |-> NoUpload]
    /\ left = {}

-----------------------------------------------------------------------------
(* The handlers.                                                            *)

\* The names of temporary files are random: a request has one of its own.
\* One that is left from the request before is not followed any further.
Receive(r) ==
    /\ HandlerAt(r, "idle")
    /\ temp' = temp \union {r}
    /\ left' = left \ {r}
    /\ \E kind \in {"file", "image"} :
        upload' = [upload EXCEPT ![r] = [@ EXCEPT !.kind = kind, !.handler = "receive"]]

\* Mutant of Fail: a body that cannot be used is answered at once.
FailAtOnce(r) ==
    /\ HandlerAt(r, "receive")
    /\ upload' = [upload EXCEPT ![r] = NoUpload]
    /\ UNCHANGED <<temp, left>>

\* The body is truncated, empty or broken off, or the file was never opened.
Fail(r) ==
    /\ HandlerAt(r, "receive")
    /\ upload' = [upload EXCEPT ![r].handler = "unlink"]
    /\ temp' \in {temp, temp \ {r}}
    /\ UNCHANGED left

\* upload: the save is awaited.
SaveFile(r) ==
    /\ HandlerAt(r, "receive") /\ upload[r].kind = "file"
    /\ upload' = [upload EXCEPT ![r] = [@ EXCEPT !.handler = "save", !.save = "validate"]]
    /\ UNCHANGED <<temp, left>>

\* uploadImage: the save goes on beside the finally block.
SaveImage(r) ==
    /\ HandlerAt(r, "receive") /\ upload[r].kind = "image"
    /\ upload' = [upload EXCEPT ![r] = [@ EXCEPT !.handler = "unlink", !.save = "validate"]]
    /\ UNCHANGED <<temp, left>>

\* Mutant of Saved: the result of the save is not awaited.
SavedEarly(r) ==
    /\ HandlerAt(r, "save")
    /\ upload' = [upload EXCEPT ![r].handler = "unlink"]
    /\ UNCHANGED <<temp, left>>

Saved(r) ==
    /\ HandlerAt(r, "save") /\ SaveIsOver(r)
    /\ upload' = [upload EXCEPT ![r].handler = "unlink"]
    /\ UNCHANGED <<temp, left>>

\* The handler is done with the request.  Its save may go on without it.
Leaves(r, handler) ==
    upload' = [upload EXCEPT ![r] = IF SaveIsOver(r) THEN NoUpload ELSE [@ EXCEPT !.handler = handler]]

\* A file that is not there is as good as removed.  Every other error of
\* unlink is thrown again: it is the answer, whatever becomes of the save.
Unlink(r) ==
    /\ HandlerAt(r, "unlink")
    /\ \/ temp' = temp \ {r} /\ Leaves(r, "answer") /\ UNCHANGED left
       \/ r \in temp /\ left' = left \union {r} /\ Leaves(r, "gone") /\ UNCHANGED temp

\* A save that nobody awaits any more ends the same way.
Answer(r) ==
    /\ upload[r].handler \in {"answer", "gone"} /\ SaveIsOver(r)
    /\ upload' = [upload EXCEPT ![r] = NoUpload]
    /\ UNCHANGED <<temp, left>>

-----------------------------------------------------------------------------
(* saveUploadedFile and saveUploadedImage.                                  *)

\* A save that fails while the handler still unlinks, or after it threw, stops
\* the process, and every upload with it.  The files it leaves are nobody's:
\* they are not followed any further.
Reject(r) ==
    IF upload[r].handler \in {"unlink", "gone"}
    THEN temp' = {} /\ left' = {} /\ upload' = [q \in UploadRequest |-> NoUpload]
    ELSE UNCHANGED <<temp, left>> /\ upload' = [upload EXCEPT ![r].save = "failed"]

\* The file is opened by its name.  It may be missing, or found wanting.
Read(r, step, next) ==
    /\ upload[r].save = step
    /\ \/ r \in temp /\ upload' = [upload EXCEPT ![r].save = next] /\ UNCHANGED <<temp, left>>
       \/ Reject(r)

\* The declared type and the size, then the first bytes of the file.
Validate(r) == Read(r, "validate", "digest")

CalculateMd5(r) == Read(r, "digest", "put")

PutFile(r) == Read(r, "put", "record")

SaveRecord(r) ==
    /\ upload[r].save = "record"
    /\ \/ upload' = [upload EXCEPT ![r].save = "stored"] /\ UNCHANGED <<temp, left>>
       \/ Reject(r)

UploadNext ==
    \E r \in UploadRequest :
        \/ Receive(r) \/ Fail(r) \/ SaveFile(r) \/ SaveImage(r)
        \/ Saved(r) \/ Unlink(r) \/ Answer(r)
        \/ Validate(r) \/ CalculateMd5(r) \/ PutFile(r) \/ SaveRecord(r)

UploadSpec == UploadInit /\ [][UploadNext]_uploadVars

-----------------------------------------------------------------------------
(* Properties.                                                              *)

UploadTypeOK ==
    /\ temp \subseteq UploadRequest
    /\ upload \in [UploadRequest -> UploadState]
    /\ left \subseteq UploadRequest

\* Whatever a request died of, its temporary file is gone when it is answered,
\* unless unlink itself failed on it: that file stays, and nothing in the code
\* comes back for it.
TempFilesAreRemoved ==
    \A r \in temp : upload[r].handler \in {"idle", "answer", "gone"} => r \in left

\* The file of a plain upload stays until its save is over, whatever the
\* uploads beside it do.
FilesOutliveTheirSave ==
    \A r \in UploadRequest : upload[r].kind = "file" /\ ~SaveIsOver(r) => r \in temp

\* The inductive invariant of the proofs.
UploadInv ==
    /\ UploadTypeOK
    /\ TempFilesAreRemoved
    /\ FilesOutliveTheirSave
    /\ \A r \in UploadRequest :
        /\ HandlerAt(r, "receive") => r \in temp /\ upload[r].save = "none"
        /\ HandlerAt(r, "idle") => upload[r].save = "none"
        /\ HandlerAt(r, "save") => r \in temp
        /\ upload[r].kind = "file" /\ ~SaveIsOver(r) => HandlerAt(r, "save")
        /\ HandlerAt(r, "answer") => r \notin temp
        /\ HandlerAt(r, "gone") => r \in left
        /\ r \in left => upload[r].handler \in {"idle", "gone"}

-----------------------------------------------------------------------------
\* saveUploadedImage's comment: the picture is saved from the temporary file.
\* uploadImage removes it meanwhile.
PicturesOutliveTheirSave ==
    \A r \in UploadRequest : upload[r].save \in Reading => r \in temp
=============================================================================
