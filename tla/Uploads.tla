------------------------------ MODULE Uploads ------------------------------
(***************************************************************************)
(* Uploads of one image file (hardware/usb/storage.rs): the partial file   *)
(* NAME.incomplete, the published file NAME, the table PENDING_UPLOADS of   *)
(* open handles, and the two ways in, an HTTP request                       *)
(* (web/storage.rs) and an "upload_..." data channel (data_channel.rs) fed  *)
(* by the web client (net/upload.rs).  Files are inodes, so that a handle   *)
(* follows its file through a rename; chunk i of the source file is i.      *)
(***************************************************************************)
EXTENDS Naturals, Sequences, FiniteSets

CONSTANTS
  Uploads,           \* attempts to upload the file
  Chunks,            \* its size
  MaxUploadFaults,   \* bound on failing writes
  MaxUploadRestarts  \* bound on restarts of the process

ASSUME UploadAssumption ==
  /\ Chunks \in Nat \ {0} /\ MaxUploadFaults \in Nat /\ MaxUploadRestarts \in Nat
  /\ "none" \notin Uploads

VARIABLES
  partFile, finalFile,  \* inode behind NAME.incomplete and NAME, or "none"
  content,              \* chunks in each inode, named by the upload that created it
  pending,              \* keys of PENDING_UPLOADS
  handle,               \* PendingUpload: inode, already_uploaded_bytes, unreported write error
  upPc, via, nextChunk, \* the attempts: where they are, their way in, their client's position
  deleter,              \* delete_storage_file: idle, or the path it is about to remove
  disturbed,            \* what happened that the API's contract does not foresee
  upFaults, upRestarts

upVars == <<partFile, finalFile, content, pending, handle, upPc, via, nextChunk, deleter,
            disturbed, upFaults, upRestarts>>

Whole == [i \in 1..Chunks |-> i]
NoHandle == [inode |-> "none", already |-> 0, err |-> FALSE]
UpEnded == {"new", "refused", "done", "failed", "lost"}
UpActive == {u \in Uploads : upPc[u] \notin UpEnded}
UpGoto(u, pc) == upPc' = [upPc EXCEPT ![u] = pc]
Disturb(what, cond) == disturbed' = IF cond THEN disturbed \cup {what} ELSE disturbed

UploadTypeOK ==
  /\ partFile \in {"none"} \cup Uploads /\ finalFile \in {"none"} \cup Uploads
  /\ pending \subseteq Uploads /\ Cardinality(pending) <= 1
  /\ \A u \in Uploads : handle[u].already \in Nat /\ nextChunk[u] \in Nat \ {0}
  /\ deleter \in {"idle", "part", "final"}

UploadInit ==
  /\ partFile = "none" /\ finalFile = "none"
  /\ content = [u \in Uploads |-> << >>]
  /\ pending = {} /\ handle = [u \in Uploads |-> NoHandle]
  /\ upPc = [u \in Uploads |-> "new"] /\ via \in [Uploads -> {"http", "channel"}]
  /\ nextChunk = [u \in Uploads |-> 1]
  /\ deleter = "idle" /\ disturbed = {} /\ upFaults = 0 /\ upRestarts = 0

\* start_storage_file_upload refuses a name that is already published.
StartUpload(u) ==
  /\ upPc[u] = "new"
  /\ UpGoto(u, IF finalFile = "none" THEN "measure" ELSE "refused")
  /\ Disturb("overlap", UpActive # {} \/ deleter # "idle")
  /\ UNCHANGED <<partFile, finalFile, content, pending, handle, via, nextChunk, deleter, upFaults, upRestarts>>

\* The length of the partial file is read before the file is opened ...
MeasurePart(u) ==
  /\ upPc[u] = "measure"
  /\ handle' = [handle EXCEPT ![u].already = IF partFile = "none" THEN 0 ELSE Len(content[partFile])]
  /\ UpGoto(u, "open")
  /\ UNCHANGED <<partFile, finalFile, content, pending, via, nextChunk, deleter, disturbed, upFaults, upRestarts>>

OpenPart(u) ==
  /\ upPc[u] = "open"
  /\ partFile' = IF partFile = "none" THEN u ELSE partFile
  /\ handle' = [handle EXCEPT ![u].inode = partFile']
  /\ UpGoto(u, "insert")
  /\ UNCHANGED <<finalFile, content, pending, via, nextChunk, deleter, disturbed, upFaults, upRestarts>>

\* ... and the entry replaces any abandoned one for the same file.  An HTTP client goes on
\* after alreadyUploadedBytes; the web client's loop starts at offset 0.
InsertUpload(u) ==
  /\ upPc[u] = "insert"
  /\ pending' = {u}
  /\ UpGoto(u, "sending")
  /\ nextChunk' = [nextChunk EXCEPT ![u] = IF via[u] = "http" THEN handle[u].already + 1 ELSE 1]
  /\ Disturb("fromStart", via[u] = "channel" /\ handle[u].already > 0)
  /\ UNCHANGED <<partFile, finalFile, content, handle, via, deleter, upFaults, upRestarts>>

\* append_upload_data: the write is handed to a background thread, whose error only
\* the next operation on the file reports.
AppendUpload(u, wrote) ==
  /\ handle' = [handle EXCEPT ![u].already = @ + 1, ![u].err = ~wrote]
  /\ content' = IF wrote THEN [content EXCEPT ![handle[u].inode] = Append(@, nextChunk[u])] ELSE content

\* The next chunk reaches the device.  The channel is closed when the count has reached the
\* size; an HTTP upload gives up on an error, a channel drops the chunk.
SendChunk(u) ==
  /\ upPc[u] = "sending" /\ nextChunk[u] <= Chunks
  /\ nextChunk' = [nextChunk EXCEPT ![u] = @ + 1]
  /\ IF u \in pending /\ ~handle[u].err
     THEN /\ \/ AppendUpload(u, TRUE) /\ UNCHANGED <<upFaults, disturbed>>
             \/ /\ upFaults < MaxUploadFaults /\ upFaults' = upFaults + 1
                /\ AppendUpload(u, FALSE) /\ Disturb("diskError", TRUE)
          /\ UpGoto(u, IF via[u] = "channel" /\ handle[u].already + 1 >= Chunks
                       THEN "complete" ELSE "sending")
     ELSE /\ handle' = [handle EXCEPT ![u].err = FALSE]
          /\ UpGoto(u, IF via[u] = "http" THEN "complete" ELSE "sending")
          /\ UNCHANGED <<content, upFaults, disturbed>>
  /\ UNCHANGED <<partFile, finalFile, pending, via, deleter, upRestarts>>

\* The request body ends, or the connection goes: both ways in complete the upload.
EndUpload(u) ==
  /\ upPc[u] = "sending"
  /\ UpGoto(u, "complete")
  /\ UNCHANGED <<partFile, finalFile, content, pending, handle, via, nextChunk, deleter, disturbed, upFaults, upRestarts>>

\* Mutant: a cut-off upload is published.
CompleteAnyway(u) ==
  /\ upPc[u] = "complete" /\ UpGoto(u, IF u \in pending THEN "rename" ELSE "failed")
  /\ pending' = pending \ {u}
  /\ UNCHANGED <<partFile, finalFile, content, handle, via, nextChunk, deleter, disturbed, upFaults, upRestarts>>

\* complete_upload takes the entry and closes the file (flush errors are ignored) ...
CompleteTake(u) ==
  /\ upPc[u] = "complete"
  /\ pending' = pending \ {u}
  /\ UpGoto(u, CASE u \notin pending -> "failed"
                 [] u \in pending /\ handle[u].already = Chunks -> "rename"
                 [] OTHER -> "done")
  /\ UNCHANGED <<partFile, finalFile, content, handle, via, nextChunk, deleter, disturbed, upFaults, upRestarts>>

\* ... and publishes the file, by its path, outside the lock.
CompleteRename(u) ==
  /\ upPc[u] = "rename"
  /\ IF partFile = "none"
     THEN UpGoto(u, "failed") /\ UNCHANGED <<partFile, finalFile>>
     ELSE finalFile' = partFile /\ partFile' = "none" /\ UpGoto(u, "done")
  /\ UNCHANGED <<content, pending, handle, via, nextChunk, deleter, disturbed, upFaults, upRestarts>>

\* delete_storage_file drops the handles of either path, then removes the file.
DeleteFile(path) ==
  /\ deleter = "idle" /\ deleter' = path
  /\ pending' = {}
  /\ Disturb("overlap", UpActive # {})
  /\ UNCHANGED <<partFile, finalFile, content, handle, upPc, via, nextChunk, upFaults, upRestarts>>

RemoveFile ==
  /\ deleter # "idle" /\ deleter' = "idle"
  /\ partFile' = IF deleter = "part" THEN "none" ELSE partFile
  /\ finalFile' = IF deleter = "final" THEN "none" ELSE finalFile
  /\ UNCHANGED <<content, pending, handle, upPc, via, nextChunk, disturbed, upFaults, upRestarts>>

\* The process dies: files stay, handles do not.
RestartUploads ==
  /\ upRestarts < MaxUploadRestarts /\ upRestarts' = upRestarts + 1
  /\ pending' = {} /\ deleter' = "idle"
  /\ upPc' = [u \in Uploads |-> IF upPc[u] \in UpEnded THEN upPc[u] ELSE "lost"]
  /\ UNCHANGED <<partFile, finalFile, content, handle, via, nextChunk, disturbed, upFaults>>

UploadStep(u) ==
  \/ StartUpload(u) \/ MeasurePart(u) \/ OpenPart(u) \/ InsertUpload(u) \/ SendChunk(u)
  \/ EndUpload(u) \/ CompleteTake(u) \/ CompleteRename(u)

UploadNext ==
  \/ \E u \in Uploads : UploadStep(u)
  \/ \E path \in {"part", "final"} : DeleteFile(path)
  \/ RemoveFile \/ RestartUploads

\* A published image is the whole source file, through lost connections, resumed uploads,
\* deletions and restarts, unless attempts overlapped, the disk failed or a client ignored
\* alreadyUploadedBytes.
PublishedIsWhole == (disturbed = {} /\ finalFile # "none") => content[finalFile] = Whole

\* Without a disk error or overlapping attempts a handle's count is the length of its file,
\* so that "count = size" means that the file has its size, whoever wrote the first part.
CountIsLength ==
  disturbed \cap {"overlap", "diskError"} = {}
    => \A u \in pending : handle[u].already = Len(content[handle[u].inode])

\* An attempt that is over has given its file handle back, whatever failed.
EndedReleasesHandle == \A u \in pending : upPc[u] \notin UpEnded

\* What a published image is, and the bookkeeping it rests on.
UploadInv == UploadTypeOK /\ CountIsLength /\ EndedReleasesHandle /\ PublishedIsWhole

=============================================================================
