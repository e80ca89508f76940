--------------------------- MODULE HistoryImport ---------------------------
(***************************************************************************)
(* One batch of the assisted import of exported WhatsApp histories         *)
(* (whatsapp-history-import.service.ts).  An operator opens a batch and    *)
(* either adds reviewed ZIP archives or one full Android backup, whose     *)
(* database and media ZIP arrive in blocks that can be resumed.  Jobs run  *)
(* behind the requests: the comparison of the backup with the history, the *)
(* validation of the media ZIP, the import itself and the attachment of    *)
(* the media.                                                              *)
(*                                                                         *)
(* The batch is ONE row whose manifest every writer replaces whole.        *)
(* Requests and most writes of the jobs are serialised by a lock that      *)
(* lives in the process; the import job and the clean-up of what expired   *)
(* write a manifest they read before without that lock, so an operation    *)
(* that a write of theirs can come into is two actions, the manifest it    *)
(* read and the one it writes back.  Most writes look first whether the    *)
(* batch was cancelled.  A lease in the row keeps two jobs of one batch    *)
(* apart.  The process may stop at any moment: locks, scheduled jobs and   *)
(* the list of batches cancelled here are lost, the lease of the dead      *)
(* process has to lapse, and a periodic task finds the interrupted jobs.   *)
(***************************************************************************)
EXTENDS Naturals, Sequences, FiniteSets

CONSTANTS
  Request,      \* requests that confirm the database upload
  Blocks,       \* blocks of each uploaded file
  Chunks,       \* chunks the new messages of the backup are applied in
  MaxCrashes    \* bound on the stops of the process

ImportAssumption ==
  /\ Blocks \in Nat \ {0}
  /\ Chunks \in Nat \ {0}
  /\ MaxCrashes \in Nat

VARIABLES
  row,          \* the manifest of the batch, NoRow before it is opened
  up,           \* upload directories: the file and the upload.json of each
  files,        \* what the batch directory holds besides the uploads
  incorporated, \* chunks whose messages are in the history
  lock,         \* the operation that holds the lock between two of its steps
  seen,         \* the manifest and the upload that operation read
  stale,        \* the overdue manifest the clean-up read
  confirming,   \* where each confirmation of the database upload is
  job,          \* where each kind of job is
  held,         \* the manifest a job read and will write back
  chunk,        \* chunks the running import has applied
  lease,        \* "free", "mine" or "dead", the lease of a stopped process
  cancelledHere,\* this process cancelled the batch
  overdue,      \* expiresAt has passed
  crashes

vars == <<row, up, files, incorporated, lock, seen, stale, confirming, job, held,
          chunk, lease, cancelledHere, overdue, crashes>>

\* The lock, and what its holder read.
holding == <<lock, seen>>

Kind == {"database", "media"}
Job == {"preview", "validation", "import", "media"}
NoRow == [status |-> "none"]

\* An upload directory before createAndroid...Upload or after its removal.
NoUpload == [present |-> FALSE, content |-> <<>>, received |-> 0,
             status |-> "none"]

Draft == [status |-> "draft", archive |-> "none", android |-> FALSE,
          references |-> FALSE, comparison |-> "none", pending |-> FALSE,
          cutoff |-> FALSE, database |-> "none", media |-> "none", zip |-> FALSE]

\* Nothing was read by an operation under the lock.
Unseen == [manifest |-> NoRow, upload |-> NoUpload]

Init ==
  /\ row = NoRow
  /\ up = [k \in Kind |-> NoUpload]
  /\ files = [database |-> FALSE, references |-> FALSE]
  /\ incorporated = {}
  /\ lock = "free"
  /\ seen = Unseen
  /\ stale = NoRow
  /\ confirming = [r \in Request |-> "idle"]
  /\ job = [j \in Job |-> "idle"]
  /\ held = [j \in Job |-> NoRow]
  /\ chunk = 0
  /\ lease = "free"
  /\ cancelledHere = FALSE
  /\ overdue = FALSE
  /\ crashes = 0

---------------------------------------------------------------------------
(* The row. *)

\* The phase of a draft.  An open upload hides a comparison under way.
DraftPhase(r) ==
  CASE r.database = "uploading" -> "uploading"
    [] r.database = "processing" -> "validating"
    [] r.media = "uploading" -> "uploading"
    [] r.media = "validating" -> "validating"
    [] r.comparison = "processing" -> "processing"
    [] r.pending -> "awaiting-divergence-resolution"
    [] r.android -> "ready"
    [] OTHER -> "draft"

\* The status column derived from the manifest, which the recovery and the
\* clean-up select by.
DurableStatus(r) ==
  CASE r.status = "draft" -> DraftPhase(r)
    [] r.status = "applied" ->
         IF r.media \in {"validating", "processing"} THEN "processing-media"
         ELSE "completed"
    [] OTHER -> r.status

Finished == {"completed", "cancelled", "expired"}

\* readManifest expires an overdue draft instead of returning it.
Lapsed == overdue /\ row.status = "draft"

Readable == row # NoRow /\ ~Lapsed

\* writeManifest refuses every manifest but the cancelled one once the batch
\* is cancelled, in the row or in this process.
MayWrite == ~cancelledHere /\ row.status # "cancelled"

Saved(r) == IF MayWrite THEN r ELSE row

\* The jobs a manifest asks for (resumeAndroidPreview, -Import,
\* -MediaValidationJob and -MediaJob).
Wanted(r) ==
  (IF r.status = "draft" /\ r.comparison = "processing" THEN {"preview"} ELSE {})
    \cup (IF r.status = "applying" /\ r.cutoff THEN {"import"} ELSE {})
    \cup (IF r.status \in {"draft", "applied"} /\ r.media = "validating" /\ r.zip
          THEN {"validation"} ELSE {})
    \cup (IF r.status = "applied" /\ r.media = "processing" /\ r.zip
          THEN {"media"} ELSE {})

\* A kind of job is scheduled once: its key stays in the process until the
\* job has ended.
Scheduled(js, r) ==
  [j \in Job |-> IF js[j] = "idle" /\ r # NoRow /\ j \in Wanted(r)
                 THEN "scheduled" ELSE js[j]]

Resume(r) == job' = Scheduled(job, r)

\* withBatchLock, and the manifest as the locked operation reads it.
Locked(statuses) == lock = "free" /\ Readable /\ row.status \in statuses

\* The operation keeps the lock, and what it read, for its next step.
Holds(operation, upload) ==
  /\ lock' = operation
  /\ seen' = [manifest |-> row, upload |-> upload]

Releases == lock' = "free" /\ seen' = Unseen

---------------------------------------------------------------------------
(* Opening a batch, ZIP archives and their review. *)

\* create: a new batch, when the actor has no other one to recover.
Create ==
  /\ row = NoRow
  /\ row' = Draft
  /\ UNCHANGED <<up, files, incorporated, holding, stale, confirming, job,
                 held, chunk, lease, cancelledHere, overdue, crashes>>

\* addArchive: a backup already received is returned as it is.
AddArchive ==
  /\ Locked({"draft"})
  /\ ~row.android
  /\ row.archive = "none"
  /\ row' = Saved([row EXCEPT !.archive = "unmapped"])
  /\ UNCHANGED <<up, files, incorporated, holding, stale, confirming, job,
                 held, chunk, lease, cancelledHere, overdue, crashes>>

\* updateMapping: phone, sender, department and state are reviewed.
UpdateMapping ==
  /\ Locked({"draft"})
  /\ row.archive = "unmapped"
  /\ row' = Saved([row EXCEPT !.archive = "mapped"])
  /\ UNCHANGED <<up, files, incorporated, holding, stale, confirming, job,
                 held, chunk, lease, cancelledHere, overdue, crashes>>

\* apply without an Android backup, in the request itself: the archives not
\* yet imported go through the workbook importer and their media is kept ...
ApplyArchives ==
  /\ lock = "free"
  /\ Readable
  /\ ~row.android
  /\ row.archive = "mapped"
  /\ row.status # "cancelled"
  /\ incorporated' = 1 .. Chunks
  /\ Holds("archives", NoUpload)
  /\ UNCHANGED <<row, up, files, stale, confirming, job, held, chunk, lease,
                 cancelledHere, overdue, crashes>>

\* ... and then the batch is marked.
ArchivesApplied ==
  /\ lock = "archives"
  /\ row' = Saved([seen.manifest EXCEPT !.status = "applied"])
  /\ Releases
  /\ UNCHANGED <<up, files, incorporated, stale, confirming, job, held,
                 chunk, lease, cancelledHere, overdue, crashes>>

---------------------------------------------------------------------------
(* Uploads in blocks. *)

Opened == [present |-> TRUE, content |-> <<>>, received |-> 0,
           status |-> "uploading"]

\* createAndroidDatabaseUpload, the same file: the session is resumed.
ResumeDatabaseUpload ==
  /\ Locked({"draft"})
  /\ ~row.android /\ row.archive = "none"
  /\ row.database = "failed"
  /\ up["database"].present
  /\ up["database"].status = "failed"
  /\ up' = [up EXCEPT !["database"].status = "uploading"]
  /\ row' = Saved([row EXCEPT !.database = "uploading"])
  /\ UNCHANGED <<files, incorporated, holding, stale, confirming, job, held,
                 chunk, lease, cancelledHere, overdue, crashes>>

\* Confirmations whose upload directory was removed under them.
Orphaned ==
  [r \in Request |-> IF confirming[r] = "prepared" THEN "orphaned"
                     ELSE confirming[r]]

\* createAndroidDatabaseUpload, another file: a new session replaces one that
\* is not being sent or processed.
CreateDatabaseUpload ==
  /\ Locked({"draft"})
  /\ ~row.android /\ row.archive = "none"
  /\ row.database \notin {"uploading", "processing"}
  /\ up' = [up EXCEPT !["database"] = Opened]
  /\ row' = Saved([row EXCEPT !.database = "uploading"])
  /\ confirming' = Orphaned
  /\ UNCHANGED <<files, incorporated, holding, stale, job, held, chunk,
                 lease, cancelledHere, overdue, crashes>>

\* createAndroidMediaUpload, the same file after a failure: what was received
\* is kept when the file had not arrived whole.
ResumeMediaUpload ==
  /\ Locked({"draft", "failed", "applied"})
  /\ row.android
  /\ row.media = "failed" /\ row.zip
  /\ up["media"].present
  /\ up["media"].received < Blocks
  /\ up' = [up EXCEPT !["media"].status = "uploading"]
  /\ row' = Saved([row EXCEPT !.media = "uploading"])
  /\ UNCHANGED <<files, incorporated, holding, stale, confirming, job, held,
                 chunk, lease, cancelledHere, overdue, crashes>>

\* createAndroidMediaUpload, a new session.
CreateMediaUpload ==
  /\ Locked({"draft", "failed", "applied"})
  /\ row.android
  /\ row.media \notin {"uploading", "processing"}
  /\ up' = [up EXCEPT !["media"] = Opened]
  /\ row' = Saved([row EXCEPT !.media = "uploading", !.zip = TRUE])
  /\ UNCHANGED <<files, incorporated, holding, stale, confirming, job, held,
                 chunk, lease, cancelledHere, overdue, crashes>>

\* The batch takes blocks of this file.
TakesBlocks(k) ==
  IF k = "database"
  THEN Locked({"draft"}) /\ ~row.android /\ row.database # "none"
  ELSE Locked({"draft", "failed", "applied"}) /\ row.android

MayAppend(k, b) ==
  /\ up[k].status = "uploading"
  /\ Len(up[k].content) = up[k].received
  /\ b = up[k].received + 1
  /\ b <= Blocks

\* addAndroid...UploadChunk: the bytes reach the file ...
AppendBlock(k) ==
  /\ TakesBlocks(k)
  /\ up[k].present
  /\ \E b \in 1 .. Blocks :
       /\ MayAppend(k, b)
       /\ up' = [up EXCEPT ![k].content = Append(@, b)]
  /\ Holds(k, up[k])
  /\ UNCHANGED <<row, files, incorporated, stale, confirming, job, held,
                 chunk, lease, cancelledHere, overdue, crashes>>

\* ... and then upload.json and the manifest, as they were read, count them.
ConfirmBlock(k) ==
  /\ lock = k
  /\ up' = [up EXCEPT ![k] = [seen.upload EXCEPT !.content = up[k].content,
                                               !.received = @ + 1]]
  /\ row' = Saved(seen.manifest)
  /\ Releases
  /\ UNCHANGED <<files, incorporated, stale, confirming, job, held,
                 chunk, lease, cancelledHere, overdue, crashes>>

---------------------------------------------------------------------------
(* Confirmation of the database upload. *)

\* completeAndroidDatabaseUpload, first part: every byte is there and the
\* checksum matches; the status of the session is not looked at.
PrepareBackup(r) ==
  /\ confirming[r] = "idle"
  /\ Locked({"draft"})
  /\ ~row.android
  /\ row.database # "none"
  /\ up["database"].present
  /\ up["database"].received = Blocks
  /\ Len(up["database"].content) = Blocks
  /\ up' = [up EXCEPT !["database"].status = "processing"]
  /\ row' = Saved([row EXCEPT !.database = "processing"])
  /\ confirming' = [confirming EXCEPT ![r] = "prepared"]
  /\ UNCHANGED <<files, incorporated, holding, stale, job, held, chunk,
                 lease, cancelledHere, overdue, crashes>>

\* addAndroidBackup: the uploaded file is decrypted and inspected, the
\* comparison scheduled and the uploaded copy removed.  Whether the batch
\* already has a backup is not asked.
AcceptBackup(r) ==
  /\ confirming[r] = "prepared"
  /\ Locked({"draft"})
  /\ row.archive = "none"
  /\ up["database"].present /\ up["database"].content # <<>>
  /\ MayWrite
  /\ \E references \in BOOLEAN :
       LET accepted == [row EXCEPT !.android = TRUE, !.references = references,
                                   !.comparison = "processing",
                                   !.pending = FALSE, !.cutoff = FALSE,
                                   !.media = "none", !.zip = FALSE]
       IN  /\ row' = accepted
           /\ Resume(accepted)
  /\ files' = [files EXCEPT !.database = TRUE]
  /\ up' = [up EXCEPT !["database"].content = <<>>]
  /\ confirming' = [confirming EXCEPT ![r] = "accepted"]
  /\ UNCHANGED <<incorporated, holding, stale, held, chunk, lease,
                 cancelledHere, overdue, crashes>>

\* addAndroidBackup threw: the key is wrong, the file is damaged or gone, the
\* batch has moved on.  The decrypted database is removed whoever wrote it.
RefuseBackup(r) ==
  /\ confirming[r] \in {"prepared", "orphaned"}
  /\ lock = "free"
  /\ files' = [files EXCEPT !.database = FALSE]
  /\ confirming' = [confirming EXCEPT ![r] =
                     IF @ = "prepared" THEN "refused" ELSE "idle"]
  /\ UNCHANGED <<row, up, incorporated, holding, stale, job, held, chunk,
                 lease, cancelledHere, overdue, crashes>>

\* completeAndroidDatabaseUpload, last part, of an accepted backup ...
BackupCompleted(r) ==
  /\ confirming[r] = "accepted"
  /\ lock = "free" /\ Readable
  /\ row' = IF row.database = "none" THEN row
            ELSE Saved([row EXCEPT !.database = "completed"])
  /\ up' = [up EXCEPT !["database"] = NoUpload]
  /\ confirming' = [confirming EXCEPT ![r] = "idle"]
  /\ UNCHANGED <<files, incorporated, holding, stale, job, held, chunk,
                 lease, cancelledHere, overdue, crashes>>

\* ... and of a refused one, whose session can be confirmed again.
BackupFailed(r) ==
  /\ confirming[r] = "refused"
  /\ lock = "free" /\ Readable
  /\ IF row.database = "none"
     THEN UNCHANGED <<row, up>>
     ELSE /\ row' = Saved([row EXCEPT !.database = "failed"])
          /\ up' = [up EXCEPT !["database"] =
                      [@ EXCEPT !.present = TRUE, !.status = "failed"]]
  /\ confirming' = [confirming EXCEPT ![r] = "idle"]
  /\ UNCHANGED <<files, incorporated, holding, stale, job, held, chunk,
                 lease, cancelledHere, overdue, crashes>>

---------------------------------------------------------------------------
(* The media ZIP, the divergences and the decision to apply. *)

\* completeAndroidMediaUpload: a ZIP received whole is handed to validation.
CompleteMediaUpload ==
  /\ Locked({"draft", "failed", "applied"})
  /\ row.android
  /\ up["media"].present
  /\ up["media"].received = Blocks
  /\ up["media"].status \notin {"completed", "ready", "validating"}
  /\ up' = [up EXCEPT !["media"].status = "validating"]
  /\ LET completed == [row EXCEPT !.media = "validating", !.zip = TRUE]
     IN  /\ row' = Saved(completed)
         /\ Resume(Saved(completed))
  /\ UNCHANGED <<files, incorporated, holding, stale, confirming, held,
                 chunk, lease, cancelledHere, overdue, crashes>>

\* addAndroidMediaArchive: a ZIP in one request, attached at once.
AddMediaArchive ==
  /\ Locked({"applied"})
  /\ row.android
  /\ row' = Saved([row EXCEPT !.media = "completed", !.zip = FALSE])
  /\ UNCHANGED <<up, files, incorporated, holding, stale, confirming, job,
                 held, chunk, lease, cancelledHere, overdue, crashes>>

\* resolveAndroidDivergence: the last divergent message is decided.
ResolveDivergences ==
  /\ Locked({"draft"})
  /\ row.android /\ row.comparison = "ready" /\ row.pending
  /\ row' = Saved([row EXCEPT !.pending = FALSE])
  /\ UNCHANGED <<up, files, incorporated, holding, stale, confirming, job,
                 held, chunk, lease, cancelledHere, overdue, crashes>>

\* apply with an Android backup: compared, every divergence decided, the
\* media ZIP ready when a message refers to media.  A failed batch is applied
\* again the same way.
Apply ==
  /\ lock = "free" /\ Readable
  /\ row.status \notin {"applied", "cancelled"}
  /\ row.android
  /\ row.comparison = "ready"
  /\ ~row.pending
  /\ row.references => row.media = "ready"
  /\ MayWrite
  /\ LET applying == [row EXCEPT !.cutoff = TRUE, !.status = "applying"]
     IN  row' = applying /\ Resume(applying)
  /\ UNCHANGED <<up, files, incorporated, holding, stale, confirming, held,
                 chunk, lease, cancelledHere, overdue, crashes>>

---------------------------------------------------------------------------
(* Jobs: runClaimedJob. *)

\* claimBatch: nobody holds the batch, and it is not over.
Claimable == lease = "free" /\ DurableStatus(row) \notin Finished

\* The claim, and the manifest read whose attempts are counted.
Claim(j) ==
  /\ job[j] = "scheduled"
  /\ Readable
  /\ IF Claimable
     THEN /\ lease' = "mine"
          /\ job' = [job EXCEPT ![j] = "claimed"]
          /\ held' = [held EXCEPT ![j] = row]
     ELSE /\ job' = [job EXCEPT ![j] = "idle"]
          /\ UNCHANGED <<lease, held>>
  /\ UNCHANGED <<row, up, files, incorporated, holding, stale, confirming,
                 chunk, cancelledHere, overdue, crashes>>

\* writeManifest of the attempt, without the lock: the look for a
\* cancellation ...
CheckAttempt(j) ==
  /\ job[j] = "claimed"
  /\ job' = [job EXCEPT ![j] = IF MayWrite THEN "checked" ELSE "ended"]
  /\ UNCHANGED <<row, up, files, incorporated, holding, stale, confirming,
                 held, chunk, lease, cancelledHere, overdue, crashes>>

\* ... and the write.
WriteAttempt(j) ==
  /\ job[j] = "checked"
  /\ row' = held[j]
  /\ job' = [job EXCEPT ![j] = "running"]
  /\ chunk' = IF j = "import" THEN 0 ELSE chunk
  /\ UNCHANGED <<up, files, incorporated, holding, stale, confirming, held,
                 lease, cancelledHere, overdue, crashes>>

\* runClaimedJob, finally: the lease is returned and whatever the manifest
\* asks for now is scheduled; this kind of job is still in the process' list.
EndJob(j) ==
  /\ job[j] = "ended"
  /\ lease' = IF lease = "mine" THEN "free" ELSE lease
  /\ job' = [Scheduled(job, IF Readable THEN row ELSE NoRow) EXCEPT ![j] = "idle"]
  /\ held' = [held EXCEPT ![j] = NoRow]
  /\ UNCHANGED <<row, up, files, incorporated, holding, stale, confirming,
                 chunk, cancelledHere, overdue, crashes>>

Ends(j) == job' = [job EXCEPT ![j] = "ended"]

\* What the comparison leaves: a message with the identity of one in the
\* history and another content is divergent and waits for a decision.
Compared(divergent) ==
  [row EXCEPT !.comparison = "ready", !.pending = divergent]

\* runAndroidPreview: the backup is compared and what is new, divergent and
\* referenced is written next to it.
PreviewReady ==
  /\ job["preview"] = "running"
  /\ lock = "free" /\ Readable
  /\ files.database
  /\ files' = [files EXCEPT !.references = TRUE]
  /\ \E divergent \in BOOLEAN :
       row' = IF row.android /\ row.status = "draft"
              THEN Saved(Compared(divergent))
              ELSE row
  /\ Ends("preview")
  /\ UNCHANGED <<up, incorporated, holding, stale, confirming, held, chunk,
                 lease, cancelledHere, overdue, crashes>>

\* runAndroidPreview, catch, and its return when there is nothing to compare.
PreviewFails ==
  /\ job["preview"] = "running"
  /\ lock = "free" /\ Readable
  /\ row' = IF row.android /\ row.status = "draft"
            THEN Saved([row EXCEPT !.comparison = "failed", !.pending = FALSE])
            ELSE row
  /\ Ends("preview")
  /\ UNCHANGED <<up, files, incorporated, holding, stale, confirming, held,
                 chunk, lease, cancelledHere, overdue, crashes>>

\* runAndroidMediaValidationJob: nothing to do for this manifest or upload.
ValidationSkips ==
  /\ job["validation"] = "running"
  /\ Readable
  /\ \/ row.status \notin {"draft", "applied"}
     \/ row.media # "validating"
     \/ up["media"].present /\ up["media"].status # "validating"
  /\ Ends("validation")
  /\ UNCHANGED <<row, up, files, incorporated, holding, stale, confirming,
                 held, chunk, lease, cancelledHere, overdue, crashes>>

\* What a sound ZIP waits for next.
AfterValidation(r) == IF r.status = "applied" THEN "processing" ELSE "ready"

\* The ZIP is sound: upload.json says so first ...
ValidationPasses ==
  /\ job["validation"] = "running"
  /\ lock = "free" /\ Readable
  /\ row.status \in {"draft", "applied"} /\ row.media = "validating"
  /\ up["media"].present /\ up["media"].status = "validating"
  /\ row.status = "draft" => files.references
  /\ up' = [up EXCEPT !["media"].status = AfterValidation(row)]
  /\ Holds("validated", NoUpload)
  /\ UNCHANGED <<row, files, incorporated, stale, confirming, job, held,
                 chunk, lease, cancelledHere, overdue, crashes>>

\* ... and the manifest next.
ValidationRecorded ==
  /\ lock = "validated"
  /\ LET passed == [seen.manifest EXCEPT !.media = AfterValidation(seen.manifest)]
     IN  /\ row' = Saved(passed)
         /\ job' = [Scheduled(job, Saved(passed)) EXCEPT !["validation"] = "ended"]
  /\ Releases
  /\ UNCHANGED <<up, files, incorporated, stale, confirming, held, chunk,
                 lease, cancelledHere, overdue, crashes>>

\* A damaged ZIP, or no comparison to prepare it against.
ValidationFails ==
  /\ job["validation"] = "running"
  /\ lock = "free" /\ Readable
  /\ up' = [up EXCEPT !["media"].status = IF @ = "none" THEN @ ELSE "failed"]
  /\ row' = IF row.zip THEN Saved([row EXCEPT !.media = "failed"]) ELSE row
  /\ Ends("validation")
  /\ UNCHANGED <<files, incorporated, holding, stale, confirming, held,
                 chunk, lease, cancelledHere, overdue, crashes>>

---------------------------------------------------------------------------
(* The import job. *)

\* flush: one chunk goes through the workbook importer, whose deterministic
\* references make a repetition harmless; the progress is then written, which
\* starts with the look for a cancellation.
ImportChunk ==
  /\ job["import"] = "running"
  /\ files.database
  /\ chunk < Chunks
  /\ incorporated' = incorporated \cup {chunk + 1}
  /\ chunk' = chunk + 1
  /\ job' = [job EXCEPT !["import"] = IF MayWrite THEN "saving" ELSE "failing"]
  /\ UNCHANGED <<row, up, files, holding, stale, confirming, held, lease,
                 cancelledHere, overdue, crashes>>

\* The progress reaches the row, with the manifest the job has held since it
\* began.
SaveProgress ==
  /\ job["import"] = "saving"
  /\ row' = held["import"]
  /\ job' = [job EXCEPT !["import"] = "running"]
  /\ UNCHANGED <<up, files, incorporated, holding, stale, confirming, held,
                 chunk, lease, cancelledHere, overdue, crashes>>

\* Mutant: the last, incomplete chunk is not flushed.
BadAllApplied == chunk + 1 >= Chunks

AllApplied == chunk = Chunks

\* The ZIP becomes the media job's: upload.json first ...
StageMedia ==
  /\ job["import"] = "running"
  /\ AllApplied
  /\ held["import"].media = "ready"
  /\ up["media"].present /\ up["media"].status = "ready"
  /\ up' = [up EXCEPT !["media"].status = "processing"]
  /\ held' = [held EXCEPT !["import"].media = "processing"]
  /\ UNCHANGED <<row, files, incorporated, holding, stale, confirming, job,
                 chunk, lease, cancelledHere, overdue, crashes>>

\* ... and then the batch is to be marked: the look for a cancellation ...
ImportEnds ==
  /\ job["import"] = "running"
  /\ AllApplied
  /\ held["import"].media # "ready"
  /\ IF MayWrite
     THEN /\ held' = [held EXCEPT !["import"].status = "applied"]
          /\ job' = [job EXCEPT !["import"] = "finishing"]
     ELSE job' = [job EXCEPT !["import"] = "failing"] /\ UNCHANGED held
  /\ UNCHANGED <<row, up, files, incorporated, holding, stale, confirming, chunk,
                 lease, cancelledHere, overdue, crashes>>

\* ... and the write.  The lease is extended after it, which may throw.
ImportApplied ==
  /\ job["import"] = "finishing"
  /\ row' = held["import"]
  /\ \/ job' = [Scheduled(job, held["import"]) EXCEPT !["import"] = "ended"]
     \/ job' = [job EXCEPT !["import"] = "failing"]
  /\ UNCHANGED <<up, files, incorporated, holding, stale, confirming, held,
                 chunk, lease, cancelledHere, overdue, crashes>>

\* runAndroidImport, catch: a chunk is refused, the database or the ZIP is not
\* there, the batch was cancelled, a write threw.  The row is read again ...
ImportFails ==
  /\ job["import"] \in {"running", "saving", "finishing", "failing"}
  /\ Readable
  /\ IF MayWrite
     THEN /\ held' = [held EXCEPT !["import"] = [row EXCEPT !.status = "failed"]]
          /\ job' = [job EXCEPT !["import"] = "marking"]
     ELSE Ends("import") /\ UNCHANGED held
  /\ UNCHANGED <<row, up, files, incorporated, holding, stale, confirming, chunk,
                 lease, cancelledHere, overdue, crashes>>

\* ... and marked.
FailureRecorded ==
  /\ job["import"] = "marking"
  /\ row' = held["import"]
  /\ Ends("import")
  /\ UNCHANGED <<up, files, incorporated, holding, stale, confirming, held,
                 chunk, lease, cancelledHere, overdue, crashes>>

---------------------------------------------------------------------------
(* The media job. *)

\* runAndroidMediaJob: every referenced file found in the ZIP is attached and
\* the ZIP removed.
MediaAttached ==
  /\ job["media"] = "running"
  /\ lock = "free" /\ Readable
  /\ up["media"].present
  /\ row' = IF row.zip
            THEN Saved([row EXCEPT !.media = "completed", !.zip = FALSE])
            ELSE row
  /\ up' = [up EXCEPT !["media"] = NoUpload]
  /\ Ends("media")
  /\ UNCHANGED <<files, incorporated, holding, stale, confirming, held,
                 chunk, lease, cancelledHere, overdue, crashes>>

MediaFails ==
  /\ job["media"] = "running"
  /\ lock = "free" /\ Readable
  /\ up' = [up EXCEPT !["media"].status = IF @ = "none" THEN @ ELSE "failed"]
  /\ row' = IF row.zip THEN Saved([row EXCEPT !.media = "failed"]) ELSE row
  /\ Ends("media")
  /\ UNCHANGED <<files, incorporated, holding, stale, confirming, held,
                 chunk, lease, cancelledHere, overdue, crashes>>

---------------------------------------------------------------------------
(* Cancellation, expiry, recovery and stops. *)

Emptied ==
  /\ up' = [k \in Kind |-> NoUpload]
  /\ files' = [database |-> FALSE, references |-> FALSE]

Cancellable == row.status \notin {"applied", "cancelled"}

Forgetting(k) == IF k = "database" THEN "forget database" ELSE "forget media"

\* A manifest without the upload of this file.
Without(k, r) ==
  CASE k = "database" -> [r EXCEPT !.database = "none"]
    [] k = "media" /\ r.zip -> [r EXCEPT !.media = "failed", !.zip = FALSE]
    [] OTHER -> r

\* cancel: refused of what is read as applied; from here on this process
\* refuses to write the batch ...
Cancel ==
  /\ lock = "free" /\ Readable
  /\ Cancellable
  /\ cancelledHere' = TRUE
  /\ Holds("cancel", NoUpload)
  /\ UNCHANGED <<row, up, files, incorporated, stale, confirming, job, held,
                 chunk, lease, overdue, crashes>>

\* ... and then the manifest that was read is written as cancelled, whatever
\* it has become; the lease and the directory go.
Cancelled ==
  /\ lock = "cancel"
  /\ row' = [seen.manifest EXCEPT !.status = "cancelled"]
  /\ lease' = "free"
  /\ Emptied
  /\ Releases
  /\ UNCHANGED <<incorporated, stale, confirming, job, held, chunk,
                 cancelledHere, overdue, crashes>>

\* cancelUpload: whatever the batch is doing, one upload is to be forgotten ...
CancelUpload(k) ==
  /\ lock = "free" /\ Readable
  /\ up[k].present /\ up[k].status # "completed"
  /\ Holds(Forgetting(k), NoUpload)
  /\ UNCHANGED <<row, up, files, incorporated, stale, confirming, job, held,
                 chunk, lease, cancelledHere, overdue, crashes>>

\* ... in the manifest that was read, which is written back, and on the disk.
UploadCancelled(k) ==
  /\ lock = Forgetting(k)
  /\ IF MayWrite
     THEN /\ row' = Without(k, seen.manifest)
          /\ up' = [up EXCEPT ![k] = NoUpload]
          /\ confirming' = IF k = "database" THEN Orphaned ELSE confirming
     ELSE UNCHANGED <<row, up, confirming>>
  /\ Releases
  /\ UNCHANGED <<files, incorporated, stale, job, held, chunk, lease,
                 cancelledHere, overdue, crashes>>

PassDeadline ==
  /\ row # NoRow
  /\ ~overdue
  /\ overdue' = TRUE
  /\ UNCHANGED <<row, up, files, incorporated, holding, stale, confirming,
                 job, held, chunk, lease, cancelledHere, crashes>>

\* readManifest of an overdue draft, and cleanupExpiredImports of a batch
\* that nothing is being decided about or applied from: what was read ...
FindExpired ==
  /\ stale = NoRow
  /\ overdue /\ row # NoRow
  /\ \/ row.status = "draft"
     \/ DurableStatus(row) \in {"draft", "uploading", "validating", "ready",
                                "failed"}
  /\ stale' = row
  /\ UNCHANGED <<row, up, files, incorporated, holding, confirming, job, held,
                 chunk, lease, cancelledHere, overdue, crashes>>

\* ... is written as expired, without the lock and without a look at the row.
Expire ==
  /\ stale # NoRow
  /\ row' = [stale EXCEPT !.status = "expired"]
  /\ stale' = NoRow
  /\ Emptied
  /\ UNCHANGED <<incorporated, holding, confirming, job, held, chunk, lease,
                 cancelledHere, overdue, crashes>>

\* recoverDurableJobs: the jobs of a batch nobody works on.
Recoverable(r) ==
  DurableStatus(r) \in {"validating", "processing", "applying",
                        "processing-media"}

Recover ==
  /\ row # NoRow
  /\ Recoverable(row)
  /\ lease = "free"
  /\ Resume(row)
  /\ UNCHANGED <<row, up, files, incorporated, holding, stale, confirming,
                 held, chunk, lease, cancelledHere, overdue, crashes>>

\* The lease of a stopped process runs out.
LeaseLapses ==
  /\ lease = "dead"
  /\ lease' = "free"
  /\ UNCHANGED <<row, up, files, incorporated, holding, stale, confirming,
                 job, held, chunk, cancelledHere, overdue, crashes>>

\* The process stops between any two writes and starts again.
Crash ==
  /\ crashes < MaxCrashes
  /\ row # NoRow
  /\ crashes' = crashes + 1
  /\ Releases
  /\ stale' = NoRow
  /\ confirming' = [r \in Request |-> "idle"]
  /\ job' = [j \in Job |-> "idle"]
  /\ held' = [j \in Job |-> NoRow]
  /\ chunk' = 0
  /\ lease' = IF lease = "mine" THEN "dead" ELSE lease
  /\ cancelledHere' = FALSE
  /\ UNCHANGED <<row, up, files, incorporated, overdue>>

---------------------------------------------------------------------------

JobStep ==
  \/ \E j \in Job : Claim(j) \/ CheckAttempt(j) \/ WriteAttempt(j) \/ EndJob(j)
  \/ PreviewReady \/ PreviewFails
  \/ ValidationSkips \/ ValidationPasses \/ ValidationRecorded \/ ValidationFails
  \/ ImportChunk \/ SaveProgress \/ StageMedia
  \/ ImportEnds \/ ImportApplied \/ ImportFails \/ FailureRecorded
  \/ MediaAttached \/ MediaFails

Panel ==
  \/ Create \/ AddArchive \/ UpdateMapping \/ ApplyArchives
  \/ ResumeDatabaseUpload \/ CreateDatabaseUpload
  \/ ResumeMediaUpload \/ CreateMediaUpload \/ CompleteMediaUpload
  \/ AddMediaArchive \/ ResolveDivergences \/ Apply \/ Cancel
  \/ \E k \in Kind : AppendBlock(k) \/ CancelUpload(k)
  \/ \E r \in Request : PrepareBackup(r)

Server ==
  \/ ArchivesApplied \/ Cancelled
  \/ \E k \in Kind : ConfirmBlock(k) \/ UploadCancelled(k)
  \/ \E r \in Request : AcceptBackup(r) \/ RefuseBackup(r)
                          \/ BackupCompleted(r) \/ BackupFailed(r)

Next ==
  \/ Panel \/ Server \/ JobStep
  \/ Recover \/ LeaseLapses \/ FindExpired \/ Expire \/ PassDeadline \/ Crash

Spec == Init /\ [][Next]_vars

---------------------------------------------------------------------------
(* Properties. *)

\* A file that was received whole is the file that was sent: every block once
\* and in order, whatever was repeated and wherever the process stopped
\* (addAndroidDatabaseUploadChunk, addAndroidMediaUploadChunk).
UploadIsTheFile ==
  \A k \in Kind :
    up[k].received = Blocks /\ up[k].content # <<>>
      => up[k].content = [b \in 1 .. Blocks |-> b]

\* A batch that says it was applied has every new message of its source in the
\* history, however often the import was interrupted and taken up again
\* (runAndroidImport).
AppliedIsComplete == row.status = "applied" => incorporated = 1 .. Chunks

\* A completed batch is not cancelled.  The message of cancel says it ("Uma
\* importação concluída não pode ser cancelada."); the job's last write and the
\* cancellation hold no common lock.
CompletedIsNotCancelled ==
  [][row.status = "applied" => row'.status # "cancelled"]_vars

\* A cancelled batch is not taken up again.  The test of the service says it
\* ("cancela o lote e remove os arquivos temporários sem permitir retomada");
\* a job that looked before the cancellation writes after it.
CancelledStays ==
  [][row.status = "cancelled" => row'.status \in {"cancelled", "expired"}]_vars

\* Selecting the same file again goes on from the last byte stored: an open
\* session takes its next block.  docs/whatsapp-conversation-import.md says it
\* ("selecionar novamente o mesmo arquivo continua do último byte armazenado");
\* the process may stop between the bytes and the count of them.
ResumeContinues ==
  \A k \in Kind :
    up[k].present /\ up[k].status = "uploading" /\ lock # k
      => Len(up[k].content) = up[k].received

===========================================================================
