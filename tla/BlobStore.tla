------------------------------- MODULE BlobStore -------------------------------
(***************************************************************************)
(* The files behind file submissions (file_submission_service.py): an      *)
(* upload streams into a temporary file, renames it to the blob of its     *)
(* revision and inserts its rows, while the extraction workers sweep the   *)
(* directory for files that nothing refers to (file_extraction_worker.py). *)
(* The directory knows no transaction, and the database no files.          *)
(*                                                                         *)
(* The rows are committed only when the route closes its connection: the   *)
(* statement that authenticated the request has begun a transaction, in    *)
(* which submit's own is a savepoint.                                      *)
(***************************************************************************)
CONSTANTS
  Upload,   \* requests to submit a file, each with a revision id of its own
  Sweeper   \* extraction workers

VARIABLES
  files,     \* the directory: the age of each file, as far as it matters
  upload,    \* where each request is
  revision,  \* the uploads with a committed source_revisions row
  sweep      \* where each worker is in sweep_orphans

blobVars == <<files, upload, revision, sweep>>

Temporary(u) == [kind |-> "temporary", upload |-> u]
Blob(u) == [kind |-> "blob", upload |-> u]
File == [kind : {"temporary", "blob"}, upload : Upload]

\* A file is old when its last write is minimum_age_seconds ago.
Age == {"missing", "young", "old"}

\* stored: renamed and inserted, in a transaction that is not committed yet.
Live == {"streaming", "stored"}
Finished == {"accepted", "refused"}
UploadState == {"unborn"} \cup Live \cup Finished

Resting == [phase |-> "resting", old |-> {}, referenced |-> {}]

TypeOK ==
  /\ files \in [File -> Age]
  /\ upload \in [Upload -> UploadState]
  /\ revision \subseteq Upload
  /\ sweep \in [Sweeper -> [phase : {"resting", "reading", "removing"},
                            old : SUBSET File, referenced : SUBSET Upload]]

BlobInit ==
  /\ files = [f \in File |-> "missing"]
  /\ upload = [u \in Upload |-> "unborn"]
  /\ revision = {}
  /\ sweep = [s \in Sweeper |-> Resting]

-------------------------------------------------------------------------------
(* Uploads *)

Receive(u) ==
  /\ upload[u] = "unborn"
  /\ upload' = [upload EXCEPT ![u] = "streaming"]
  /\ files' = [files EXCEPT ![Temporary(u)] = "young"]
  /\ UNCHANGED <<revision, sweep>>

\* os.replace keeps the time of the last write.
Store(u) ==
  /\ upload[u] = "streaming"
  /\ files[Temporary(u)] # "missing"
  /\ upload' = [upload EXCEPT ![u] = "stored"]
  /\ files' = [files EXCEPT ![Blob(u)] = files[Temporary(u)],
                            ![Temporary(u)] = "missing"]
  /\ UNCHANGED <<revision, sweep>>

\* An exception in submit: what was written is deleted, if that works, and the
\* transaction is rolled back.
Refuse(u) ==
  /\ upload[u] \in Live
  /\ upload' = [upload EXCEPT ![u] = "refused"]
  /\ LET written == IF upload[u] = "stored" THEN Blob(u) ELSE Temporary(u)
     IN  files' \in {files, [files EXCEPT ![written] = "missing"]}
  /\ UNCHANGED <<revision, sweep>>

\* The process dies, or the commit fails after submit has returned.
Abandon(u) ==
  /\ upload[u] \in Live
  /\ upload' = [upload EXCEPT ![u] = "refused"]
  /\ UNCHANGED <<files, revision, sweep>>

Commit(u) ==
  /\ upload[u] = "stored"
  /\ upload' = [upload EXCEPT ![u] = "accepted"]
  /\ revision' = revision \cup {u}
  /\ UNCHANGED <<files, sweep>>

\* Fault: the commit is inside the try whose exception path deletes the blob.
CleanUpAfterCommit(u) ==
  /\ upload[u] = "stored"
  /\ upload' = [upload EXCEPT ![u] = "refused"]
  /\ revision' = revision \cup {u}
  /\ files' = [files EXCEPT ![Blob(u)] = "missing"]
  /\ UNCHANGED sweep

\* The rows are committed but the answer is lost: the member is refused a
\* revision that is there.
CommitUnanswered(u) ==
  /\ upload[u] = "stored"
  /\ upload' = [upload EXCEPT ![u] = "refused"]
  /\ revision' = revision \cup {u}
  /\ UNCHANGED <<files, sweep>>

-------------------------------------------------------------------------------
(* Sweeps *)

\* Fault: no minimum age.
AnyAge(f) == files[f] # "missing"

\* mtime against the cutoff, which is taken before anything is read.
PastCutoff(f) == files[f] = "old"

StartSweep(s) ==
  /\ sweep[s].phase = "resting"
  /\ sweep' = [sweep EXCEPT ![s] = [phase |-> "reading", old |-> {f \in File : PastCutoff(f)},
                                    referenced |-> {}]]
  /\ UNCHANGED <<files, upload, revision>>

ReadReferences(s) ==
  /\ sweep[s].phase = "reading"
  /\ sweep' = [sweep EXCEPT ![s].phase = "removing", ![s].referenced = revision]
  /\ UNCHANGED <<files, upload, revision>>

\* Fault: only blobs are swept.
UnreferencedBlob(s, f) == f.kind = "blob" /\ f.upload \notin sweep[s].referenced

\* A temporary file is never referenced.
Unreferenced(s, f) == f.kind = "temporary" \/ f.upload \notin sweep[s].referenced

\* One entry of the directory.
Unlink(s, f) ==
  /\ sweep[s].phase = "removing"
  /\ f \in sweep[s].old
  /\ Unreferenced(s, f)
  /\ files' = [files EXCEPT ![f] = "missing"]
  /\ sweep' = [sweep EXCEPT ![s].old = @ \ {f}]
  /\ UNCHANGED <<upload, revision>>

\* The entry is referenced, or cannot be removed now.
Keep(s, f) ==
  /\ sweep[s].phase = "removing"
  /\ f \in sweep[s].old
  /\ sweep' = [sweep EXCEPT ![s].old = @ \ {f}]
  /\ UNCHANGED <<files, upload, revision>>

\* The directory is through.
FinishSweep(s) ==
  /\ sweep[s].phase = "removing"
  /\ sweep[s].old = {}
  /\ sweep' = [sweep EXCEPT ![s] = Resting]
  /\ UNCHANGED <<files, upload, revision>>

\* The worker dies, or its query fails; it sweeps again later.
BreakOff(s) ==
  /\ sweep[s].phase # "resting"
  /\ sweep' = [sweep EXCEPT ![s] = Resting]
  /\ UNCHANGED <<files, upload, revision>>

\* The minimum age passes, 24 hours; no upload takes that long between its last
\* write and its commit.
Grow(f) ==
  /\ files[f] = "young"
  /\ upload[f.upload] \notin Live
  /\ files' = [files EXCEPT ![f] = "old"]
  /\ UNCHANGED <<upload, revision, sweep>>

BlobNext ==
  \/ \E u \in Upload :
       \/ Receive(u) \/ Store(u) \/ Refuse(u) \/ Abandon(u)
       \/ Commit(u) \/ CommitUnanswered(u)
  \/ \E s \in Sweeper :
       \/ StartSweep(s) \/ ReadReferences(s) \/ FinishSweep(s) \/ BreakOff(s)
       \/ \E f \in File : Unlink(s, f) \/ Keep(s, f)
  \/ \E f \in File : Grow(f)

BlobSpec == BlobInit /\ [][BlobNext]_blobVars

\* Time passes, requests come to an end, workers sweep every hour and do not
\* break off every sweep, and the file system does not refuse to remove a file
\* for ever.
Fairness ==
  /\ \A u \in Upload : WF_blobVars(Abandon(u))
  /\ \A f \in File :
       /\ WF_blobVars(Grow(f))
       /\ SF_blobVars(\E s \in Sweeper : Unlink(s, f))
  /\ \A s \in Sweeper :
       /\ WF_blobVars(StartSweep(s))
       /\ SF_blobVars(ReadReferences(s))
       /\ WF_blobVars(\E f \in File : Keep(s, f))
       /\ WF_blobVars(FinishSweep(s))

FairBlobSpec == BlobSpec /\ Fairness

-------------------------------------------------------------------------------
(* Safety *)

\* Whatever fails, dies or is swept, a revision in the database has its blob in
\* the directory, for the extraction and for every download: submit persists
\* both or, as far as anybody can see, neither.
RevisionHasBlob ==
  \A u \in Upload :
    /\ u \in revision => files[Blob(u)] # "missing"
    /\ upload[u] = "accepted" => u \in revision

\* A sweep that overlaps an upload, with references read before its commit,
\* leaves alone what the upload has written.
SweepSparesUploads ==
  \A u \in Upload :
    /\ upload[u] = "streaming" => files[Temporary(u)] # "missing"
    /\ upload[u] = "stored" => files[Blob(u)] # "missing"

(* Liveness *)

Orphan(f) ==
  /\ files[f] # "missing"
  /\ upload[f.upload] \in Finished
  /\ f.kind = "blob" => f.upload \notin revision

\* What a failed or abandoned upload leaves behind is removed in the end.
OrphansRemoved == \A f \in File : Orphan(f) ~> files[f] = "missing"
===============================================================================
