----------------------------- MODULE SourceProofs -----------------------------
(***************************************************************************)
(* Proofs about the way of a source, from the upload to the citation:      *)
(* BlobStore keeps the files that members upload, ParserSandbox reads      *)
(* them, Grounding writes texts about them that cite them.                 *)
(***************************************************************************)
EXTENDS BlobStore, ParserSandbox, Grounding, SequenceTheorems, FiniteSetTheorems,
        WellFoundedInduction, TLAPS

-------------------------------------------------------------------------------
(* BlobStore: for every set of uploads and every number of workers, no         *)
(* interleaving of uploads, failures and sweeps costs a revision its blob.     *)

(***************************************************************************)
(* The inductive invariant.  A sweep decides with an old directory and old *)
(* references; it is safe because what an upload still needs is young, and *)
(* because what was old when the sweep began has had its transaction:      *)
(* references that are read after the cutoff know it.                      *)
(***************************************************************************)
WrittenIsYoung ==
  \A u \in Upload :
    /\ upload[u] = "streaming" => files[Temporary(u)] = "young"
    /\ upload[u] = "stored" => files[Blob(u)] = "young"

\* Files come from uploads, and only what an upload that is over left is old.
FilesHaveUploads ==
  \A f \in File :
    /\ files[f] # "missing" => upload[f.upload] # "unborn"
    /\ files[f] = "old" => upload[f.upload] \in Finished

SweptIsFinished ==
  \A s \in Sweeper : \A f \in sweep[s].old : upload[f.upload] \in Finished

RevisionIsFinished == \A u \in revision : upload[u] \in Finished

ReferencesAreKnown ==
  \A s \in Sweeper : \A u \in revision :
    sweep[s].phase = "removing" /\ Blob(u) \in sweep[s].old => u \in sweep[s].referenced

BlobIInv ==
  /\ TypeOK
  /\ WrittenIsYoung
  /\ FilesHaveUploads
  /\ SweptIsFinished
  /\ RevisionIsFinished
  /\ ReferencesAreKnown
  /\ RevisionHasBlob

-------------------------------------------------------------------------------
(* Names of files *)

\* Every upload has two files, and no two uploads share one.
LEMMA FileNames ==
  ASSUME NEW u \in Upload
  PROVE  /\ Temporary(u) \in File
         /\ Blob(u) \in File
         /\ Temporary(u).upload = u
         /\ Blob(u).upload = u
         /\ Blob(u).kind = "blob"
         /\ \A v \in Upload : /\ Temporary(u) # Blob(v)
                              /\ u # v => Temporary(u) # Temporary(v)
                              /\ u # v => Blob(u) # Blob(v)
<1>1. /\ Temporary(u) \in File
      /\ Blob(u) \in File
  BY DEF Temporary, Blob, File
<1>2. /\ Temporary(u).upload = u
      /\ Blob(u).upload = u
      /\ Blob(u).kind = "blob"
      /\ Temporary(u).kind = "temporary"
  BY DEF Temporary, Blob
<1>3. \A v \in Upload : Temporary(v).upload = v /\ Blob(v).upload = v /\ Blob(v).kind = "blob"
  BY DEF Temporary, Blob
<1> QED  BY <1>1, <1>2, <1>3

\* A finished upload is neither unborn nor live.
LEMMA FinishedIsOver ==
  /\ "accepted" \in Finished
  /\ "refused" \in Finished
  /\ Finished \cap Live = {}
  /\ "unborn" \notin Finished
  /\ "streaming" \in Live
  /\ "stored" \in Live
BY DEF Finished, Live

-------------------------------------------------------------------------------
(* Uploads *)

\* The first write makes a young file that nothing refers to yet.
LEMMA ReceiveKeepsBlobIInv ==
  ASSUME BlobIInv, NEW u \in Upload, Receive(u)
  PROVE  BlobIInv'
<1> USE FileNames, FinishedIsOver
<1>1. TypeOK'
  BY DEF BlobIInv, TypeOK, Receive, Age, UploadState, Live
<1>2. WrittenIsYoung'
  BY DEF BlobIInv, TypeOK, WrittenIsYoung, Receive
<1>3. FilesHaveUploads'
  BY DEF BlobIInv, TypeOK, FilesHaveUploads, Receive, File
<1>4. SweptIsFinished'
  BY DEF BlobIInv, TypeOK, SweptIsFinished, Receive, File
<1>5. RevisionIsFinished'
  BY DEF BlobIInv, TypeOK, RevisionIsFinished, Receive
<1>6. ReferencesAreKnown'
  BY DEF BlobIInv, ReferencesAreKnown, Receive
<1>7. RevisionHasBlob'
  BY DEF BlobIInv, TypeOK, RevisionHasBlob, Receive
<1> QED  BY <1>1, <1>2, <1>3, <1>4, <1>5, <1>6, <1>7 DEF BlobIInv

\* The rename keeps the age of the file.
LEMMA StoreKeepsBlobIInv ==
  ASSUME BlobIInv, NEW u \in Upload, Store(u)
  PROVE  BlobIInv'
<1> USE FileNames, FinishedIsOver
<1>1. files[Temporary(u)] = "young"
  BY DEF BlobIInv, WrittenIsYoung, Store
<1>2. TypeOK'
  BY <1>1 DEF BlobIInv, TypeOK, Store, Age, UploadState, Live
<1>3. WrittenIsYoung'
  BY <1>1 DEF BlobIInv, TypeOK, WrittenIsYoung, Store
<1>4. FilesHaveUploads'
  <2>1. \A f \in File : files'[f] = files[f] \/ (f.upload = u /\ files'[f] # "old")
    BY <1>1 DEF BlobIInv, TypeOK, Store
  <2>2. \A v \in Upload : v # u => upload'[v] = upload[v]
    BY DEF BlobIInv, TypeOK, Store
  <2>3. upload'[u] = "stored" /\ upload[u] = "streaming"
    BY DEF BlobIInv, TypeOK, Store
  <2>4. \A f \in File : f.upload \in Upload
    BY DEF File
  <2> QED  BY <2>1, <2>2, <2>3, <2>4 DEF BlobIInv, FilesHaveUploads
<1>5. SweptIsFinished'
  BY DEF BlobIInv, TypeOK, SweptIsFinished, Store, File
<1>6. RevisionIsFinished'
  BY DEF BlobIInv, TypeOK, RevisionIsFinished, Store
<1>7. ReferencesAreKnown'
  BY DEF BlobIInv, ReferencesAreKnown, Store
<1>8. RevisionHasBlob'
  BY <1>1 DEF BlobIInv, TypeOK, RevisionHasBlob, Store
<1> QED  BY <1>2, <1>3, <1>4, <1>5, <1>6, <1>7, <1>8 DEF BlobIInv

\* An upload that fails has no revision: its file may go or stay.
LEMMA RefusalKeepsBlobIInv ==
  ASSUME BlobIInv, NEW u \in Upload, Refuse(u) \/ Abandon(u)
  PROVE  BlobIInv'
<1> USE FileNames, FinishedIsOver
<1> DEFINE own == IF upload[u] = "stored" THEN Blob(u) ELSE Temporary(u)
<1>1. /\ upload[u] \in Live
      /\ upload' = [upload EXCEPT ![u] = "refused"]
      /\ revision' = revision
      /\ sweep' = sweep
      /\ files' \in {files, [files EXCEPT ![own] = "missing"]}
  BY DEF Refuse, Abandon
<1>2. u \notin revision
  BY <1>1 DEF BlobIInv, RevisionIsFinished
<1>3. /\ own \in File /\ own.upload = u
      /\ \A v \in Upload : v # u => own # Blob(v) /\ own # Temporary(v)
  OBVIOUS
<1> HIDE DEF own
<1>4. /\ files' \in [File -> Age]
      /\ \A f \in File :
           files'[f] \in {files[f], "missing"} /\ (f # own => files'[f] = files[f])
  BY <1>1, <1>3 DEF BlobIInv, TypeOK, Age
<1>5. TypeOK'
  BY <1>1, <1>4 DEF BlobIInv, TypeOK, UploadState
<1>6. WrittenIsYoung'
  BY <1>1, <1>3, <1>4 DEF BlobIInv, TypeOK, WrittenIsYoung
<1>7. FilesHaveUploads'
  BY <1>1, <1>4 DEF BlobIInv, TypeOK, FilesHaveUploads, File
<1>8. SweptIsFinished'
  BY <1>1 DEF BlobIInv, TypeOK, SweptIsFinished, File
<1>9. RevisionIsFinished'
  BY <1>1 DEF BlobIInv, TypeOK, RevisionIsFinished
<1>10. ReferencesAreKnown'
  BY <1>1 DEF BlobIInv, ReferencesAreKnown
<1>11. RevisionHasBlob'
  BY <1>1, <1>2, <1>3, <1>4 DEF BlobIInv, TypeOK, RevisionHasBlob
<1> QED  BY <1>5, <1>6, <1>7, <1>8, <1>9, <1>10, <1>11 DEF BlobIInv

\* What is committed was young a moment ago, so no sweep that is under way has
\* its blob on the list.
LEMMA CommitKeepsBlobIInv ==
  ASSUME BlobIInv, NEW u \in Upload, Commit(u) \/ CommitUnanswered(u)
  PROVE  BlobIInv'
<1> USE FileNames, FinishedIsOver
<1>1. /\ upload[u] = "stored"
      /\ upload' \in {[upload EXCEPT ![u] = "accepted"], [upload EXCEPT ![u] = "refused"]}
      /\ revision' = revision \cup {u}
      /\ files' = files
      /\ sweep' = sweep
  BY DEF Commit, CommitUnanswered
<1>2. files[Blob(u)] = "young"
  BY <1>1 DEF BlobIInv, WrittenIsYoung
<1>3. \A s \in Sweeper : Blob(u) \notin sweep[s].old
  BY <1>1 DEF BlobIInv, SweptIsFinished
<1>4. /\ upload' \in [Upload -> UploadState]
      /\ upload'[u] \in Finished
      /\ \A v \in Upload : v # u => upload'[v] = upload[v]
  BY <1>1 DEF BlobIInv, TypeOK, UploadState, Finished
<1>5. TypeOK'
  BY <1>1, <1>4 DEF BlobIInv, TypeOK
<1>6. WrittenIsYoung'
  BY <1>1, <1>4 DEF BlobIInv, WrittenIsYoung
<1>7. FilesHaveUploads'
  BY <1>1, <1>4 DEF BlobIInv, FilesHaveUploads, File
<1>8. SweptIsFinished'
  BY <1>1, <1>4 DEF BlobIInv, TypeOK, SweptIsFinished, File
<1>9. RevisionIsFinished'
  BY <1>1, <1>4 DEF BlobIInv, TypeOK, RevisionIsFinished
<1>10. ReferencesAreKnown'
  BY <1>1, <1>3 DEF BlobIInv, ReferencesAreKnown
<1>11. RevisionHasBlob'
  BY <1>1, <1>2, <1>4 DEF BlobIInv, RevisionHasBlob
<1> QED  BY <1>5, <1>6, <1>7, <1>8, <1>9, <1>10, <1>11 DEF BlobIInv

-------------------------------------------------------------------------------
(* Sweeps *)

\* Only a file whose upload is over grows old.
LEMMA GrowKeepsBlobIInv ==
  ASSUME BlobIInv, NEW f \in File, Grow(f)
  PROVE  BlobIInv'
<1> USE FileNames, FinishedIsOver
<1>1. /\ files' = [files EXCEPT ![f] = "old"]
      /\ files[f] = "young"
      /\ upload[f.upload] \notin Live
      /\ upload' = upload
      /\ revision' = revision
      /\ sweep' = sweep
  BY DEF Grow
<1>2. f.upload \in Upload
  BY DEF File
<1>3. upload[f.upload] \in Finished
  BY <1>1, <1>2 DEF BlobIInv, TypeOK, FilesHaveUploads, UploadState
<1>4. TypeOK' /\ FilesHaveUploads'
  BY <1>1, <1>3 DEF BlobIInv, TypeOK, FilesHaveUploads, Age
<1>5. WrittenIsYoung' /\ RevisionHasBlob'
  BY <1>1, <1>3 DEF BlobIInv, TypeOK, WrittenIsYoung, RevisionHasBlob
<1>6. SweptIsFinished' /\ RevisionIsFinished' /\ ReferencesAreKnown'
  BY <1>1 DEF BlobIInv, SweptIsFinished, RevisionIsFinished, ReferencesAreKnown
<1> QED  BY <1>4, <1>5, <1>6 DEF BlobIInv

\* A sweep writes down what is old, then what is referenced, and forgets both.
LEMMA SweepKeepsBlobIInv ==
  ASSUME BlobIInv, NEW s \in Sweeper,
         StartSweep(s) \/ ReadReferences(s) \/ FinishSweep(s) \/ BreakOff(s)
  PROVE  BlobIInv'
<1>1. /\ files' = files
      /\ upload' = upload
      /\ revision' = revision
  BY DEF StartSweep, ReadReferences, FinishSweep, BreakOff
<1>2. WrittenIsYoung' /\ FilesHaveUploads' /\ RevisionIsFinished' /\ RevisionHasBlob'
  BY <1>1 DEF BlobIInv, WrittenIsYoung, FilesHaveUploads, RevisionIsFinished, RevisionHasBlob
<1>3. TypeOK' /\ SweptIsFinished' /\ ReferencesAreKnown'
  <2>1. CASE StartSweep(s)
    BY <1>1, <2>1 DEF BlobIInv, TypeOK, SweptIsFinished, ReferencesAreKnown, FilesHaveUploads,
                      StartSweep, PastCutoff
  <2>2. CASE ReadReferences(s)
    BY <1>1, <2>2 DEF BlobIInv, TypeOK, SweptIsFinished, ReferencesAreKnown, ReadReferences
  <2>3. CASE FinishSweep(s) \/ BreakOff(s)
    BY <1>1, <2>3 DEF BlobIInv, TypeOK, SweptIsFinished, ReferencesAreKnown, FinishSweep, BreakOff,
                      Resting
  <2> QED  BY <2>1, <2>2, <2>3
<1> QED  BY <1>2, <1>3 DEF BlobIInv

\* What is removed is a temporary file of an upload that is over, or a blob
\* that was old and unknown to references read later: no revision's.
LEMMA EntryKeepsBlobIInv ==
  ASSUME BlobIInv, NEW s \in Sweeper, NEW f \in File, Unlink(s, f) \/ Keep(s, f)
  PROVE  BlobIInv'
<1> USE FileNames, FinishedIsOver
<1>1. /\ upload' = upload
      /\ revision' = revision
      /\ sweep' = [sweep EXCEPT ![s].old = @ \ {f}]
      /\ f \in sweep[s].old
      /\ sweep[s].phase = "removing"
  BY DEF Unlink, Keep
<1>2. upload[f.upload] \in Finished
  BY <1>1 DEF BlobIInv, SweptIsFinished
<1>3. /\ files' \in [File -> Age]
      /\ \A g \in File : files'[g] \in {files[g], "missing"}
      /\ \A u \in Upload : upload[u] \in Live => /\ files'[Temporary(u)] = files[Temporary(u)]
                                                 /\ files'[Blob(u)] = files[Blob(u)]
  BY <1>2 DEF BlobIInv, TypeOK, Unlink, Keep, Age
<1>4. \A u \in revision : files'[Blob(u)] = files[Blob(u)]
  <2>1. CASE Unlink(s, f)
    <3> SUFFICES ASSUME NEW u \in revision
                 PROVE  f # Blob(u)
      BY <2>1 DEF BlobIInv, TypeOK, Unlink
    <3>1. u \in Upload
      BY DEF BlobIInv, TypeOK
    <3>2. CASE f.kind = "temporary"
      BY <3>1, <3>2
    <3>3. CASE f.upload \notin sweep[s].referenced
      BY <1>1, <3>1, <3>3 DEF BlobIInv, ReferencesAreKnown
    <3> QED  BY <2>1, <3>2, <3>3 DEF Unlink, Unreferenced
  <2>2. CASE Keep(s, f)
    BY <2>2 DEF Keep
  <2> QED  BY <2>1, <2>2
<1>5. /\ sweep' \in [Sweeper -> [phase : {"resting", "reading", "removing"},
                                old : SUBSET File, referenced : SUBSET Upload]]
      /\ \A r \in Sweeper : /\ sweep'[r].phase = sweep[r].phase
                            /\ sweep'[r].old \subseteq sweep[r].old
                            /\ sweep'[r].referenced = sweep[r].referenced
  BY <1>1 DEF BlobIInv, TypeOK
<1>6. TypeOK'
  BY <1>1, <1>3, <1>5 DEF BlobIInv, TypeOK
<1>7. WrittenIsYoung'
  BY <1>1, <1>3 DEF BlobIInv, WrittenIsYoung
<1>8. FilesHaveUploads'
  BY <1>1, <1>3 DEF BlobIInv, FilesHaveUploads
<1>9. SweptIsFinished' /\ RevisionIsFinished' /\ ReferencesAreKnown'
  BY <1>1, <1>5 DEF BlobIInv, SweptIsFinished, RevisionIsFinished, ReferencesAreKnown
<1>10. RevisionHasBlob'
  BY <1>1, <1>4 DEF BlobIInv, TypeOK, RevisionHasBlob
<1> QED  BY <1>6, <1>7, <1>8, <1>9, <1>10 DEF BlobIInv

-------------------------------------------------------------------------------
(* Every reachable state *)

\* The empty directory satisfies the invariant.
LEMMA EmptyDirectoryIsSound == BlobInit => BlobIInv
<1> SUFFICES ASSUME BlobInit PROVE BlobIInv
  OBVIOUS
<1> USE FileNames DEF BlobInit
<1>1. TypeOK
  BY DEF TypeOK, Age, UploadState, Resting
<1>2. WrittenIsYoung /\ FilesHaveUploads /\ RevisionIsFinished
  BY DEF WrittenIsYoung, FilesHaveUploads, RevisionIsFinished
<1>3. SweptIsFinished /\ ReferencesAreKnown
  BY DEF SweptIsFinished, ReferencesAreKnown, Resting
<1>4. RevisionHasBlob
  BY DEF RevisionHasBlob
<1> QED  BY <1>1, <1>2, <1>3, <1>4 DEF BlobIInv

\* Every step of an upload, of a sweep and of time keeps it.
LEMMA BlobNextKeepsIInv == BlobIInv /\ [BlobNext]_blobVars => BlobIInv'
<1> SUFFICES ASSUME BlobIInv, [BlobNext]_blobVars PROVE BlobIInv'
  OBVIOUS
<1>1. CASE \E u \in Upload : \/ Receive(u) \/ Store(u) \/ Refuse(u) \/ Abandon(u)
                             \/ Commit(u) \/ CommitUnanswered(u)
  BY <1>1, ReceiveKeepsBlobIInv, StoreKeepsBlobIInv, RefusalKeepsBlobIInv, CommitKeepsBlobIInv
<1>2. CASE \E s \in Sweeper :
             \/ StartSweep(s) \/ ReadReferences(s) \/ FinishSweep(s) \/ BreakOff(s)
             \/ \E f \in File : Unlink(s, f) \/ Keep(s, f)
  BY <1>2, SweepKeepsBlobIInv, EntryKeepsBlobIInv
<1>3. CASE \E f \in File : Grow(f)
  BY <1>3, GrowKeepsBlobIInv
<1>4. CASE UNCHANGED blobVars
  BY <1>4 DEF blobVars, BlobIInv, TypeOK, WrittenIsYoung, FilesHaveUploads, SweptIsFinished,
              RevisionIsFinished, ReferencesAreKnown, RevisionHasBlob
<1> QED  BY <1>1, <1>2, <1>3, <1>4 DEF BlobNext

\* The inductive invariant of the directory and the database.
THEOREM DirectoryInductive == BlobSpec => []BlobIInv
BY EmptyDirectoryIsSound, BlobNextKeepsIInv, PTL DEF BlobSpec

\* Type correctness, for every set of uploads and sweepers.
THEOREM DirectoryTypeCorrect == BlobSpec => []TypeOK
<1>1. BlobIInv => TypeOK
  BY DEF BlobIInv
<1> QED  BY <1>1, DirectoryInductive, PTL

\* submit persists a revision and its blob, or no revision: no failure, death,
\* lost answer or sweep (sweep_orphans) takes the blob of a committed revision.
THEOREM BlobsAreKept == BlobSpec => []RevisionHasBlob
<1>1. BlobIInv => RevisionHasBlob
  BY DEF BlobIInv
<1> QED  BY <1>1, DirectoryInductive, PTL

\* sweep_orphans leaves alone the files of an upload that is under way.
THEOREM UploadsAreSpared == BlobSpec => []SweepSparesUploads
<1>1. BlobIInv => SweepSparesUploads
  BY DEF BlobIInv, WrittenIsYoung, SweepSparesUploads
<1> QED  BY <1>1, DirectoryInductive, PTL

-------------------------------------------------------------------------------
(* ParserSandbox: whatever the parser, the readers and the docker daemon do    *)
(* between two tests of the host, and for every limit and every answer.        *)

(***************************************************************************)
(* The inductive invariant.  The verdict rests on what the host has waited *)
(* for: behind each of its phases stands a fact about the parser, the      *)
(* readers or the container that nobody can undo.                          *)
(***************************************************************************)
Phases == {"start", "polling", "polled", "killing", "removed", "waiting", "closing",
           "judging", "returned", "raised"}

SandboxTypeOK ==
  /\ request \in Requests
  /\ phase \in Phases
  /\ boundary \in {"none", "PARSER_TIMEOUT", "PARSER_OUTPUT_LIMIT", "PARSER_LOG_LIMIT"}
  /\ expired \in BOOLEAN
  /\ parser \in [state : {"absent", "running", "closed", "exited"}, exit : {0, 1, 2, 137}]
  /\ helper \in {"none", "group", "session"}
  /\ container \in {"none", "created", "running", "removed"}
  /\ missed \in BOOLEAN
  /\ document \in Nat
  /\ written \in [Stream -> Nat]
  /\ buffer \in [Stream -> 0 .. Limit]
  /\ reader \in [Stream -> {"idle", "reading", "done"}]
  /\ overflow \in Stream \cup {"none"}

\* Where the host is tells what the parser can be.
PhasesFollowTheParser ==
  /\ phase = "start" => parser.state = "absent" /\ boundary = "none"
  /\ parser.state = "absent" => container = "none" /\ helper = "none"
  /\ phase \in {"closing", "judging"} => parser.state = "exited"
  /\ phase = "returned" => parser.state \in {"absent", "exited"}
  /\ phase # "returned" => outcome = NoOutcome
  /\ IF IsProcess THEN container = "none" ELSE helper = "none"

\* A reader that is done has met the limit, or the end of a stream to which nobody
\* can write any more.
ReadersReadToTheEnd ==
  \A s \in Stream :
    /\ buffer[s] <= written[s]
    /\ reader[s] = "done" => buffer[s] = Limit \/ (buffer[s] = written[s] /\ AtEOF)

\* The stdout of a container has the document and nothing else, so only a document
\* of the limit or more can overflow it.
DocumentIsBounded ==
  /\ document > 0 => document \in Printable
  /\ IsContainer => written["stdout"] = IF document = 0 THEN 0 ELSE document + 1
  /\ overflow # "none" => written[overflow] > Limit
  /\ boundary = "PARSER_OUTPUT_LIMIT" => IsContainer /\ overflow = "stdout"

\* Nobody is judged before the readers are through, unless the host stopped them.
JudgedWhenRead ==
  /\ phase \in {"killing", "removed"} => boundary # "none"
  /\ phase \in {"waiting", "judging"} /\ IsContainer /\ boundary = "none" => Completed
  /\ phase = "judging" /\ IsProcess => Completed

\* Behind rm there is no container, or none that rm could have found.
ContainerIsGone ==
  /\ phase = "removed" /\ container # "removed" => missed
  /\ parser.state = "exited" /\ container \in {"created", "running"} => missed

\* What the job is told goes back to what the host heard.
OutcomeIsEarned ==
  /\ outcome.target = "succeeded" =>
       /\ parser = [state |-> "exited", exit |-> 0]
       /\ boundary = "none"
       /\ Completed
       /\ IF IsProcess THEN \A s \in Stream : buffer[s] = 0
                       ELSE buffer["stdout"] >= document /\ buffer["stderr"] = 0
  /\ phase = "returned" /\ boundary = "PARSER_TIMEOUT" => outcome.target = "failed_retryable"
  /\ outcome.code = "PARSER_OUTPUT_LIMIT" => boundary = "PARSER_OUTPUT_LIMIT"

SandboxIInv ==
  /\ SandboxTypeOK
  /\ PhasesFollowTheParser
  /\ ReadersReadToTheEnd
  /\ DocumentIsBounded
  /\ JudgedWhenRead
  /\ ContainerIsGone
  /\ OutcomeIsEarned
\* The daemon makes no container once its client is gone, and takes none back.
LEMMA ContainerKeepsSandboxIInv ==
  ASSUME SandboxIInv, Create \/ StartContainer \/ OrphanEnds
  PROVE  SandboxIInv'
<1>1. SandboxTypeOK'
  BY LimitAssumption DEF SandboxIInv, SandboxTypeOK, Phases, Requests, Create, StartContainer,
     OrphanEnds, host, streams, IsContainer, Stream
<1>2. PhasesFollowTheParser'
  BY LimitAssumption DEF SandboxIInv, SandboxTypeOK, PhasesFollowTheParser, NoOutcome, Create,
     StartContainer, OrphanEnds, host, streams, IsProcess, IsContainer, Stream
<1>3. ReadersReadToTheEnd'
  BY LimitAssumption DEF SandboxIInv, SandboxTypeOK, ReadersReadToTheEnd,
     PhasesFollowTheParser, AtEOF, Create, StartContainer, OrphanEnds, host, streams,
     IsProcess, IsContainer, Stream
<1>4. DocumentIsBounded'
  BY LimitAssumption DEF SandboxIInv, SandboxTypeOK, DocumentIsBounded, ReadersReadToTheEnd,
     Printable, Create, StartContainer, OrphanEnds, host, streams, IsContainer, Stream
<1>5. JudgedWhenRead'
  BY LimitAssumption DEF SandboxIInv, SandboxTypeOK, JudgedWhenRead, Completed, Create,
     StartContainer, OrphanEnds, host, streams, IsProcess, IsContainer, Stream
<1>6. ContainerIsGone'
  BY LimitAssumption DEF SandboxIInv, SandboxTypeOK, ContainerIsGone, PhasesFollowTheParser,
     Create, StartContainer, OrphanEnds, host, streams, IsProcess, IsContainer, Stream
<1>7. OutcomeIsEarned'
  BY LimitAssumption DEF SandboxIInv, SandboxTypeOK, OutcomeIsEarned, PhasesFollowTheParser,
     ReadersReadToTheEnd, Completed, NoOutcome, Create, StartContainer, OrphanEnds, host,
     streams, IsProcess, IsContainer, Stream
<1> QED  BY <1>1, <1>2, <1>3, <1>4, <1>5, <1>6, <1>7 DEF SandboxIInv

\* What is written is written while somebody holds the stream.
LEMMA WritingKeepsSandboxIInv ==
  ASSUME SandboxIInv, WriteOutput \/ (\E s \in Stream : Chatter(s))
  PROVE  SandboxIInv'
<1>1. SandboxTypeOK'
  <2>1. CASE WriteOutput
    <3>1. document' \in Nat
      BY <2>1, LimitAssumption DEF WriteOutput, Printable
    <3>2. written' \in [Stream -> Nat]
      BY <2>1, LimitAssumption DEF SandboxIInv, SandboxTypeOK, WriteOutput, Printable, Stream
    <3> QED  BY <2>1, <3>1, <3>2 DEF SandboxIInv, SandboxTypeOK, WriteOutput, host, processes
  <2>2. CASE \E s \in Stream : Chatter(s)
    BY <2>2 DEF SandboxIInv, SandboxTypeOK, Chatter, host, processes
  <2> QED  BY <2>1, <2>2
<1>2. PhasesFollowTheParser'
  BY LimitAssumption DEF SandboxIInv, SandboxTypeOK, PhasesFollowTheParser, NoOutcome,
     WriteOutput, Chatter, host, processes, streams, IsProcess, IsContainer, Speaks, Stream
<1>3. ReadersReadToTheEnd'
  <2>1. /\ written' \in [Stream -> Nat]
        /\ \A s \in Stream : written'[s] >= written[s] \/ written[s] = 0
    <3>1. CASE WriteOutput
      <4>1. PICK size \in Printable : written' = [written EXCEPT !["stdout"] = size + 1]
        BY <3>1 DEF WriteOutput
      <4>2. size \in Nat
        BY LimitAssumption DEF Printable
      <4>3. written["stdout"] = 0 
        BY <3>1 DEF SandboxIInv, DocumentIsBounded, WriteOutput
      <4> QED  BY <4>1, <4>2, <4>3 DEF SandboxIInv, SandboxTypeOK, Stream
    <3>2. CASE \E s \in Stream : Chatter(s)
      BY <3>2 DEF SandboxIInv, SandboxTypeOK, Chatter
    <3> QED  BY <3>1, <3>2
  <2>2. /\ parser' = parser /\ helper' = helper
        /\ buffer' = buffer /\ reader' = reader
        /\ ~ AtEOF
    BY DEF WriteOutput, Chatter, Speaks, AtEOF, processes
  <2>3. \A s \in Stream : buffer[s] <= written[s] /\ buffer[s] \in Nat
    BY DEF SandboxIInv, SandboxTypeOK, ReadersReadToTheEnd
  <2> QED  BY <2>1, <2>2, <2>3 DEF SandboxIInv, SandboxTypeOK, ReadersReadToTheEnd
<1>4. DocumentIsBounded'
  BY LimitAssumption DEF SandboxIInv, SandboxTypeOK, DocumentIsBounded, ReadersReadToTheEnd,
     Printable, WriteOutput, Chatter, host, processes, streams, IsProcess, IsContainer,
     Speaks, Stream
<1>5. JudgedWhenRead'
  BY LimitAssumption DEF SandboxIInv, SandboxTypeOK, JudgedWhenRead, Completed, WriteOutput,
     Chatter, host, processes, streams, IsProcess, IsContainer, Speaks, Stream
<1>6. ContainerIsGone'
  BY LimitAssumption DEF SandboxIInv, SandboxTypeOK, ContainerIsGone, PhasesFollowTheParser,
     WriteOutput, Chatter, host, processes, streams, IsProcess, IsContainer, Speaks, Stream
<1>7. OutcomeIsEarned'
  BY LimitAssumption DEF SandboxIInv, SandboxTypeOK, OutcomeIsEarned, PhasesFollowTheParser,
     ReadersReadToTheEnd, Completed, NoOutcome, WriteOutput, Chatter, host, processes,
     streams, IsProcess, IsContainer, Speaks, Stream
<1> QED  BY <1>1, <1>2, <1>3, <1>4, <1>5, <1>6, <1>7 DEF SandboxIInv

\* A descendant starts before the streams can end.
LEMMA HelpersKeepSandboxIInv ==
  ASSUME SandboxIInv, Spawn \/ HelperEnds
  PROVE  SandboxIInv'
<1>1. SandboxTypeOK'
  BY LimitAssumption DEF SandboxIInv, SandboxTypeOK, Phases, Requests, Spawn, HelperEnds,
     host, streams, IsProcess, Stream
<1>2. PhasesFollowTheParser'
  BY LimitAssumption DEF SandboxIInv, SandboxTypeOK, PhasesFollowTheParser, NoOutcome, Spawn,
     HelperEnds, host, streams, IsProcess, Stream
<1>3. ReadersReadToTheEnd'
  BY LimitAssumption DEF SandboxIInv, SandboxTypeOK, ReadersReadToTheEnd,
     PhasesFollowTheParser, AtEOF, Spawn, HelperEnds, host, streams, IsProcess, Stream
<1>4. DocumentIsBounded'
  BY LimitAssumption DEF SandboxIInv, SandboxTypeOK, DocumentIsBounded, ReadersReadToTheEnd,
     Printable, Spawn, HelperEnds, host, streams, IsProcess, IsContainer, Stream
<1>5. JudgedWhenRead'
  BY LimitAssumption DEF SandboxIInv, SandboxTypeOK, JudgedWhenRead, Completed, Spawn,
     HelperEnds, host, streams, IsProcess, IsContainer, Stream
<1>6. ContainerIsGone'
  BY LimitAssumption DEF SandboxIInv, SandboxTypeOK, ContainerIsGone, PhasesFollowTheParser,
     Spawn, HelperEnds, host, streams, IsProcess, Stream
<1>7. OutcomeIsEarned'
  BY LimitAssumption DEF SandboxIInv, SandboxTypeOK, OutcomeIsEarned, PhasesFollowTheParser,
     ReadersReadToTheEnd, Completed, NoOutcome, Spawn, HelperEnds, host, streams, IsProcess,
     Stream
<1> QED  BY <1>1, <1>2, <1>3, <1>4, <1>5, <1>6, <1>7 DEF SandboxIInv

\* A parser that ends takes its container along.
LEMMA ParserKeepsSandboxIInv ==
  ASSUME SandboxIInv, CloseStreams \/ Exit
  PROVE  SandboxIInv'
<1>1. SandboxTypeOK'
  BY LimitAssumption DEF SandboxIInv, SandboxTypeOK, Phases, Requests, CloseStreams, Exit,
     host, streams, IsContainer, Stream
<1>2. PhasesFollowTheParser'
  BY LimitAssumption DEF SandboxIInv, SandboxTypeOK, PhasesFollowTheParser, NoOutcome,
     CloseStreams, Exit, host, streams, IsProcess, IsContainer, Stream
<1>3. ReadersReadToTheEnd'
  BY LimitAssumption DEF SandboxIInv, SandboxTypeOK, ReadersReadToTheEnd,
     PhasesFollowTheParser, AtEOF, CloseStreams, Exit, host, streams, IsProcess, IsContainer,
     Stream
<1>4. DocumentIsBounded'
  BY LimitAssumption DEF SandboxIInv, SandboxTypeOK, DocumentIsBounded, ReadersReadToTheEnd,
     Printable, CloseStreams, Exit, host, streams, IsContainer, Stream
<1>5. JudgedWhenRead'
  BY LimitAssumption DEF SandboxIInv, SandboxTypeOK, JudgedWhenRead, Completed, CloseStreams,
     Exit, host, streams, IsProcess, IsContainer, Stream
<1>6. ContainerIsGone'
  BY LimitAssumption DEF SandboxIInv, SandboxTypeOK, ContainerIsGone, PhasesFollowTheParser,
     CloseStreams, Exit, host, streams, IsProcess, IsContainer, Stream
<1>7. OutcomeIsEarned'
  BY LimitAssumption DEF SandboxIInv, SandboxTypeOK, OutcomeIsEarned, PhasesFollowTheParser,
     ReadersReadToTheEnd, Completed, NoOutcome, CloseStreams, Exit, host, streams, IsProcess,
     IsContainer, Stream
<1> QED  BY <1>1, <1>2, <1>3, <1>4, <1>5, <1>6, <1>7 DEF SandboxIInv

\* The host judges nothing before it has started a parser.
LEMMA StartKeepsSandboxIInv ==
  ASSUME SandboxIInv, Start
  PROVE  SandboxIInv'
<1>1. /\ phase = "start" /\ phase' \in {"returned", "raised", "polling"}
      /\ UNCHANGED <<request, boundary, expired, helper, container, missed, document, written,
                    buffer, overflow>>
  BY DEF Start, TooLarge, Refused, LaunchFails, Launch, Fail, processes, streams
<1>2. /\ parser' = parser \/ parser' = [parser EXCEPT !.state = "running"]
      /\ reader' = reader \/ reader' = [s \in Stream |-> "reading"]
  BY DEF Start, TooLarge, Refused, LaunchFails, Launch, processes, streams
<1>3. SandboxTypeOK'
  <2>1. phase' \in Phases
    BY <1>1 DEF Phases
  <2> QED  BY <1>1, <1>2, <2>1 DEF SandboxIInv, SandboxTypeOK
<1>4. PhasesFollowTheParser'
  <2>1. CASE TooLarge \/ Refused
    BY <2>1 DEF SandboxIInv, PhasesFollowTheParser, TooLarge, Refused, Fail, processes,
       IsProcess
  <2>2. CASE LaunchFails
    BY <2>2 DEF SandboxIInv, PhasesFollowTheParser, LaunchFails, Fail, processes, IsProcess
  <2>3. CASE Launch
    BY <2>3 DEF SandboxIInv, SandboxTypeOK, PhasesFollowTheParser, Launch, IsProcess
  <2> QED  BY <2>1, <2>2, <2>3 DEF Start
<1>5. ReadersReadToTheEnd'
  <2>1. CASE UNCHANGED processes /\ UNCHANGED streams
    BY <1>1, <2>1 DEF SandboxIInv, ReadersReadToTheEnd, AtEOF, IsProcess, processes, streams
  <2>2. CASE reader' = [s \in Stream |-> "reading"]
    BY <1>1, <2>2 DEF SandboxIInv, ReadersReadToTheEnd
  <2> QED  BY <2>1, <2>2 DEF Start, TooLarge, Refused, LaunchFails, Launch
<1>6. DocumentIsBounded'
  BY <1>1 DEF SandboxIInv, DocumentIsBounded, Printable, IsContainer
<1>7. JudgedWhenRead'
  BY <1>1 DEF JudgedWhenRead
<1>8. ContainerIsGone'
  <2>1. container = "none" /\ container' = container
    BY <1>1 DEF SandboxIInv, PhasesFollowTheParser
  <2> QED  BY <1>1, <2>1 DEF ContainerIsGone
<1>9. OutcomeIsEarned'
  <2>1. boundary = "none" /\ boundary' = boundary /\ outcome = NoOutcome
    BY DEF Start, TooLarge, Refused, LaunchFails, Launch, SandboxIInv, PhasesFollowTheParser
  <2>2. outcome'.target # "succeeded" /\ outcome'.code # "PARSER_OUTPUT_LIMIT"
    <3>1. CASE TooLarge \/ Refused
      BY <3>1 DEF TooLarge, Refused, Fail, Target, ProcessTarget, ContainerTarget
    <3>2. CASE LaunchFails
      BY <2>1, <3>2 DEF LaunchFails, Fail, Target, ProcessTarget, ContainerTarget, NoOutcome
    <3>3. CASE Launch
      BY <2>1, <3>3 DEF Launch, NoOutcome
    <3> QED  BY <3>1, <3>2, <3>3 DEF Start
  <2> QED  BY <2>1, <2>2 DEF OutcomeIsEarned
<1> QED  BY <1>3, <1>4, <1>5, <1>6, <1>7, <1>8, <1>9 DEF SandboxIInv

\* A reader is done at the limit or at the end.
LEMMA ReadersKeepSandboxIInv ==
  ASSUME SandboxIInv, \E s \in Stream : Read(s)
  PROVE  SandboxIInv'
<1>1. SandboxTypeOK'
  BY LimitAssumption DEF SandboxIInv, SandboxTypeOK, Phases, Requests, Read, host, processes,
     Stream
<1>2. PhasesFollowTheParser'
  BY LimitAssumption DEF SandboxIInv, SandboxTypeOK, PhasesFollowTheParser, NoOutcome, Read,
     host, processes, IsProcess, Stream
<1>3. ReadersReadToTheEnd'
  BY LimitAssumption DEF SandboxIInv, SandboxTypeOK, ReadersReadToTheEnd,
     PhasesFollowTheParser, AtEOF, Read, host, processes, IsProcess, Stream
<1>4. DocumentIsBounded'
  BY LimitAssumption DEF SandboxIInv, SandboxTypeOK, DocumentIsBounded, ReadersReadToTheEnd,
     Printable, Read, host, processes, IsContainer, Stream
<1>5. JudgedWhenRead'
  BY LimitAssumption DEF SandboxIInv, SandboxTypeOK, JudgedWhenRead, Completed, Read, host,
     processes, IsProcess, IsContainer, Stream
<1>6. ContainerIsGone'
  BY LimitAssumption DEF SandboxIInv, SandboxTypeOK, ContainerIsGone, PhasesFollowTheParser,
     Read, host, processes, IsProcess, Stream
<1>7. OutcomeIsEarned'
  BY LimitAssumption DEF SandboxIInv, SandboxTypeOK, OutcomeIsEarned, PhasesFollowTheParser,
     ReadersReadToTheEnd, Completed, NoOutcome, Read, host, processes, IsProcess, Stream
<1> QED  BY <1>1, <1>2, <1>3, <1>4, <1>5, <1>6, <1>7 DEF SandboxIInv

\* The host waits for the readers, or says why it does not.
LEMMA PollKeepsSandboxIInv ==
  ASSUME SandboxIInv, Poll \/ WallTimeout
  PROVE  SandboxIInv'
<1>1. /\ phase \in {"polling", "polled"}
      /\ phase' \in {"polling", "polled", "killing", "waiting"}
      /\ UNCHANGED <<request, outcome, processes, streams>>
      /\ phase' = "waiting" => Completed
  BY DEF Poll, PollOverflow, PollRest, ProcessDone, ContainerDone, WallTimeout, IsProcess
<1>2. phase' = "killing" => boundary' # "none"
  BY <1>1 DEF Poll, PollOverflow, PollRest, WallTimeout, OverflowCode
<1>3. /\ boundary' \in {boundary, "PARSER_TIMEOUT", "PARSER_LOG_LIMIT", "PARSER_OUTPUT_LIMIT"}
      /\ boundary' = "PARSER_OUTPUT_LIMIT" /\ boundary' # boundary =>
           IsContainer /\ overflow = "stdout"
  BY DEF Poll, PollOverflow, PollRest, WallTimeout, OverflowCode
<1>4. SandboxTypeOK'
  <2>1. expired' \in BOOLEAN
    BY DEF SandboxIInv, SandboxTypeOK, Poll, PollOverflow, PollRest, WallTimeout
  <2> QED  BY <1>1, <1>3, <2>1 DEF SandboxIInv, SandboxTypeOK, Phases, processes, streams
<1>5. PhasesFollowTheParser'
  BY <1>1 DEF SandboxIInv, PhasesFollowTheParser, IsProcess, processes
<1>6. ReadersReadToTheEnd'
  BY LimitAssumption DEF SandboxIInv, SandboxTypeOK, ReadersReadToTheEnd,
     PhasesFollowTheParser, AtEOF, Poll, PollOverflow, PollRest, WallTimeout, processes,
     streams, IsProcess, IsContainer, Stream
<1>7. DocumentIsBounded'
  BY <1>1, <1>3 DEF SandboxIInv, DocumentIsBounded, Printable, IsContainer, streams
<1>8. JudgedWhenRead'
  BY <1>1, <1>2 DEF JudgedWhenRead, Completed, streams
<1>9. ContainerIsGone'
  BY <1>1 DEF SandboxIInv, ContainerIsGone, processes
<1>10. OutcomeIsEarned'
  BY LimitAssumption DEF SandboxIInv, SandboxTypeOK, OutcomeIsEarned, PhasesFollowTheParser,
     ReadersReadToTheEnd, Completed, NoOutcome, Poll, PollOverflow, PollRest, WallTimeout,
     processes, streams, IsProcess, IsContainer, Stream
<1> QED  BY <1>4, <1>5, <1>6, <1>7, <1>8, <1>9, <1>10 DEF SandboxIInv

\* The container is removed before its client is killed.
LEMMA KillKeepsSandboxIInv ==
  ASSUME SandboxIInv, Kill
  PROVE  SandboxIInv'
<1>0. /\ phase \in {"killing", "removed"} /\ phase' \in {"waiting", "removed", "raised"}
      /\ UNCHANGED <<request, outcome, streams>>
      /\ parser' = parser \/ (parser'.state = "exited" /\ phase' = "waiting")
      /\ helper' \in {helper, "none"}
  BY DEF Kill, KillGroup, RemoveContainer, RemovalTimesOut, KillClient, processes
<1>1. SandboxTypeOK'
  <2>1. /\ parser' \in {parser, [state |-> "exited", exit |-> 137]}
        /\ container' \in {container, "removed"}
        /\ UNCHANGED <<boundary, expired>>
    BY DEF Kill, KillGroup, RemoveContainer, RemovalTimesOut, KillClient, Removal, processes
  <2>2. missed' \in BOOLEAN
    <3>1. missed \in BOOLEAN
      BY DEF SandboxIInv, SandboxTypeOK
    <3> QED  BY <3>1, Zenon DEF Kill, KillGroup, RemoveContainer, RemovalTimesOut, KillClient,
                Removal, processes
  <2> QED  BY <1>0, <2>1, <2>2 DEF SandboxIInv, SandboxTypeOK, Phases, streams
<1>2. PhasesFollowTheParser'
  <2>1. container' = container \/ (container \in {"created",
     "running"} /\ container' = "removed")
    <3>1. CASE RemoveContainer
      BY <3>1 DEF RemoveContainer, Removal
    <3>2. CASE KillGroup \/ RemovalTimesOut \/ KillClient
      BY <3>2 DEF KillGroup, RemovalTimesOut, KillClient, processes
    <3> QED  BY <3>1, <3>2 DEF Kill
  <2> QED  BY <1>0, <2>1 DEF SandboxIInv, PhasesFollowTheParser, IsProcess
<1>3. ReadersReadToTheEnd'
  BY LimitAssumption DEF SandboxIInv, SandboxTypeOK, ReadersReadToTheEnd,
     PhasesFollowTheParser, AtEOF, Kill, KillGroup, RemoveContainer, RemovalTimesOut,
     KillClient, Removal, processes, streams, IsProcess, IsContainer, Stream
<1>4. DocumentIsBounded'
  BY LimitAssumption DEF SandboxIInv, SandboxTypeOK, DocumentIsBounded, ReadersReadToTheEnd,
     Printable, Kill, KillGroup, RemoveContainer, RemovalTimesOut, KillClient, Removal,
     processes, streams, IsProcess, IsContainer, Stream
<1>5. JudgedWhenRead'
  <2>1. boundary # "none" /\ boundary' = boundary
    BY <1>0 DEF SandboxIInv, JudgedWhenRead, Kill, KillGroup, RemoveContainer,
       RemovalTimesOut, KillClient
  <2> QED  BY <1>0, <2>1 DEF JudgedWhenRead
<1>6. ContainerIsGone'
  <2>1. CASE KillGroup
    BY <2>1 DEF SandboxIInv, PhasesFollowTheParser, ContainerIsGone, KillGroup
  <2>2. CASE RemoveContainer
    BY <2>2 DEF SandboxIInv, SandboxTypeOK, ContainerIsGone, RemoveContainer, Removal
  <2>3. CASE RemovalTimesOut
    BY <2>3 DEF SandboxIInv, ContainerIsGone, RemovalTimesOut, processes
  <2>4. CASE KillClient
    BY <2>4 DEF SandboxIInv, ContainerIsGone, KillClient
  <2> QED  BY <2>1, <2>2, <2>3, <2>4 DEF Kill
<1>7. OutcomeIsEarned'
  BY LimitAssumption DEF SandboxIInv, SandboxTypeOK, OutcomeIsEarned, PhasesFollowTheParser,
     ReadersReadToTheEnd, Completed, NoOutcome, Kill, KillGroup, RemoveContainer,
     RemovalTimesOut, KillClient, Removal, processes, streams, IsProcess, IsContainer, Stream
<1> QED  BY <1>1, <1>2, <1>3, <1>4, <1>5, <1>6, <1>7 DEF SandboxIInv

\* Nobody is judged who is not gone.
LEMMA WaitKeepsSandboxIInv ==
  ASSUME SandboxIInv, WaitEnds \/ WaitTimesOut \/ ClosePipes
  PROVE  SandboxIInv'
<1>1. SandboxTypeOK'
  BY LimitAssumption DEF SandboxIInv, SandboxTypeOK, Phases, Requests, WaitEnds, WaitTimesOut,
     ClosePipes, processes, streams, IsProcess, IsContainer, Stream
<1>2. PhasesFollowTheParser'
  BY LimitAssumption DEF SandboxIInv, SandboxTypeOK, PhasesFollowTheParser, NoOutcome,
     WaitEnds, WaitTimesOut, ClosePipes, processes, streams, IsProcess, IsContainer, Stream
<1>3. ReadersReadToTheEnd'
  BY LimitAssumption DEF SandboxIInv, SandboxTypeOK, ReadersReadToTheEnd,
     PhasesFollowTheParser, AtEOF, WaitEnds, WaitTimesOut, ClosePipes, processes, streams,
     IsProcess, IsContainer, Stream
<1>4. DocumentIsBounded'
  BY LimitAssumption DEF SandboxIInv, SandboxTypeOK, DocumentIsBounded, ReadersReadToTheEnd,
     Printable, WaitEnds, WaitTimesOut, ClosePipes, processes, streams, IsProcess,
     IsContainer, Stream
<1>5. JudgedWhenRead'
  BY LimitAssumption DEF SandboxIInv, SandboxTypeOK, JudgedWhenRead, Completed, WaitEnds,
     WaitTimesOut, ClosePipes, processes, streams, IsProcess, IsContainer, Stream
<1>6. ContainerIsGone'
  BY LimitAssumption DEF SandboxIInv, SandboxTypeOK, ContainerIsGone, PhasesFollowTheParser,
     WaitEnds, WaitTimesOut, ClosePipes, processes, streams, IsProcess, IsContainer, Stream
<1>7. OutcomeIsEarned'
  BY LimitAssumption DEF SandboxIInv, SandboxTypeOK, OutcomeIsEarned, PhasesFollowTheParser,
     ReadersReadToTheEnd, Completed, NoOutcome, WaitEnds, WaitTimesOut, ClosePipes, processes,
     streams, IsProcess, IsContainer, Stream
<1> QED  BY <1>1, <1>2, <1>3, <1>4, <1>5, <1>6, <1>7 DEF SandboxIInv
\* _run_staged_parser: what comes before the last test is one failure each.
LEMMA ProcessVerdictIsFounded ==
  ASSUME SandboxIInv, JudgeProcess
  PROVE  /\ outcome'.target = "succeeded" =>
              /\ parser.exit = 0
              /\ boundary = "none"
              /\ IF IsProcess THEN \A s \in Stream : buffer[s] = 0
                              ELSE buffer["stdout"] >= document /\ buffer["stderr"] = 0
         /\ boundary = "PARSER_TIMEOUT" => outcome'.target = "failed_retryable"
         /\ outcome'.code = "PARSER_OUTPUT_LIMIT" => boundary = "PARSER_OUTPUT_LIMIT"
<1>1. PICK file \in {"result", "too_large", "other"}, intact \in BOOLEAN, p \in Envelope :
        LET code == ProcessVerdict(file, intact, p)
        IN  IF code = "none" THEN Succeed ELSE Fail(code, p.retryable)
  BY DEF JudgeProcess
<1> DEFINE code == ProcessVerdict(file, intact, p)
<1>2. code = "none" =>
        /\ boundary = "none" /\ parser.exit = 0
        /\ \A s \in Stream : ~ (buffer[s] > 0)
  BY DEF ProcessVerdict
<1>3. /\ boundary # "none" => code = boundary
      /\ code = "PARSER_OUTPUT_LIMIT" => boundary = "PARSER_OUTPUT_LIMIT"
  BY DEF ProcessVerdict
<1>4. \A s \in Stream : buffer[s] \in Nat
  BY LimitAssumption DEF SandboxIInv, SandboxTypeOK
<1>5. IsProcess
  BY DEF JudgeProcess
<1> HIDE DEF code
<1>6. CASE code = "none"
  <2>1. Succeed
    BY <1>1, <1>6 DEF code
  <2> QED  BY <1>2, <1>3, <1>4, <1>5, <1>6, <2>1 DEF Succeed
<1>7. CASE code # "none"
  <2>1. Fail(code, p.retryable)
    BY <1>1, <1>7 DEF code
  <2> QED  BY <1>3, <1>5, <2>1 DEF Fail, Target, ProcessTarget
<1> QED  BY <1>6, <1>7

\* _execute_staged_sandbox and _convert_approved_execution: the same for the container, where
\* an envelope without an error code is a result.
LEMMA ContainerVerdictIsFounded ==
  ASSUME SandboxIInv, JudgeContainer
  PROVE  /\ outcome'.target = "succeeded" =>
              /\ parser.exit = 0
              /\ boundary = "none"
              /\ IF IsProcess THEN \A s \in Stream : buffer[s] = 0
                              ELSE buffer["stdout"] >= document /\ buffer["stderr"] = 0
         /\ boundary = "PARSER_TIMEOUT" => outcome'.target = "failed_retryable"
         /\ outcome'.code = "PARSER_OUTPUT_LIMIT" => boundary = "PARSER_OUTPUT_LIMIT"
<1>1. PICK p \in Envelope :
        LET code == AdapterVerdict(p)
        IN  IF code = "none" THEN Succeed ELSE Fail(code, p.retryable)
  BY DEF JudgeContainer
<1> DEFINE code == AdapterVerdict(p)
<1>2. ~ p.ok /\ ContainerAccepts(p) => p.code \in ErrorCodes
  BY DEF ContainerAccepts, validate_parser_payload, ContainerFailure
<1>3. p.code \in ErrorCodes => p.code # "none" /\ p.code # "PARSER_OUTPUT_LIMIT"
  BY DEF ErrorCodes
<1>4. /\ ContainerVerdict(p) = "none" =>
           boundary = "none" /\ parser.exit = 0 /\ ~ (buffer["stderr"] > 0) /\ ContainerAccepts(p)
      /\ boundary # "none" => ContainerVerdict(p) = boundary
      /\ ContainerVerdict(p) = "PARSER_OUTPUT_LIMIT" => boundary = "PARSER_OUTPUT_LIMIT"
  BY <1>2, <1>3 DEF ContainerVerdict
<1>5. /\ code = "none" =>
           boundary = "none" /\ parser.exit = 0 /\ ~ (buffer["stderr"] > 0)
             /\ buffer["stdout"] >= document
      /\ boundary # "none" => code = boundary
      /\ code = "PARSER_OUTPUT_LIMIT" => boundary = "PARSER_OUTPUT_LIMIT"
  BY <1>4 DEF AdapterVerdict, ContainerAccepts
<1>6. buffer["stderr"] \in Nat
  BY LimitAssumption DEF SandboxIInv, SandboxTypeOK, Stream
<1>7. ~ IsProcess
  BY DEF JudgeContainer, IsContainer, IsProcess
<1> HIDE DEF code
<1>8. CASE code = "none"
  <2>1. Succeed
    BY <1>1, <1>8 DEF code
  <2> QED  BY <1>5, <1>6, <1>7, <1>8, <2>1 DEF Succeed
<1>9. CASE code # "none"
  <2>1. Fail(code, p.retryable)
    BY <1>1, <1>9 DEF code
  <2> QED  BY <1>5, <1>7, <2>1 DEF Fail, Target, ContainerTarget
<1> QED  BY <1>8, <1>9

\* A verdict of success stands on an exit with code 0 and on readers that are through.
LEMMA JudgeKeepsSandboxIInv ==
  ASSUME SandboxIInv, JudgeProcess \/ JudgeContainer
  PROVE  SandboxIInv'
<1>1. /\ phase = "judging" /\ phase' = "returned"
      /\ UNCHANGED <<request, boundary, expired, processes, streams>>
  BY DEF JudgeProcess, JudgeContainer, Succeed, Fail
<1>2. parser.state = "exited" /\ (boundary = "none" => Completed)
  BY <1>1 DEF JudgeProcess, JudgeContainer, SandboxIInv, PhasesFollowTheParser, JudgedWhenRead
<1>3. SandboxTypeOK'
  BY <1>1 DEF SandboxIInv, SandboxTypeOK, Phases, processes, streams
<1>4. PhasesFollowTheParser'
  BY <1>1, <1>2 DEF SandboxIInv, PhasesFollowTheParser, IsProcess, processes
<1>5. ReadersReadToTheEnd' /\ DocumentIsBounded'
  BY <1>1 DEF SandboxIInv, ReadersReadToTheEnd, DocumentIsBounded, AtEOF, Printable,
     IsContainer, processes, streams
<1>6. JudgedWhenRead' /\ ContainerIsGone'
  BY <1>1 DEF SandboxIInv, JudgedWhenRead, ContainerIsGone, processes
<1>7. /\ outcome'.target = "succeeded" =>
           /\ parser.exit = 0
           /\ boundary = "none"
           /\ IF IsProcess THEN \A s \in Stream : buffer[s] = 0
                           ELSE buffer["stdout"] >= document /\ buffer["stderr"] = 0
      /\ boundary = "PARSER_TIMEOUT" => outcome'.target = "failed_retryable"
      /\ outcome'.code = "PARSER_OUTPUT_LIMIT" => boundary = "PARSER_OUTPUT_LIMIT"
  <2>1. CASE JudgeProcess
    BY <2>1, ProcessVerdictIsFounded
  <2>2. CASE JudgeContainer
    BY <2>2, ContainerVerdictIsFounded
  <2> QED  BY <2>1, <2>2
<1>8. OutcomeIsEarned'
  <2>1. parser = [state |-> "exited", exit |-> parser.exit]
    BY <1>2 DEF SandboxIInv, SandboxTypeOK
  <2>2. UNCHANGED <<request, boundary, parser, reader, buffer, document>>
    BY <1>1 DEF processes, streams
  <2> QED  BY <1>2, <1>7, <2>1, <2>2 DEF OutcomeIsEarned, Completed, IsProcess
<1> QED  BY <1>3, <1>4, <1>5, <1>6, <1>8 DEF SandboxIInv

-------------------------------------------------------------------------------
(* Every extraction *)

\* Nothing has happened before the bytes are staged.
LEMMA StagingIsSound == SandboxInit => SandboxIInv
<1> SUFFICES ASSUME SandboxInit PROVE SandboxIInv
  OBVIOUS
<1>1. SandboxTypeOK
  <2>1. buffer \in [Stream -> 0 .. Limit] /\ written \in [Stream -> Nat]
    BY LimitAssumption DEF SandboxInit
  <2>2. reader \in [Stream -> {"idle", "reading", "done"}]
    BY DEF SandboxInit
  <2> QED  BY <2>1, <2>2 DEF SandboxInit, SandboxTypeOK, Phases
<1>2. PhasesFollowTheParser /\ JudgedWhenRead /\ ContainerIsGone
  BY DEF SandboxInit, PhasesFollowTheParser, JudgedWhenRead, ContainerIsGone
<1>3. ReadersReadToTheEnd /\ DocumentIsBounded
  BY DEF SandboxInit, ReadersReadToTheEnd, DocumentIsBounded, Stream
<1>4. OutcomeIsEarned
  BY DEF SandboxInit, OutcomeIsEarned, NoOutcome
<1> QED  BY <1>1, <1>2, <1>3, <1>4 DEF SandboxIInv

\* Every step of the parser, the daemon, the readers and the host keeps it.
LEMMA SandboxNextKeepsIInv == SandboxIInv /\ [SandboxNext]_sandboxVars => SandboxIInv'
<1> SUFFICES ASSUME SandboxIInv, [SandboxNext]_sandboxVars PROVE SandboxIInv'
  OBVIOUS
<1>1. CASE World
  BY <1>1, ContainerKeepsSandboxIInv, WritingKeepsSandboxIInv, HelpersKeepSandboxIInv,
     ParserKeepsSandboxIInv DEF World
<1>2. CASE Host
  BY <1>2, StartKeepsSandboxIInv, PollKeepsSandboxIInv, KillKeepsSandboxIInv,
     WaitKeepsSandboxIInv, JudgeKeepsSandboxIInv DEF Host, Finish
<1>3. CASE WallTimeout \/ (\E s \in Stream : Read(s))
  BY <1>3, PollKeepsSandboxIInv, ReadersKeepSandboxIInv
<1>4. CASE UNCHANGED sandboxVars
  BY <1>4 DEF sandboxVars, host, processes, streams, SandboxIInv, SandboxTypeOK,
     PhasesFollowTheParser, ReadersReadToTheEnd, DocumentIsBounded, JudgedWhenRead,
     ContainerIsGone, OutcomeIsEarned, AtEOF, Completed, Printable, IsProcess, IsContainer
<1> QED  BY <1>1, <1>2, <1>3, <1>4 DEF SandboxNext, Done

\* The inductive invariant of one extraction.
THEOREM SandboxInductive == SandboxSpec => []SandboxIInv
BY StagingIsSound, SandboxNextKeepsIInv, PTL DEF SandboxSpec

\* Type correctness, for every limit and every set of envelopes.
THEOREM SandboxTypeCorrect == SandboxSpec => []SandboxTypeOK
<1>1. SandboxIInv => SandboxTypeOK
  BY DEF SandboxIInv
<1> QED  BY <1>1, SandboxInductive, PTL

\* execute_sandbox reports a success only of a parser that left by itself with code 0 and
\* whose streams were read to their ends, and never blames one that it stopped for being late.
THEOREM SandboxVerdictIsFair == SandboxSpec => []VerdictIsFair
<1>1. ASSUME SandboxIInv PROVE VerdictIsFair
  <2>1. \A s \in Stream : Completed /\ buffer[s] = 0 => written[s] = 0
    BY <1>1, LimitAssumption DEF SandboxIInv, ReadersReadToTheEnd, Completed
  <2>2. "stderr" \in Stream
    BY DEF Stream
  <2> QED  BY <1>1, <2>1, <2>2 DEF SandboxIInv, OutcomeIsEarned, VerdictIsFair
<1> QED  BY <1>1, SandboxInductive, PTL

\* read_bounded and worker.py agree on the limit but for the newline: a document that is
\* refused as too long has exactly the limit, unless the probe meant to break it.
THEOREM OnlyExactLimitLost == SandboxSpec => []OnlyTheExactLimitIsLost
<1>1. ASSUME SandboxIInv PROVE OnlyTheExactLimitIsLost
  <2> SUFFICES ASSUME outcome.code = "PARSER_OUTPUT_LIMIT", request.probe # "output"
               PROVE  document = Limit
    BY DEF OnlyTheExactLimitIsLost
  <2>1. IsContainer /\ written["stdout"] > Limit
    BY <1>1 DEF SandboxIInv, OutcomeIsEarned, DocumentIsBounded
  <2>2. document + 1 > Limit /\ document > 0
    BY <1>1, <2>1, LimitAssumption DEF SandboxIInv, SandboxTypeOK, DocumentIsBounded
  <2>3. document <= Limit
    BY <1>1, <2>2, LimitAssumption DEF SandboxIInv, SandboxTypeOK, DocumentIsBounded, Printable
  <2> QED  BY <1>1, <2>2, <2>3, LimitAssumption DEF SandboxIInv, SandboxTypeOK
<1> QED  BY <1>1, SandboxInductive, PTL

\* _kill_container: a container outlives the call only if rm came before the client had
\* created it.
THEOREM SurvivorsOnlyFromStartup == SandboxSpec => []SurvivorOnlyFromStartup
<1>1. SandboxIInv => SurvivorOnlyFromStartup
  BY DEF SandboxIInv, PhasesFollowTheParser, ContainerIsGone, SurvivorOnlyFromStartup
<1> QED  BY <1>1, SandboxInductive, PTL

\* _validate_phase1_payload of sandbox_ipc.py accepts all that validate_parser_payload of
\* parser_protocol.py accepts: for every document that has a parser, not only for that of a run.
LEMMA ContainerProtocolIsStricter ==
  ASSUME NEW p, NEW r, r.media \in ContainerMedia, r.parser = ApprovedParser[r.media],
         validate_parser_payload(p, r.source, r.media)
  PROVE  ValidPhase1Payload(p, r)
<1>1. CASE p.ok
  <2>1. ContainerSuccess(p, r.source, r.media) /\ p.json /\ p.header
    BY <1>1 DEF validate_parser_payload
  <2>2. \A i \in DOMAIN p.blocks :
          ProcessAnchor(p.blocks[i].anchor, r, p.profile, p.blocks[i].text)
    BY <2>1 DEF ContainerSuccess, ContainerAnchor, KindOfMedia, ProcessAnchor
  <2>3. ProcessSuccess(p, r)
    BY <2>1, <2>2 DEF ContainerSuccess, ProcessSuccess
  <2> QED  BY <1>1, <2>1, <2>3 DEF ValidPhase1Payload
<1>2. CASE ~ p.ok
  BY <1>2 DEF validate_parser_payload, ValidPhase1Payload, ContainerFailure, ProcessFailure
<1> QED  BY <1>1, <1>2

\* So a consumer may trust either harness with the answers of the other's parsers.
THEOREM ProtocolsAlwaysAgree == SandboxSpec => []ProtocolsAgree
<1>1. ASSUME SandboxIInv PROVE ProtocolsAgree
  <2>1. request.media = Media /\ request.parser = ApprovedParser[Media]
    BY <1>1 DEF SandboxIInv, SandboxTypeOK, Requests
  <2>2. Media \in ContainerMedia
    BY DEF Media, ContainerMedia, AnchorKind
  <2> QED  BY <2>1, <2>2, ContainerProtocolIsStricter DEF ProtocolsAgree
<1> QED  BY <1>1, SandboxInductive, PTL

-------------------------------------------------------------------------------
(* Grounding: what the recursive functions of the retrieval and of the synthesis  *)
(* return.  Each lemma on such a function says that it exists, that a step keeps  *)
(* what is known of it, and so what is known of its value.                        *)

\* The natural numbers are well-founded: a set of them has a least one.
LEMMA LeastNatural ==
  ASSUME NEW S \in SUBSET Nat, S # {}
  PROVE  \E n \in S : \A other \in S : n <= other
<1>1. PICK n \in S : \A other \in S : ~ (<<other, n>> \in OpToRel(<, Nat))
  BY WFMin, NatLessThanWellFounded
<1>2. \A other \in S : ~ (other < n)
  BY <1>1 DEF OpToRel
<1> QED  BY <1>2

\* One step of Sieve.
Sifted(kept, e, S, Same) ==
  IF e \in S /\ \A k \in DOMAIN kept : {kept[k], e} \notin Same THEN Append(kept, e) ELSE kept

\* The recursive function of Sieve, on 0..m.
Sieves(kept, s, S, Same, m) ==
  kept = [n \in 0..m |-> IF n = 0 THEN <<>> ELSE Sifted(kept[n - 1], s[n], S, Same)]

\* The recursive function of Sieve exists.
LEMMA SieveExists ==
  ASSUME NEW s, NEW S, NEW Same, NEW n \in Nat
  PROVE  \E kept : Sieves(kept, s, S, Same, n)
<1> DEFINE Bad == {k \in Nat : ~ \E kept : Sieves(kept, s, S, Same, k)}
<1> SUFFICES ASSUME Bad # {} PROVE FALSE
  OBVIOUS
<1>1. PICK k \in Bad : \A other \in Bad : k <= other
  <2>1. Bad \subseteq Nat
    OBVIOUS
  <2> HIDE DEF Bad
  <2> QED  BY <2>1, LeastNatural
<1>2. CASE k = 0
  <2> DEFINE kept == [i \in 0..0 |-> <<>>]
  <2>1. Sieves(kept, s, S, Same, 0)
    BY DEF Sieves
  <2> QED  BY <1>2, <2>1
<1>3. CASE k # 0
  <2>1. k \in Nat /\ k - 1 \in Nat /\ k - 1 \notin Bad
    <3>1. k \in Nat
      OBVIOUS
    <3>2. k - 1 \in Nat /\ ~ (k <= k - 1)
      BY <1>3, <3>1
    <3> HIDE DEF Bad
    <3> QED  BY <1>1, <3>1, <3>2
  <2>2. PICK h : Sieves(h, s, S, Same, k - 1)
    BY <2>1
  <2> DEFINE kept == [i \in 0..k |-> IF i = k THEN Sifted(h[k - 1], s[k], S, Same) ELSE h[i]]
  <2>3. \A i \in 0..k - 1 : h[i] = IF i = 0 THEN <<>> ELSE Sifted(h[i - 1], s[i], S, Same)
    BY <2>1, <2>2 DEF Sieves
  <2>4. \A i \in 0..k :
          kept[i] = IF i = 0 THEN <<>> ELSE Sifted(kept[i - 1], s[i], S, Same)
    BY <1>3, <2>1, <2>3
  <2>5. kept = [i \in 0..k |-> kept[i]]
    OBVIOUS
  <2> HIDE DEF kept
  <2>6. Sieves(kept, s, S, Same, k)
    BY <2>4, <2>5 DEF Sieves
  <2> QED  BY <2>6
<1> QED  BY <1>2, <1>3

\* What Sieve has made of the first i elements.  It keeps elements of S only, and of every
\* one it met it has kept, at that place or before, the element or one that it repeats.
SievedTo(kept, X, s, S, Same, i) ==
  /\ kept \in Seq(X \cap S)
  /\ Len(kept) <= i
  /\ \A n \in 1..i : s[n] \in S =>
       \E k \in 1..Len(kept) : k <= n /\ (kept[k] = s[n] \/ {kept[k], s[n]} \in Same)

\* One more element keeps what is known of the elements that Sieve has met.
LEMMA StepKeepsSievedTo ==
  ASSUME NEW X, NEW s, NEW S, NEW Same, NEW i \in Nat \ {0}, NEW g,
         s[i] \in X, SievedTo(g, X, s, S, Same, i - 1)
  PROVE  SievedTo(Sifted(g, s[i], S, Same), X, s, S, Same, i)
<1> DEFINE e == s[i]
           kept == Sifted(g, e, S, Same)
<1>1. /\ g \in Seq(X \cap S) /\ Len(g) <= i - 1 /\ DOMAIN g = 1..Len(g) /\ Len(g) \in Nat
      /\ \A n \in 1..(i - 1) : s[n] \in S =>
           \E k \in 1..Len(g) : k <= n /\ (g[k] = s[n] \/ {g[k], s[n]} \in Same)
  <2>1. /\ g \in Seq(X \cap S) /\ Len(g) <= i - 1
        /\ \A n \in 1..(i - 1) : s[n] \in S =>
             \E k \in 1..Len(g) : k <= n /\ (g[k] = s[n] \/ {g[k], s[n]} \in Same)
    BY Zenon DEF SievedTo
  <2>2. DOMAIN g = 1..Len(g) /\ Len(g) \in Nat
    BY <2>1, LenProperties
  <2> QED  BY <2>1, <2>2
<1>2. \A n \in 1..i : n = i \/ n \in 1..(i - 1)
  OBVIOUS
<1>3. e \in X
  OBVIOUS
<1>4. e = s[i]
  OBVIOUS
<1> HIDE DEF e
<1>5. CASE e \in S /\ \A k \in DOMAIN g : {g[k], e} \notin Same
  <2>1. kept = Append(g, e) /\ e \in X \cap S
    BY <1>3, <1>5 DEF Sifted
  <2> HIDE DEF kept
  <2>2. /\ kept \in Seq(X \cap S) /\ Len(kept) = Len(g) + 1
        /\ \A k \in 1..Len(g) : kept[k] = g[k]
        /\ kept[Len(g) + 1] = e
    BY <1>1, <2>1, AppendProperties
  <2>3. Len(g) + 1 \in 1..Len(kept) /\ Len(g) + 1 <= i
    BY <1>1, <2>2
  <2>4. \A n \in 1..(i - 1) : s[n] \in S =>
          \E k \in 1..Len(kept) : k <= n /\ (kept[k] = s[n] \/ {kept[k], s[n]} \in Same)
    <3> SUFFICES ASSUME NEW n \in 1..(i - 1), s[n] \in S
                 PROVE  \E k \in 1..Len(kept) :
                          k <= n /\ (kept[k] = s[n] \/ {kept[k], s[n]} \in Same)
      OBVIOUS
    <3>1. PICK k \in 1..Len(g) : k <= n /\ (g[k] = s[n] \/ {g[k], s[n]} \in Same)
      BY <1>1
    <3>2. k \in 1..Len(kept) /\ kept[k] = g[k]
      BY <1>1, <2>2
    <3> QED  BY <3>1, <3>2
  <2>5. kept[Len(g) + 1] = s[i]
    BY <1>4, <2>2
  <2>6. kept \in Seq(X \cap S) /\ Len(kept) <= i
    BY <2>2, <2>3
  <2> QED
    <3>1. SievedTo(kept, X, s, S, Same, i)
      BY <1>2, <2>3, <2>4, <2>5, <2>6 DEF SievedTo
    <3> QED  BY <1>4, <3>1 DEF kept
<1>6. CASE ~ (e \in S /\ \A k \in DOMAIN g : {g[k], e} \notin Same)
  <2>1. kept = g
    BY <1>6 DEF Sifted
  <2>2. s[i] \in S => \E k \in 1..Len(g) : k <= i /\ {g[k], s[i]} \in Same
    <3> SUFFICES ASSUME e \in S PROVE \E k \in 1..Len(g) : k <= i /\ {g[k], e} \in Same
      BY <1>4
    <3>1. PICK k \in 1..Len(g) : {g[k], e} \in Same
      BY <1>1, <1>6
    <3>2. k <= i
      BY <1>1, <3>1
    <3> QED  BY <3>1, <3>2
  <2>3. Len(g) <= i
    BY <1>1
  <2>4. SievedTo(g, X, s, S, Same, i)
    BY <1>1, <1>2, <2>2, <2>3 DEF SievedTo
  <2> QED  BY <1>4, <2>1, <2>4
<1> QED  BY <1>5, <1>6

\* Sieve is sound: what is known of every step is known of its value.
LEMMA SieveKeeps ==
  ASSUME NEW X, NEW s \in Seq(X), NEW S, NEW Same
  PROVE  SievedTo(Sieve(s, S, Same), X, s, S, Same, Len(s))
<1> DEFINE N == Len(s)
           f == CHOOSE kept : Sieves(kept, s, S, Same, N)
           Sound(i) == SievedTo(f[i], X, s, S, Same, i)
           Bad == {i \in 0..N : ~ Sound(i)}
<1>1. N \in Nat /\ \A i \in 1..N : s[i] \in X
  OBVIOUS
<1>2. Sieve(s, S, Same) = f[N]
  BY DEF Sieve, Sieves, Sifted
<1>3. \A i \in 0..N : f[i] = IF i = 0 THEN <<>> ELSE Sifted(f[i - 1], s[i], S, Same)
  <2>1. \E kept : Sieves(kept, s, S, Same, N)
    BY <1>1, SieveExists
  <2>2. Sieves(f, s, S, Same, N)
    BY <2>1
  <2> HIDE DEF f
  <2> QED  BY <2>2 DEF Sieves
<1> HIDE DEF f, N
<1>4. Sound(0)
  <2>1. f[0] = <<>>
    BY <1>1, <1>3
  <2> QED  BY <2>1 DEF SievedTo
<1>5. ASSUME NEW i \in 1..N, Sound(i - 1) PROVE Sound(i)
  <2>1. i \in Nat \ {0} /\ s[i] \in X /\ f[i] = Sifted(f[i - 1], s[i], S, Same)
    BY <1>1, <1>3
  <2> QED  BY <1>5, <2>1, StepKeepsSievedTo
<1> HIDE DEF Sound
<1>6. Bad = {}
  <2> SUFFICES ASSUME Bad # {} PROVE FALSE
    OBVIOUS
  <2>1. PICK i \in Bad : \A other \in Bad : i <= other
    <3>1. Bad \subseteq Nat
      BY <1>1
    <3> HIDE DEF Bad
    <3> QED  BY <3>1, LeastNatural
  <2>2. i \in 0..N /\ ~ Sound(i)
    OBVIOUS
  <2>3. i # 0
    BY <1>4, <2>2
  <2>4. i \in 1..N /\ i - 1 \in 0..N /\ ~ (i <= i - 1)
    BY <1>1, <2>2, <2>3
  <2>5. ~ Sound(i - 1)
    BY <1>5, <2>2, <2>4
  <2>6. i - 1 \in Bad
    BY <2>4, <2>5
  <2> HIDE DEF Bad
  <2> QED  BY <2>1, <2>4, <2>6
<1>7. Sound(N)
  BY <1>1, <1>6
<1> QED  BY <1>2, <1>7 DEF N, Sound

\* The recursive function of FlattenSeq, on 1..n.
Flattens(g, seqs, n) ==
  g = [i \in 1..n |-> IF i = 1 THEN seqs[i] ELSE g[i - 1] \o seqs[i]]

\* That function exists.
LEMMA FlattenExists ==
  ASSUME NEW seqs, NEW n \in Nat \ {0}
  PROVE  \E g : Flattens(g, seqs, n)
<1> DEFINE Bad == {k \in Nat \ {0} : ~ \E g : Flattens(g, seqs, k)}
<1> SUFFICES ASSUME Bad # {} PROVE FALSE
  OBVIOUS
<1>1. PICK k \in Bad : \A other \in Bad : k <= other
  <2>1. Bad \subseteq Nat
    OBVIOUS
  <2> HIDE DEF Bad
  <2> QED
    BY <2>1, LeastNatural
<1>2. CASE k = 1
  <2> DEFINE g == [i \in 1..1 |-> seqs[i]]
  <2>1. Flattens(g, seqs, 1)
    BY DEF Flattens
  <2> QED
    BY <1>2, <2>1
<1>3. CASE k # 1
  <2>1. k - 1 \in Nat \ {0} /\ k - 1 \notin Bad
    <3>1. k \in Nat \ {0}
      OBVIOUS
    <3>2. k - 1 \in Nat \ {0} /\ ~ (k <= k - 1)
      BY <1>3, <3>1
    <3> HIDE DEF Bad
    <3> QED
      BY <1>1, <3>2
  <2>2. PICK h : Flattens(h, seqs, k - 1)
    BY <2>1
  <2> DEFINE g == [i \in 1..k |-> IF i = k THEN h[k - 1] \o seqs[k] ELSE h[i]]
  <2>3. \A i \in 1..k - 1 : h[i] = IF i = 1 THEN seqs[i] ELSE h[i - 1] \o seqs[i]
    BY <2>1, <2>2 DEF Flattens
  <2>4. \A i \in 1..k : g[i] = IF i = 1 THEN seqs[i] ELSE g[i - 1] \o seqs[i]
    BY <1>1, <1>3, <2>1, <2>3
  <2>5. g = [i \in 1..k |-> g[i]]
    OBVIOUS
  <2> HIDE DEF g
  <2>6. Flattens(g, seqs, k)
    BY <2>4, <2>5 DEF Flattens
  <2> QED
    BY <2>6
<1> QED
  BY <1>2, <1>3

\* What FlattenSeq has made of the first i sequences: every element of theirs is in it, those
\* of the first at their places; sequences of one element or none leave none beyond i.
FlattenedTo(flat, X, seqs, i) ==
  /\ flat \in Seq(X)
  /\ \A h \in 1..i : \A j \in 1..Len(seqs[h]) :
       \E k \in 1..Len(flat) : flat[k] = seqs[h][j] /\ (h = 1 => k = j)
  /\ (\A h \in 1..i : Len(seqs[h]) <= 1) =>
       /\ Len(flat) <= i
       /\ \A h \in 1..i : \A j \in 1..Len(seqs[h]) :
            \E k \in 1..Len(flat) : k <= h /\ flat[k] = seqs[h][j]

\* One more sequence keeps what is known of those that were laid end to end.
LEMMA StepKeepsFlattenedTo ==
  ASSUME NEW X, NEW seqs, NEW i \in Nat \ {0, 1}, NEW g, seqs[i] \in Seq(X),
         FlattenedTo(g, X, seqs, i - 1)
  PROVE  FlattenedTo(g \o seqs[i], X, seqs, i)
<1> DEFINE e == seqs[i]
           flat == g \o e
<1>1. e \in Seq(X) /\ e = seqs[i] /\ Len(e) \in Nat
  BY LenProperties
<1> HIDE DEF e
<1>2. /\ g \in Seq(X)
      /\ \A h \in 1..(i - 1) : \A j \in 1..Len(seqs[h]) :
           \E k \in 1..Len(g) : g[k] = seqs[h][j] /\ (h = 1 => k = j)
      /\ (\A h \in 1..(i - 1) : Len(seqs[h]) <= 1) =>
           /\ Len(g) <= i - 1
           /\ \A h \in 1..(i - 1) : \A j \in 1..Len(seqs[h]) :
                \E k \in 1..Len(g) : k <= h /\ g[k] = seqs[h][j]
  BY Zenon DEF FlattenedTo
<1>3. Len(g) \in Nat
  BY <1>2, LenProperties
<1>4. /\ flat \in Seq(X) /\ Len(flat) = Len(g) + Len(e)
      /\ \A k \in 1..Len(g) + Len(e) : flat[k] = IF k <= Len(g) THEN g[k] ELSE e[k - Len(g)]
  BY <1>1, <1>2, ConcatProperties
<1> HIDE DEF flat
<1>5. \A k \in 1..Len(g) : k \in 1..Len(flat) /\ flat[k] = g[k]
  BY <1>1, <1>3, <1>4
<1>6. \A j \in 1..Len(e) : Len(g) + j \in 1..Len(flat) /\ flat[Len(g) + j] = e[j]
  <2> TAKE j \in 1..Len(e)
  <2>1. /\ Len(g) + j \in 1..Len(g) + Len(e)
        /\ ~ (Len(g) + j <= Len(g)) /\ (Len(g) + j) - Len(g) = j
    BY <1>1, <1>3
  <2> QED  BY <1>4, <2>1
<1>7. \A h \in 1..i : h = i \/ h \in 1..(i - 1)
  OBVIOUS
<1>8. ASSUME NEW h \in 1..i, NEW j \in 1..Len(seqs[h])
      PROVE  \E k \in 1..Len(flat) : flat[k] = seqs[h][j] /\ (h = 1 => k = j)
  <2>1. CASE h = i
    <3>1. j \in 1..Len(e) /\ seqs[h][j] = e[j] /\ h # 1
      BY <1>1, <2>1
    <3> QED  BY <1>6, <3>1
  <2>2. CASE h \in 1..(i - 1)
    <3>1. PICK k \in 1..Len(g) : g[k] = seqs[h][j] /\ (h = 1 => k = j)
      BY <1>2, <2>2
    <3> QED  BY <1>5, <3>1
  <2> QED  BY <1>7, <2>1, <2>2
<1>9. ASSUME \A h \in 1..i : Len(seqs[h]) <= 1
      PROVE  /\ Len(flat) <= i
             /\ \A h \in 1..i : \A j \in 1..Len(seqs[h]) :
                  \E k \in 1..Len(flat) : k <= h /\ flat[k] = seqs[h][j]
  <2>1. (\A h \in 1..(i - 1) : Len(seqs[h]) <= 1) /\ Len(e) <= 1
    BY <1>1, <1>9
  <2>2. Len(flat) <= i
    BY <1>1, <1>2, <1>3, <1>4, <2>1
  <2>3. ASSUME NEW h \in 1..i, NEW j \in 1..Len(seqs[h])
        PROVE  \E k \in 1..Len(flat) : k <= h /\ flat[k] = seqs[h][j]
    <3>1. CASE h = i
      <4>1. j \in 1..Len(e) /\ seqs[h][j] = e[j]
        BY <1>1, <3>1
      <4>2. Len(g) + j \in 1..Len(flat) /\ flat[Len(g) + j] = e[j]
        BY <1>6, <4>1
      <4>3. Len(g) + j <= h
        BY <2>2, <3>1, <4>2, <1>1, <1>3, <1>4
      <4> QED  BY <4>1, <4>2, <4>3
    <3>2. CASE h \in 1..(i - 1)
      <4>1. PICK k \in 1..Len(g) : k <= h /\ g[k] = seqs[h][j]
        BY <1>2, <2>1, <3>2
      <4> QED  BY <1>5, <4>1
    <3> QED  BY <1>7, <3>1, <3>2
  <2> QED  BY <2>2, <2>3
<1>10. FlattenedTo(flat, X, seqs, i)
  BY <1>4, <1>8, <1>9 DEF FlattenedTo
<1> QED  BY <1>1, <1>10 DEF flat

\* FlattenSeq is sound: what is known of every step is known of its value.
LEMMA FlattenKeeps ==
  ASSUME NEW X, NEW seqs \in Seq(Seq(X))
  PROVE  FlattenedTo(FlattenSeq(seqs), X, seqs, Len(seqs))
<1> DEFINE n == Len(seqs)
           f == CHOOSE g : Flattens(g, seqs, n)
           Sound(i) == FlattenedTo(f[i], X, seqs, i)
           Bad == {i \in 1..n : ~ Sound(i)}
<1>1. n \in Nat /\ \A i \in 1..n : seqs[i] \in Seq(X)
  OBVIOUS
<1>2. CASE n = 0
  <2>1. seqs = <<>>
    BY <1>1, <1>2
  <2>2. FlattenSeq(seqs) = <<>>
    BY <1>2, <2>1 DEF FlattenSeq
  <2> QED  BY <1>2, <2>2 DEF FlattenedTo
<1>3. CASE n # 0
  <2>1. FlattenSeq(seqs) = f[n]
    BY <1>3 DEF FlattenSeq, Flattens
  <2>2. \A i \in 1..n : f[i] = IF i = 1 THEN seqs[i] ELSE f[i - 1] \o seqs[i]
    <3>1. \E g : Flattens(g, seqs, n)
      BY <1>1, <1>3, FlattenExists
    <3>2. Flattens(f, seqs, n)
      BY <3>1
    <3> HIDE DEF f
    <3> QED  BY <3>2 DEF Flattens
  <2> HIDE DEF f, n
  <2>3. Sound(1)
    <3>1. f[1] = seqs[1] /\ seqs[1] \in Seq(X)
      BY <1>1, <1>3, <2>2
    <3>2. \A h \in 1..1 : h = 1
      OBVIOUS
    <3>3. Len(seqs[1]) \in Nat
      BY <3>1, LenProperties
    <3>4. FlattenedTo(seqs[1], X, seqs, 1)
      BY <3>1, <3>2, <3>3 DEF FlattenedTo
    <3> QED  BY <3>1, <3>4
  <2>4. ASSUME NEW i \in 1..n, i # 1, Sound(i - 1) PROVE Sound(i)
    <3>1. i \in Nat \ {0, 1}
      BY <1>1, <2>4
    <3>3. f[i] = f[i - 1] \o seqs[i]
      BY <2>2, <2>4, Zenon
    <3>2. seqs[i] \in Seq(X)
      BY <1>1
    <3> QED  BY <2>4, <3>1, <3>2, <3>3, StepKeepsFlattenedTo
  <2> HIDE DEF Sound
  <2>5. Bad = {}
    <3> SUFFICES ASSUME Bad # {} PROVE FALSE
      OBVIOUS
    <3>1. PICK i \in Bad : \A other \in Bad : i <= other
      <4>1. Bad \subseteq Nat
        BY <1>1
      <4> HIDE DEF Bad
      <4> QED  BY <4>1, LeastNatural
    <3>2. i \in 1..n /\ ~ Sound(i)
      OBVIOUS
    <3>3. i # 1
      BY <2>3, <3>2
    <3>4. i - 1 \in 1..n /\ ~ (i <= i - 1)
      BY <1>1, <3>2, <3>3
    <3>5. ~ Sound(i - 1)
      BY <2>4, <3>2, <3>3
    <3>6. i - 1 \in Bad
      BY <3>4, <3>5
    <3> HIDE DEF Bad
    <3> QED  BY <3>1, <3>4, <3>6
  <2>6. Sound(n)
    BY <1>1, <1>3, <2>5
  <2> QED  BY <2>1, <2>6 DEF n, Sound
<1> QED  BY <1>2, <1>3

-------------------------------------------------------------------------------
(* Grounding, the choice of the anchors: every source that has usable ones keeps *)
(* one, whatever the scores, the repetitions and the limits.                      *)

\* Sieve without repetitions is a filter.
LEMMA SieveFilters ==
  ASSUME NEW X, NEW s \in Seq(X), NEW S
  PROVE  Sieve(s, S, {}) \in Seq(X \cap S) /\ ToSet(Sieve(s, S, {})) = ToSet(s) \cap S
<1> DEFINE kept == Sieve(s, S, {})
<1>1. SievedTo(kept, ToSet(s), s, S, {}, Len(s))
  <2>1. s \in Seq(ToSet(s))
    BY DEF ToSet
  <2> QED  BY <2>1, SieveKeeps
<1>2. SievedTo(kept, X, s, S, {}, Len(s))
  BY SieveKeeps
<1> HIDE DEF kept
<1>3. kept \in Seq(X \cap S) /\ kept \in Seq(ToSet(s) \cap S)
  BY <1>1, <1>2 DEF SievedTo
<1>4. ToSet(kept) \subseteq ToSet(s) \cap S
  BY <1>3 DEF ToSet
<1>5. ASSUME NEW n \in 1..Len(s), s[n] \in S PROVE s[n] \in ToSet(kept)
  BY <1>2, <1>3, <1>5 DEF SievedTo, ToSet
<1>6. ToSet(s) \cap S \subseteq ToSet(kept)
  BY <1>5 DEF ToSet
<1> QED  BY <1>3, <1>4, <1>6 DEF kept

\* An anchor that the retrieval may choose.
Usable(a) == a \in Anchors /\ db.anchor[a].pinned /\ db.anchor[a].accepted

\* The rows of the snapshot, and those that the text quality accepts.
LEMMA PinnedRows ==
  Pinned \in Seq(Anchors) /\ ToSet(Pinned) = {a \in Anchors : db.anchor[a].pinned}
<1> DEFINE S == {a \in Anchors : db.anchor[a].pinned}
<1>1. Rows \in Seq(Anchors) /\ ToSet(Rows) = Anchors
  BY GroundingAssumption DEF Anchors
<1>2. Pinned = Sieve(Rows, S, {})
  BY DEF Pinned
<1>3. S \subseteq Anchors
  OBVIOUS
<1> HIDE DEF S
<1>4. Pinned \in Seq(Anchors \cap S) /\ ToSet(Pinned) = Anchors \cap S
  BY <1>1, <1>2, SieveFilters
<1>5. Pinned \in Seq(Anchors) /\ ToSet(Pinned) = S
  BY <1>3, <1>4
<1> QED  BY <1>5 DEF S

\* The eligible rows are the usable anchors, and no others.
LEMMA EligibleRows ==
  Eligible \in Seq(Anchors) /\ \A a : a \in ToSet(Eligible) <=> Usable(a)
<1> DEFINE S == {a \in Anchors : db.anchor[a].accepted}
<1>1. Eligible = Sieve(Pinned, S, {})
  BY DEF Eligible
<1> HIDE DEF S
<1>2. Eligible \in Seq(Anchors \cap S) /\ ToSet(Eligible) = ToSet(Pinned) \cap S
  BY <1>1, PinnedRows, SieveFilters
<1>3. Eligible \in Seq(Anchors)
  BY <1>2
<1> QED  BY <1>2, <1>3, PinnedRows DEF S, Usable

\* The numbers from 1 to n are n.
LEMMA IntervalSize ==
  ASSUME NEW n \in Nat
  PROVE  IsFiniteSet(1..n) /\ Cardinality(1..n) = n
<1> DEFINE S == 1..n
<1>1. IsFiniteSet(S) /\ Cardinality(S) = IF 1 > n THEN 0 ELSE n - 1 + 1
  <2>1. 1 \in Int /\ n \in Int
    OBVIOUS
  <2> QED  BY <2>1, FS_Interval
<1> HIDE DEF S
<1>2. IsFiniteSet(S) /\ Cardinality(S) = n
  BY <1>1
<1> QED  BY <1>2 DEF S

\* The anchors are the elements of a sequence, so there are finitely many.
LEMMA AnchorsAreFinite == IsFiniteSet(Anchors)
<1>1. Rows \in Seq(Anchors) /\ Anchors = ToSet(Rows)
  BY GroundingAssumption DEF Anchors
<1>2. Len(Rows) \in Nat /\ DOMAIN Rows = 1..Len(Rows) /\ Rows \in [1..Len(Rows) -> Anchors]
  BY <1>1, LenProperties
<1>3. Rows \in Surjection(1..Len(Rows), Anchors)
  BY <1>1, <1>2 DEF ToSet, Surjection
<1>4. IsFiniteSet(1..Len(Rows))
  BY <1>2, IntervalSize
<1> QED  BY <1>3, <1>4, FS_Surjection

\* The order of the scores is a strict total one.
LEMMA BeforeIsTotal ==
  ASSUME db \in Databases, NEW a \in Anchors, NEW b \in Anchors
  PROVE  /\ ~ (Before(a, b) /\ Before(b, a))
         /\ a # b => Before(a, b) \/ Before(b, a)
         /\ \A c \in Anchors : Before(a, b) /\ Before(b, c) => Before(a, c)
<1>1. \A e \in Anchors : Index(Rows, e) \in Nat /\ Rows[Index(Rows, e)] = e
  <2> TAKE e \in Anchors
  <2>1. \E i \in DOMAIN Rows : Rows[i] = e
    BY DEF Anchors, ToSet
  <2>2. Index(Rows, e) \in DOMAIN Rows /\ Rows[Index(Rows, e)] = e
    BY <2>1 DEF Index
  <2>3. Rows \in Seq(Anchors)
    BY GroundingAssumption
  <2>4. DOMAIN Rows \subseteq Nat
    BY <2>3
  <2> QED  BY <2>2, <2>4
<1>2. \A e \in Anchors : db.anchor[e].score \in Int
  BY GroundingAssumption
<1>3. a # b => Index(Rows, a) # Index(Rows, b)
  BY <1>1
<1> QED  BY <1>1, <1>2, <1>3 DEF Before

\* The n best of S: all of S, or n of it at least.
LEMMA TopSize ==
  ASSUME db \in Databases, NEW S \in SUBSET Anchors, NEW n \in Nat
  PROVE  Top(S, n) \subseteq S /\ (Top(S, n) = S \/ Cardinality(Top(S, n)) >= n)
<1> DEFINE T == Top(S, n)
           rank(a) == Cardinality({b \in S : Before(b, a)})
           Ranks == {rank(a) : a \in S \ T}
<1>1. T \subseteq S /\ \A a \in S : rank(a) < n => a \in T
  BY DEF Top
<1>2. IsFiniteSet(S) /\ \A U \in SUBSET S : IsFiniteSet(U) /\ Cardinality(U) \in Nat
  BY AnchorsAreFinite, FS_Subset, FS_CardinalityType
<1>3. \A a : rank(a) \in Nat
  BY <1>2
<1> HIDE DEF T
<1>4. SUFFICES ASSUME T # S PROVE Cardinality(T) >= n
  BY <1>1 DEF T
<1>5. PICK a \in S \ T : \A other \in S \ T : rank(a) <= rank(other)
  <2>1. Ranks \subseteq Nat /\ Ranks # {}
    BY <1>1, <1>3, <1>4
  <2>2. PICK r \in Ranks : \A other \in Ranks : r <= other
    <3> HIDE DEF Ranks
    <3> QED  BY <2>1, LeastNatural
  <2> HIDE DEF rank
  <2> QED  BY <2>2
<1>6. {b \in S : Before(b, a)} \subseteq T
  <2> SUFFICES ASSUME NEW b \in S, Before(b, a), b \notin T PROVE FALSE
    OBVIOUS
  <2>1. \A c \in S : Before(c, b) => Before(c, a)
    BY BeforeIsTotal
  <2>2. ~ Before(b, b)
    BY BeforeIsTotal
  <2> DEFINE B == {c \in S : Before(c, b)}
             A == {c \in S : Before(c, a)}
  <2>3. B \subseteq A /\ b \in A /\ b \notin B /\ A \subseteq S
    BY <2>1, <2>2
  <2>4. rank(b) = Cardinality(B) /\ rank(a) = Cardinality(A) /\ rank(a) <= rank(b)
    BY <1>5
  <2> HIDE DEF A, B, rank
  <2>5. IsFiniteSet(A) /\ Cardinality(A) \in Nat /\ Cardinality(B) \in Nat
    BY <1>2, <2>3
  <2>6. Cardinality(B) <= Cardinality(A) /\ (Cardinality(A) = Cardinality(B) => A = B)
    BY <2>3, <2>5, FS_Subset
  <2> QED  BY <2>3, <2>4, <2>5, <2>6
<1>7. rank(a) <= Cardinality(T)
  <2> DEFINE A == {b \in S : Before(b, a)}
  <2>1. A \subseteq T /\ IsFiniteSet(T)
    BY <1>1, <1>2, <1>6
  <2> HIDE DEF A
  <2>2. Cardinality(A) <= Cardinality(T)
    BY <2>1, FS_Subset
  <2> QED  BY <2>2 DEF A
<1>8. ~ (rank(a) < n) /\ rank(a) \in Nat /\ Cardinality(T) \in Nat
  BY <1>1, <1>2, <1>3, <1>5
<1> HIDE DEF rank
<1> QED  BY <1>7, <1>8

\* Anchors of one revision.
SameSource(a, b) == db.anchor[a].rev = db.anchor[b].rev

\* The anchors that are the best of their source in S.
BestOf(S) == {a \in S : \A b \in S \ {a} : SameSource(b, a) => Before(a, b)}

\* Of every source that has anchors in S there is a best one.
LEMMA BestExists ==
  ASSUME db \in Databases, NEW S \in SUBSET Anchors, NEW a \in S
  PROVE  \E b \in BestOf(S) : SameSource(b, a)
<1> DEFINE U == {b \in S : SameSource(b, a)}
<1>1. U \subseteq Anchors /\ a \in U /\ U \subseteq S
  BY DEF SameSource
<1> HIDE DEF U
<1>2. PICK b \in U : b \in Top(U, 1)
  <2>1. Top(U, 1) \subseteq U /\ (Top(U, 1) = U \/ Cardinality(Top(U, 1)) >= 1)
    BY <1>1, TopSize
  <2>2. Top(U, 1) # {}
    BY <1>1, <2>1, FS_EmptySet
  <2> QED  BY <2>1, <2>2
<1>3. {c \in U : Before(c, b)} = {}
  <2> DEFINE A == {c \in U : Before(c, b)}
  <2>1. A \subseteq Anchors /\ Cardinality(A) < 1
    BY <1>1, <1>2 DEF Top
  <2> HIDE DEF A
  <2>2. IsFiniteSet(A) /\ Cardinality(A) \in Nat
    BY <2>1, AnchorsAreFinite, FS_Subset, FS_CardinalityType
  <2>3. A = {}
    BY <2>1, <2>2, FS_EmptySet
  <2> QED  BY <2>3 DEF A
<1>4. \A c \in U \ {b} : Before(b, c)
  <2> TAKE c \in U \ {b}
  <2>1. ~ Before(c, b)
    BY <1>3
  <2> QED  BY <1>1, <1>2, <2>1, BeforeIsTotal
<1>5. \A c \in S : SameSource(c, b) => c \in U
  BY <1>2 DEF U, SameSource
<1>6. b \in BestOf(S) /\ SameSource(b, a)
  BY <1>1, <1>2, <1>4, <1>5 DEF BestOf, U
<1> QED  BY <1>6

\* A set of anchors of different sources.
OfDifferentSources(F) == \A a, b \in F : SameSource(a, b) => a = b

\* No source has two best anchors.
LEMMA BestAreOfDifferentSources ==
  ASSUME db \in Databases, NEW S \in SUBSET Anchors
  PROVE  OfDifferentSources(BestOf(S))
<1> SUFFICES ASSUME NEW a \in BestOf(S), NEW b \in BestOf(S), SameSource(a, b), a # b
             PROVE  FALSE
  BY DEF OfDifferentSources
<1>1. Before(a, b) /\ Before(b, a) /\ a \in Anchors /\ b \in Anchors
  BY DEF BestOf, SameSource
<1> QED  BY <1>1, BeforeIsTotal

\* Anchors of different sources are no more than the sources.
LEMMA SourcesBound ==
  ASSUME db \in Databases, NEW F \in SUBSET Anchors, OfDifferentSources(F)
  PROVE  Cardinality(F) <= Len(Revisions)
<1> DEFINE source == [a \in F |-> db.anchor[a].rev]
           R == ToSet(Revisions)
<1>1. Revisions \in Seq(R) /\ \A a \in F : db.anchor[a].rev \in R
  BY GroundingAssumption
<1>2. Len(Revisions) \in Nat /\ DOMAIN Revisions = 1..Len(Revisions)
  BY <1>1, LenProperties
<1>3. Revisions \in Surjection(1..Len(Revisions), R)
  BY <1>1, <1>2 DEF ToSet, Surjection
<1>4. IsFiniteSet(1..Len(Revisions)) /\ Cardinality(1..Len(Revisions)) = Len(Revisions)
  BY <1>2, IntervalSize
<1>5. source \in Injection(F, R)
  BY <1>1 DEF Injection, IsInjective, OfDifferentSources, SameSource
<1> HIDE DEF source, R
<1>6. IsFiniteSet(R) /\ Cardinality(R) <= Len(Revisions)
  BY <1>3, <1>4, FS_Surjection
<1>7. Cardinality(F) <= Cardinality(R) /\ IsFiniteSet(F)
  BY <1>5, <1>6, FS_Injection
<1>8. Cardinality(F) \in Nat /\ Cardinality(R) \in Nat
  BY <1>6, <1>7, FS_CardinalityType
<1> QED  BY <1>2, <1>6, <1>7, <1>8

\* The anchors that are retrieved are usable, and they are of every source that has usable
\* ones, or of more sources than a summary may make calls.
LEMMA RetrievalSpreads ==
  ASSUME db \in Databases, Eligible # <<>>
  PROVE  LET chosen == retrieve_generation_anchors IN
         /\ chosen \in Seq(Anchors) /\ chosen # <<>>
         /\ \A a \in ToSet(chosen) : Usable(a)
         /\ \/ \A a : Usable(a) => \E b \in ToSet(chosen) : SameSource(b, a)
            \/ \E F \in SUBSET ToSet(chosen) :
                 OfDifferentSources(F) /\ Cardinality(F) > MaxCalls
<1> DEFINE E == ToSet(Eligible)
           best == BestOf(E)
           limit == IF MaxAnchors < Len(Eligible) THEN MaxAnchors ELSE Len(Eligible)
           first == Top(best, limit)
           S == first \cup Top(E \ first, limit - Cardinality(first))
           chosen == Sieve(Eligible, S, {})
<1>1. retrieve_generation_anchors = chosen
  BY DEF retrieve_generation_anchors, BestOf, SameSource
<1>2. Eligible \in Seq(Anchors) /\ \A a : a \in E <=> Usable(a)
  BY EligibleRows
<1>3. /\ Len(Eligible) \in Nat /\ Len(Eligible) # 0 /\ DOMAIN Eligible = 1..Len(Eligible)
      /\ Eligible \in [1..Len(Eligible) -> Anchors]
  BY <1>2, LenProperties, EmptySeq
<1>4. E \subseteq Anchors /\ E # {}
  BY <1>2, <1>3 DEF ToSet, Usable
<1>5. limit \in Nat \ {0} /\ (limit = MaxAnchors \/ limit = Len(Eligible)) /\ MaxAnchors \in Nat
      /\ MaxCalls \in Nat
  BY <1>3, GroundingAssumption
<1>6. best \subseteq E /\ best # {} /\ OfDifferentSources(best)
  <2>1. PICK a \in E : TRUE
    BY <1>4
  <2>2. best # {}
    BY <1>4, <2>1, BestExists
  <2> QED  BY <1>4, <2>2, BestAreOfDifferentSources DEF BestOf
<1>7. first \subseteq best /\ (first = best \/ Cardinality(first) >= limit)
  <2> HIDE DEF best, limit
  <2> QED  BY <1>4, <1>5, <1>6, TopSize
<1>8. chosen \in Seq(Anchors) /\ ToSet(chosen) = E \cap S
  <2> HIDE DEF S
  <2>1. chosen \in Seq(Anchors \cap S) /\ ToSet(chosen) = E \cap S
    BY <1>2, SieveFilters
  <2> HIDE DEF chosen
  <2> QED  BY <2>1
<1>9. first \subseteq ToSet(chosen)
  <2> HIDE DEF chosen, first, best
  <2> QED  BY <1>6, <1>7, <1>8 DEF S
<1> HIDE DEF chosen, S, limit
<1>10. chosen # <<>>
  <2>1. first # {}
    <3>1. Cardinality({}) = 0
      BY FS_EmptySet
    <3>2. ~ (0 >= limit)
      BY <1>5
    <3> HIDE DEF first, best
    <3> QED  BY <1>6, <1>7, <3>1, <3>2
  <2> HIDE DEF first
  <2> QED  BY <1>9, <2>1 DEF ToSet
<1>11. \A a \in ToSet(chosen) : Usable(a)
  BY <1>2, <1>8
<1>12. CASE first = best
  <2> SUFFICES ASSUME NEW a, Usable(a) PROVE \E b \in ToSet(chosen) : SameSource(b, a)
    BY <1>1, <1>8, <1>10, <1>11
  <2>1. a \in E
    BY <1>2
  <2>2. PICK b \in best : SameSource(b, a)
    BY <1>4, <2>1, BestExists
  <2> QED  BY <1>9, <1>12, <2>2
<1>13. CASE first # best
  <2> HIDE DEF best, first, E
  <2>1. IsFiniteSet(E) /\ IsFiniteSet(best) /\ IsFiniteSet(first)
    BY <1>4, <1>6, <1>7, AnchorsAreFinite, FS_Subset
  <2>2. Cardinality(best) \in Nat /\ Cardinality(first) \in Nat /\ Cardinality(E) \in Nat
    BY <2>1, FS_CardinalityType
  <2>3. Cardinality(first) < Cardinality(best) /\ Cardinality(best) <= Cardinality(E)
    BY <1>6, <1>7, <1>13, <2>1, <2>2, FS_Subset
  <2>4. Cardinality(E) <= Len(Eligible)
    <3>1. Eligible \in Surjection(1..Len(Eligible), E)
      BY <1>3 DEF ToSet, Surjection, E
    <3>2. IsFiniteSet(1..Len(Eligible)) /\ Cardinality(1..Len(Eligible)) = Len(Eligible)
      BY <1>3, IntervalSize
    <3> QED  BY <3>1, <3>2, FS_Surjection
  <2>5. Cardinality(first) >= MaxAnchors
    <3>1. Cardinality(first) >= limit
      BY <1>7, <1>13
    <3>2. limit # Len(Eligible)
      BY <1>3, <2>2, <2>3, <2>4, <3>1
    <3> QED  BY <1>5, <3>1, <3>2
  <2>6. Cardinality(best) <= Len(Revisions)
    BY <1>4, <1>6, SourcesBound
  <2>7. MaxCalls < MaxAnchors
    <3>1. Len(Revisions) \in Nat
      BY GroundingAssumption, LenProperties
    <3> QED  BY <1>5, <2>2, <2>3, <2>5, <2>6, <3>1, CapsAssumption
  <2>8. Cardinality(first) > MaxCalls
    BY <1>5, <2>2, <2>5, <2>7
  <2>9. OfDifferentSources(first)
    BY <1>6, <1>7 DEF OfDifferentSources
  <2> QED  BY <1>1, <1>8, <1>9, <1>10, <1>11, <2>8, <2>9
<1> QED  BY <1>12, <1>13

\* The document of a source: its anchors among those that were retrieved, one or more if
\* there are any.
LEMMA DeduplicatedIsOfItsSource ==
  ASSUME NEW anchors \in Seq(Anchors), NEW r
  PROVE  LET doc == Deduplicated(anchors, r) IN
         /\ doc \in Seq(Anchors)
         /\ \A a \in ToSet(doc) : a \in ToSet(anchors) /\ db.anchor[a].rev = r
         /\ \A a \in ToSet(anchors) : db.anchor[a].rev = r => doc # <<>>
<1> DEFINE S == {a \in Anchors : db.anchor[a].rev = r}
           doc == Deduplicated(anchors, r)
<1>1. doc = Sieve(anchors, S, db.duplicates)
  BY DEF Deduplicated
<1>2. anchors \in Seq(ToSet(anchors)) /\ ToSet(anchors) \subseteq Anchors
      /\ DOMAIN anchors = 1..Len(anchors)
  BY DEF ToSet
<1> HIDE DEF doc, S
<1>3. SievedTo(doc, ToSet(anchors), anchors, S, db.duplicates, Len(anchors))
  BY <1>1, <1>2, SieveKeeps
<1>4. doc \in Seq(ToSet(anchors) \cap S)
  BY <1>3 DEF SievedTo
<1>5. doc \in Seq(Anchors)
  BY <1>2, <1>4
<1>6. ToSet(doc) \subseteq ToSet(anchors) \cap S
  BY <1>4 DEF ToSet
<1>7. ASSUME NEW n \in 1..Len(anchors), anchors[n] \in S PROVE doc # <<>>
  <2>1. \E k \in 1..Len(doc) : TRUE
    BY <1>3, <1>7 DEF SievedTo
  <2> QED  BY <2>1
<1>8. ASSUME NEW a \in ToSet(anchors), db.anchor[a].rev = r PROVE doc # <<>>
  <2>1. a \in S
    BY <1>2, <1>8 DEF S
  <2>2. PICK n \in 1..Len(anchors) : anchors[n] = a
    BY <1>2 DEF ToSet
  <2> QED  BY <1>7, <2>1, <2>2
<1> QED  BY <1>5, <1>6, <1>8 DEF S, doc

\* Every anchor of the plan is of a document, and every document of one source.
LEMMA DocumentsHoldTheAnchors ==
  ASSUME db \in Databases, NEW anchors \in Seq(Anchors)
  PROVE  LET plan == Documents(anchors) IN
         /\ plan \in Seq(Seq(Anchors))
         /\ \A d \in DOMAIN plan :
              /\ plan[d] # <<>> /\ ToSet(plan[d]) \subseteq ToSet(anchors)
              /\ \A a, b \in ToSet(plan[d]) : SameSource(a, b)
         /\ \A a \in ToSet(anchors) : \E d \in DOMAIN plan :
              \A b \in ToSet(plan[d]) : SameSource(b, a)
<1> DEFINE grouped == [i \in DOMAIN Revisions |-> Deduplicated(anchors, Revisions[i])]
           G == ToSet(grouped)
           plan == Documents(anchors)
<1>1. plan = Sieve(grouped, G \ {<<>>}, {})
  BY DEF Documents
<1>2. Len(Revisions) \in Nat /\ DOMAIN Revisions = 1..Len(Revisions)
  BY GroundingAssumption, LenProperties
<1>3. \A i \in DOMAIN Revisions : grouped[i] \in Seq(Anchors)
  BY DeduplicatedIsOfItsSource
<1>4. grouped \in Seq(Seq(Anchors)) /\ DOMAIN grouped = DOMAIN Revisions
      /\ Len(grouped) = Len(Revisions)
  BY <1>2, <1>3
<1>5. \A i \in DOMAIN Revisions : grouped[i] = Deduplicated(anchors, Revisions[i])
  OBVIOUS
<1> HIDE DEF grouped, plan, G
<1>6. plan \in Seq(Seq(Anchors) \cap (G \ {<<>>})) /\ ToSet(plan) = G \cap (G \ {<<>>})
  BY <1>1, <1>4, SieveFilters DEF G
<1>7. plan \in Seq(Seq(Anchors))
  BY <1>6
<1>8. ASSUME NEW d \in DOMAIN plan
      PROVE  plan[d] # <<>> /\ \E i \in DOMAIN Revisions : plan[d] = grouped[i]
  BY <1>4, <1>6, <1>8 DEF ToSet, G
<1>9. ASSUME NEW i \in DOMAIN Revisions, grouped[i] # <<>>
      PROVE  \E d \in DOMAIN plan : plan[d] = grouped[i]
  BY <1>4, <1>6, <1>9 DEF ToSet, G
<1>10. ASSUME NEW d \in DOMAIN plan
       PROVE  /\ plan[d] # <<>> /\ ToSet(plan[d]) \subseteq ToSet(anchors)
              /\ \A a, b \in ToSet(plan[d]) : SameSource(a, b)
  <2>1. plan[d] # <<>>
    BY <1>8
  <2>2. PICK i \in DOMAIN Revisions : plan[d] = Deduplicated(anchors, Revisions[i])
    BY <1>5, <1>8
  <2>3. \A a \in ToSet(plan[d]) : a \in ToSet(anchors) /\ db.anchor[a].rev = Revisions[i]
    BY <2>2, DeduplicatedIsOfItsSource
  <2> QED  BY <2>1, <2>3 DEF SameSource
<1>11. ASSUME NEW a \in ToSet(anchors)
       PROVE  \E d \in DOMAIN plan : \A b \in ToSet(plan[d]) : SameSource(b, a)
  <2>1. a \in Anchors
    BY DEF ToSet
  <2>2. PICK i \in DOMAIN Revisions : db.anchor[a].rev = Revisions[i]
    BY <2>1, GroundingAssumption DEF ToSet
  <2>3. grouped[i] # <<>> /\ \A b \in ToSet(grouped[i]) : db.anchor[b].rev = Revisions[i]
    BY <1>5, <2>2, DeduplicatedIsOfItsSource
  <2>4. PICK d \in DOMAIN plan : plan[d] = grouped[i]
    BY <1>9, <2>3
  <2> QED  BY <2>2, <2>3, <2>4 DEF SameSource
<1> QED  BY <1>7, <1>10, <1>11 DEF plan

\* What the plan of an attempt holds: calls with usable anchors, those of a summary each of
\* one source, and one of every source that has usable anchors.
PlanIsSound(k, plan) ==
  /\ plan \in Seq(Seq(Anchors)) /\ plan # <<>>
  /\ \A d \in DOMAIN plan : \A a \in ToSet(plan[d]) : Usable(a)
  /\ k = "summary" =>
       /\ Len(plan) <= MaxCalls
       /\ \A d \in DOMAIN plan : \A a, b \in ToSet(plan[d]) : SameSource(a, b)
       /\ \A a : Usable(a) => \E d \in DOMAIN plan : \A b \in ToSet(plan[d]) : SameSource(b, a)

\* The documents of a summary that is within the limit of calls are a sound plan.
LEMMA SummaryPlanIsSound ==
  ASSUME db \in Databases, Eligible # <<>>,
         NEW plan, plan = Documents(retrieve_generation_anchors), Len(plan) <= MaxCalls
  PROVE  PlanIsSound("summary", plan)
<1> DEFINE anchors == retrieve_generation_anchors
           chosen == ToSet(anchors)
<1>1. /\ anchors \in Seq(Anchors) /\ anchors # <<>> /\ \A a \in chosen : Usable(a)
      /\ \/ \A a : Usable(a) => \E b \in chosen : SameSource(b, a)
         \/ \E F \in SUBSET chosen : OfDifferentSources(F) /\ Cardinality(F) > MaxCalls
  BY RetrievalSpreads
<1> HIDE DEF anchors
<1>2. /\ plan \in Seq(Seq(Anchors))
      /\ \A d \in DOMAIN plan :
           /\ plan[d] # <<>> /\ ToSet(plan[d]) \subseteq chosen
           /\ \A a, b \in ToSet(plan[d]) : SameSource(a, b)
      /\ \A a \in chosen : \E d \in DOMAIN plan : \A b \in ToSet(plan[d]) : SameSource(b, a)
  <2>1. plan = Documents(anchors)
    BY DEF anchors
  <2> QED  BY <1>1, <2>1, DocumentsHoldTheAnchors
<1>3. plan # <<>>
  <2>1. \E a : a \in chosen
    BY <1>1 DEF ToSet
  <2> QED  BY <1>2, <2>1
<1> HIDE DEF chosen
<1>4. ASSUME NEW F \in SUBSET chosen, OfDifferentSources(F), Cardinality(F) > MaxCalls
      PROVE  FALSE
  <2> DEFINE holds(a, d) == \A b \in ToSet(plan[d]) : SameSource(b, a)
             f == [a \in F |-> CHOOSE d \in DOMAIN plan : holds(a, d)]
  <2>1. \A a \in F : f[a] \in DOMAIN plan /\ holds(a, f[a])
    BY <1>2
  <2>2. \A d \in DOMAIN plan : \E c : c \in ToSet(plan[d])
    <3> TAKE d \in DOMAIN plan
    <3>1. plan[d] \in Seq(Anchors) /\ plan[d] # <<>>
      BY <1>2
    <3> QED  BY <3>1 DEF ToSet
  <2>3. Len(plan) \in Nat /\ DOMAIN plan = 1..Len(plan)
    BY <1>2, LenProperties
  <2>4. \A a, b \in F : f[a] = f[b] => a = b
    <3> SUFFICES ASSUME NEW a \in F, NEW b \in F, f[a] = f[b] PROVE a = b
      OBVIOUS
    <3>1. PICK c : c \in ToSet(plan[f[a]])
      BY <2>1, <2>2
    <3>2. SameSource(c, a) /\ SameSource(c, b)
      BY <2>1, <3>1
    <3> QED  BY <1>4, <3>2 DEF OfDifferentSources, SameSource
  <2>5. f \in Injection(F, 1..Len(plan))
    BY <2>1, <2>3, <2>4 DEF Injection, IsInjective
  <2> HIDE DEF f
  <2>6. IsFiniteSet(1..Len(plan)) /\ Cardinality(1..Len(plan)) = Len(plan)
    BY <2>3, IntervalSize
  <2>7. IsFiniteSet(F) /\ Cardinality(F) <= Len(plan)
    BY <2>5, <2>6, FS_Injection
  <2>8. Cardinality(F) \in Nat /\ MaxCalls \in Nat
    BY <2>7, FS_CardinalityType, GroundingAssumption
  <2> QED  BY <1>4, <2>3, <2>7, <2>8
<1>5. \A a : Usable(a) => \E b \in chosen : SameSource(b, a)
  BY <1>1, <1>4
<1>6. ASSUME NEW a, Usable(a)
      PROVE  \E d \in DOMAIN plan : \A b \in ToSet(plan[d]) : SameSource(b, a)
  <2>1. PICK c \in chosen : SameSource(c, a)
    BY <1>5, <1>6
  <2>2. PICK d \in DOMAIN plan : \A b \in ToSet(plan[d]) : SameSource(b, c)
    BY <1>2
  <2> QED  BY <2>1, <2>2 DEF SameSource
<1> QED  BY <1>1, <1>2, <1>3, <1>6 DEF PlanIsSound

\* The one call of a research, with all the anchors, is a sound plan.
LEMMA ResearchPlanIsSound ==
  ASSUME db \in Databases, Eligible # <<>>
  PROVE  PlanIsSound("research", <<retrieve_generation_anchors>>)
<1> DEFINE anchors == retrieve_generation_anchors
<1>1. anchors \in Seq(Anchors) /\ \A a \in ToSet(anchors) : Usable(a)
  BY RetrievalSpreads
<1> HIDE DEF anchors
<1>2. PlanIsSound("research", <<anchors>>)
  BY <1>1 DEF PlanIsSound
<1> QED  BY <1>2 DEF anchors

-------------------------------------------------------------------------------
(* Grounding, the answers and the completion: what the checks of one call let     *)
(* pass, the synthesis and the completion of all of them keep.                    *)

\* A function on 1..n is a sequence of that length.
LEMMA FunctionIsSequence ==
  ASSUME NEW n \in Nat, NEW X, NEW s \in [1..n -> X]
  PROVE  s \in Seq(X) /\ Len(s) = n
OBVIOUS

\* The supports that the checks leave an item of a document.
SupportsOf(doc) == {s \in {summary_support(i) : i \in Items} : s.anchor \in ToSet(doc)}

\* What is known of a call that went well.
IsGroundedSummary(doc, c) ==
  /\ c.state = "grounded"
  /\ c.items \in Seq(SupportsOf(doc)) /\ Len(c.items) \in 1..MaxAnswer

\* The findings are of the document; the checks and the evidence are made of them.
IsGroundedResearch(doc, c) ==
  /\ c.state = "grounded"
  /\ c.findings \in Seq(Findings) /\ c.sources \in Seq(Url)
  /\ \A n \in DOMAIN c.findings : c.findings[n].anchor \in ToSet(doc)
  /\ c.checks = [n \in DOMAIN c.findings |-> fact_check(c.findings[n], c.sources)]
  /\ c.evidence = evidence_rows(c.findings, c.sources)

\* What a future of the pool may hold.
CallIsSound(k, doc, c) ==
  \/ c = [state |-> "queued"]
  \/ c.state \in {"running", "cancelled", "failed", "raised"}
  \/ k = "summary" /\ IsGroundedSummary(doc, c)
  \/ k = "research" /\ IsGroundedResearch(doc, c)

\* Whatever the model answers, ground_live_summary lets only supports of the document pass.
LEMMA SummaryCallIsSound ==
  ASSUME NEW doc, NEW items \in Answers(Items, 1)
  PROVE  CallIsSound("summary", doc, generate_summary(doc, items))
<1> DEFINE supports == [n \in DOMAIN items |-> summary_support(items[n])]
           c == generate_summary(doc, items)
<1>1. PICK n \in 1..MaxAnswer : items \in [1..n -> Items]
  BY DEF Answers
<1>2. CASE c.state = "failed"
  BY <1>2 DEF CallIsSound
<1>3. CASE c = [state |-> "grounded", items |-> supports]
           /\ \A i \in ToSet(items) : {i.id, i.support} \subseteq ToSet(doc)
  <2>1. \A k \in 1..n : supports[k] \in SupportsOf(doc)
    <3> TAKE k \in 1..n
    <3>1. /\ items[k] \in Items /\ items[k] \in ToSet(items)
          /\ supports[k] = summary_support(items[k])
      BY <1>1 DEF ToSet
    <3>2. supports[k].anchor = items[k].support
      BY <3>1 DEF summary_support
    <3> HIDE DEF supports
    <3> QED  BY <1>3, <3>1, <3>2 DEF SupportsOf
  <2>2. supports \in [1..n -> SupportsOf(doc)] /\ n \in Nat
    BY <1>1, <2>1, GroundingAssumption
  <2> HIDE DEF supports, c
  <2>3. supports \in Seq(SupportsOf(doc)) /\ Len(supports) = n
    BY <2>2, FunctionIsSequence
  <2> QED  BY <1>1, <1>3, <2>3 DEF CallIsSound, IsGroundedSummary, c
<1> QED  BY <1>2, <1>3 DEF generate_summary, Failed

\* Whatever the model answers, only findings of the document pass.
LEMMA ResearchCallIsSound ==
  ASSUME NEW doc, NEW findings \in Answers(Findings, 0), NEW sources \in Answers(Url, 0)
  PROVE  CallIsSound("research", doc, generate_research(doc, findings, sources))
<1> DEFINE c == generate_research(doc, findings, sources)
<1>1. findings \in Seq(Findings) /\ sources \in Seq(Url)
  <2>1. PICK n \in 0..MaxAnswer : findings \in [1..n -> Findings]
    BY DEF Answers
  <2>2. PICK m \in 0..MaxAnswer : sources \in [1..m -> Url]
    BY DEF Answers
  <2> QED  BY <2>1, <2>2
<1>2. CASE c.state = "failed"
  BY <1>2 DEF CallIsSound
<1>3. CASE /\ c = [state |-> "grounded", findings |-> findings, sources |-> sources,
                   checks |-> [n \in DOMAIN findings |-> fact_check(findings[n], sources)],
                   evidence |-> evidence_rows(findings, sources)]
           /\ \A f \in ToSet(findings) : f.anchor \in ToSet(doc)
  <2>1. \A n \in DOMAIN findings : findings[n].anchor \in ToSet(doc)
    BY <1>3 DEF ToSet
  <2> QED  BY <1>1, <1>3, <2>1 DEF CallIsSound, IsGroundedResearch
<1> QED  BY <1>2, <1>3 DEF generate_research, Failed

\* The results of n calls, with items of X, one or more each.
ResultsAreOf(X, n, results) ==
  /\ DOMAIN results = 1..n
  /\ \A d \in 1..n : results[d].items \in Seq(X) /\ Len(results[d].items) \in 1..MaxAnswer

\* The first item of every result d is among the first d items.
FirstItemsLead(items, X, n, results) ==
  /\ items \in Seq(X)
  /\ \A d \in 1..n : \E k \in 1..Len(items) : k <= d /\ items[k] = results[d].items[1]

\* The first item of each result has its place in the synthesis before the cap: the round
\* robin begins with the first items, and a repetition takes the place of none.
LEMMA RoundRobinBeginsWithAll ==
  ASSUME NEW X, NEW n \in Nat \ {0}, NEW results, ResultsAreOf(X, n, results)
  PROVE  FirstItemsLead(RoundRobin(results), X, n, results)
<1> DEFINE nth(m) == [d \in 1..n |-> Nth(m, results[d])]
           rounds == [m \in 1..MaxAnswer |-> Round(m, results)]
<1>1. /\ MaxAnswer \in Nat \ {0} /\ DOMAIN results = 1..n
      /\ \A d \in 1..n : results[d].items \in Seq(X) /\ Len(results[d].items) \in 1..MaxAnswer
  BY GroundingAssumption DEF ResultsAreOf
<1>2. \A m \in 1..MaxAnswer : nth(m) \in Seq(Seq(X)) /\ Len(nth(m)) = n
  <2> TAKE m \in 1..MaxAnswer
  <2>1. \A d \in 1..n : Nth(m, results[d]) \in Seq(X)
    <3> TAKE d \in 1..n
    <3>1. results[d].items \in Seq(X) /\ Len(results[d].items) \in Nat
      BY <1>1
    <3>2. m <= Len(results[d].items) => results[d].items[m] \in X
      BY <3>1
    <3> QED  BY <3>2 DEF Nth
  <2>2. nth(m) \in [1..n -> Seq(X)]
    BY <2>1
  <2> HIDE DEF nth
  <2> QED  BY <2>2, FunctionIsSequence
<1>3. \A m \in 1..MaxAnswer : Round(m, results) = FlattenSeq(nth(m))
  BY <1>1 DEF Round
<1> DEFINE firsts == nth(1)
<1>4. \A d \in 1..n : Len(firsts[d]) = 1 /\ firsts[d][1] = results[d].items[1]
  <2> TAKE d \in 1..n
  <2> DEFINE e == results[d].items[1]
  <2>1. firsts[d] = <<e>>
    BY <1>1 DEF Nth
  <2> HIDE DEF firsts, e
  <2>2. Len(firsts[d]) = 1 /\ firsts[d][1] = e
    BY <2>1
  <2> QED  BY <2>2 DEF e
<1> HIDE DEF nth
<1>5. \A m \in 1..MaxAnswer : FlattenedTo(Round(m, results), X, nth(m), n)
  BY <1>2, <1>3, FlattenKeeps
<1>6. rounds \in Seq(Seq(X)) /\ Len(rounds) = MaxAnswer
  <2>1. rounds \in [1..MaxAnswer -> Seq(X)]
    BY <1>5 DEF FlattenedTo
  <2> HIDE DEF rounds
  <2> QED  BY <1>1, <2>1, FunctionIsSequence
<1>7. rounds[1] = Round(1, results)
  BY <1>1
<1>8. RoundRobin(results) = FlattenSeq(rounds)
  BY DEF RoundRobin
<1> HIDE DEF rounds
<1>9. FlattenedTo(RoundRobin(results), X, rounds, MaxAnswer)
  BY <1>6, <1>8, FlattenKeeps
<1>10. ASSUME NEW d \in 1..n
       PROVE  \E k \in 1..Len(RoundRobin(results)) :
                k <= d /\ RoundRobin(results)[k] = results[d].items[1]
  <2>1. (\A h \in 1..n : Len(firsts[h]) <= 1) /\ 1 \in 1..Len(firsts[d])
        /\ firsts[d][1] = results[d].items[1]
    <3> HIDE DEF firsts
    <3>1. firsts[d][1] = results[d].items[1] /\ Len(firsts[d]) = 1
      BY <1>4, Zenon
    <3>2. \A h \in 1..n : Len(firsts[h]) = 1
      BY <1>4, Zenon
    <3>3. \A m : m = 1 => m <= 1 /\ 1 \in 1..m
      OBVIOUS
    <3> QED  BY <3>1, <3>2, <3>3, Zenon
  <2>2. FlattenedTo(rounds[1], X, firsts, n)
    BY <1>1, <1>5, <1>7
  <2>3. PICK j \in 1..Len(rounds[1]) : j <= d /\ rounds[1][j] = results[d].items[1]
    <3> HIDE DEF firsts
    <3> QED  BY <2>1, <2>2 DEF FlattenedTo
  <2>4. PICK k \in 1..Len(RoundRobin(results)) :
          RoundRobin(results)[k] = rounds[1][j] /\ k = j
    BY <1>1, <1>9 DEF FlattenedTo
  <2> QED  BY <2>3, <2>4
<1>11. RoundRobin(results) \in Seq(X)
  BY <1>9 DEF FlattenedTo
<1> QED  BY <1>10, <1>11 DEF FirstItemsLead

\* A repetition leaves its place to an item of its anchor, at that place or before.
LEMMA DistinctKeepsAnchors ==
  ASSUME NEW X, NEW items \in Seq(X)
  PROVE  /\ Distinct(items) \in Seq(X)
         /\ \A n \in 1..Len(items) : \E k \in 1..Len(Distinct(items)) :
              k <= n /\ Distinct(items)[k].anchor = items[n].anchor
<1> DEFINE S == ToSet(items)
           kept == Distinct(items)
<1>1. SievedTo(kept, X, items, S, Signatures(items), Len(items))
  BY SieveKeeps DEF Distinct
<1>2. ASSUME NEW i, NEW j, {i, j} \in Signatures(items) PROVE i.anchor = j.anchor
  <2>1. PICK g \in S, h \in S : {i, j} = {g, h} /\ h.anchor = g.anchor
    BY <1>2 DEF Signatures
  <2> QED  BY <2>1
<1>3. \A n \in 1..Len(items) : items[n] \in S
  BY DEF ToSet
<1> HIDE DEF S, kept
<1>4. kept \in Seq(X)
  <2>1. kept \in Seq(X \cap S)
    BY <1>1 DEF SievedTo
  <2> QED  BY <2>1
<1>5. ASSUME NEW n \in 1..Len(items)
      PROVE  \E k \in 1..Len(kept) : k <= n /\ kept[k].anchor = items[n].anchor
  <2>1. PICK k \in 1..Len(kept) :
          k <= n /\ (kept[k] = items[n] \/ {kept[k], items[n]} \in Signatures(items))
    BY <1>1, <1>3 DEF SievedTo
  <2>2. kept[k].anchor = items[n].anchor
    BY <1>2, <2>1
  <2> QED  BY <2>1, <2>2
<1> QED  BY <1>4, <1>5 DEF kept

\* The sections hold the items that they are made of, and no others.
LEMMA SectionsHoldTheItems ==
  ASSUME NEW X, NEW items \in Seq(X)
  PROVE  /\ Sections(items) \in Seq(X)
         /\ \A n \in 1..Len(items) : \E k \in 1..Len(Sections(items)) :
              Sections(items)[k] = items[n]
<1> DEFINE all == {items[n].heading : n \in DOMAIN items}
           Same == {{h} : h \in all}
           headings == [n \in DOMAIN items |-> items[n].heading]
           H == Headings(items)
           sections == [n \in DOMAIN H |-> Section(items, H[n])]
<1>1. Len(items) \in Nat /\ DOMAIN items = 1..Len(items)
  BY LenProperties
<1>2. headings \in Seq(all) /\ Len(headings) = Len(items)
      /\ \A n \in 1..Len(items) : headings[n] = items[n].heading /\ headings[n] \in all
  BY <1>1
<1>3. H = Sieve(headings, all, Same)
  BY DEF Headings
<1>4. \A g, h : {g, h} \in Same => g = h
  OBVIOUS
<1>5. \A h : Section(items, h) \in Seq(X)
             /\ \A i : i \in ToSet(Section(items, h)) <=> i \in ToSet(items) /\ i.heading = h
  <2> TAKE h
  <2> DEFINE S == {i \in ToSet(items) : i.heading = h}
             section == Section(items, h)
  <2>1. section = Sieve(items, S, {})
    BY DEF Section
  <2> HIDE DEF S, section
  <2>2. section \in Seq(X \cap S) /\ ToSet(section) = ToSet(items) \cap S
    BY <2>1, SieveFilters
  <2>3. section \in Seq(X)
    BY <2>2
  <2> QED  BY <2>2, <2>3 DEF S, section
<1> HIDE DEF headings, all, Same, H
<1>6. SievedTo(H, all, headings, all, Same, Len(items))
  BY <1>2, <1>3, SieveKeeps
<1>7. H \in Seq(all \cap all)
  BY <1>6 DEF SievedTo
<1>8. Len(H) \in Nat /\ DOMAIN H = 1..Len(H)
  BY <1>7, LenProperties
<1>9. ASSUME NEW n \in 1..Len(items) PROVE \E k \in 1..Len(H) : H[k] = items[n].heading
  <2>1. headings[n] = items[n].heading /\ headings[n] \in all
    BY <1>2
  <2>2. \E k \in 1..Len(H) : H[k] = headings[n] \/ {H[k], headings[n]} \in Same
    BY <1>6, <2>1 DEF SievedTo
  <2> QED  BY <1>4, <2>1, <2>2
<1>10. sections \in Seq(Seq(X)) /\ Len(sections) = Len(H)
  <2>1. sections \in [1..Len(H) -> Seq(X)]
    BY <1>5, <1>8
  <2> HIDE DEF sections
  <2> QED  BY <1>8, <2>1, FunctionIsSequence
<1>11. \A k \in 1..Len(H) : sections[k] = Section(items, H[k])
  BY <1>8
<1>12. Sections(items) = FlattenSeq(sections)
  BY DEF Sections, H
<1> HIDE DEF sections
<1>13. FlattenedTo(Sections(items), X, sections, Len(H))
  BY <1>10, <1>12, FlattenKeeps
<1>14. ASSUME NEW n \in 1..Len(items)
       PROVE  \E k \in 1..Len(Sections(items)) : Sections(items)[k] = items[n]
  <2>1. PICK h \in 1..Len(H) : H[h] = items[n].heading
    BY <1>9
  <2>2. items[n] \in ToSet(sections[h]) /\ sections[h] \in Seq(X)
    <3>1. items[n] \in ToSet(items)
      BY <1>1 DEF ToSet
    <3>2. sections[h] = Section(items, H[h])
      BY <1>11
    <3>3. /\ Section(items, H[h]) \in Seq(X)
          /\ items[n] \in ToSet(items) /\ items[n].heading = H[h]
               => items[n] \in ToSet(Section(items, H[h]))
      BY <1>5, Zenon
    <3> QED  BY <2>1, <3>1, <3>2, <3>3, Zenon
  <2>3. PICK j \in 1..Len(sections[h]) : sections[h][j] = items[n]
    BY <2>2 DEF ToSet
  <2> QED  BY <1>13, <2>3 DEF FlattenedTo
<1> QED  BY <1>13, <1>14 DEF FlattenedTo

\* What the items of a summary may be.
SupportsOfPlan(plan) ==
  {s \in {summary_support(i) : i \in Items} : \E d \in DOMAIN plan : s.anchor \in ToSet(plan[d])}

\* The summary has an item of every document, and none of another.
LEMMA SummaryHoldsAllDocuments ==
  ASSUME NEW plan \in Seq(Seq(Anchors)), plan # <<>>, Len(plan) <= MaxCalls,
         NEW results, DOMAIN results = DOMAIN plan,
         \A d \in DOMAIN plan : IsGroundedSummary(plan[d], results[d])
  PROVE  LET items == Sections(Synthesized(results)) IN
         /\ items \in Seq(SupportsOfPlan(plan)) /\ items # <<>>
         /\ \A d \in DOMAIN plan : \E k \in DOMAIN items : items[k].anchor \in ToSet(plan[d])
<1> DEFINE X == SupportsOfPlan(plan)
           n == Len(plan)
           merged == RoundRobin(results)
           distinct == Distinct(merged)
           last == IF MaxItems < Len(distinct) THEN MaxItems ELSE Len(distinct)
           capped == SubSeq(distinct, 1, last)
           items == Sections(capped)
<1>1. n \in Nat \ {0} /\ DOMAIN plan = 1..n /\ MaxCalls \in Nat /\ MaxItems \in Nat
  BY GroundingAssumption, LenProperties, EmptySeq
<1>2. \A d \in 1..n : results[d].items \in Seq(X) /\ Len(results[d].items) \in 1..MaxAnswer
                      /\ results[d].items[1].anchor \in ToSet(plan[d])
  <2> TAKE d \in 1..n
  <2>1. results[d].items \in Seq(SupportsOf(plan[d])) /\ Len(results[d].items) \in 1..MaxAnswer
    BY <1>1 DEF IsGroundedSummary
  <2>2. SupportsOf(plan[d]) \subseteq X
    BY <1>1 DEF SupportsOf, SupportsOfPlan
  <2> HIDE DEF X
  <2>3. results[d].items \in Seq(X)
    BY <2>1, <2>2, SeqMonotonic
  <2>4. 1 \in 1..Len(results[d].items)
    BY <2>1, GroundingAssumption
  <2>5. results[d].items[1] \in SupportsOf(plan[d])
    BY <2>1, <2>4, ElementOfSeq
  <2> QED  BY <2>1, <2>3, <2>5 DEF SupportsOf
<1> HIDE DEF X
<1>3. /\ merged \in Seq(X)
      /\ \A d \in 1..n : \E k \in 1..Len(merged) : k <= d /\ merged[k] = results[d].items[1]
  <2>1. n \in Nat \ {0} /\ ResultsAreOf(X, n, results)
    BY <1>1, <1>2 DEF ResultsAreOf
  <2>2. FirstItemsLead(RoundRobin(results), X, n, results)
    <3> HIDE DEF n
    <3> QED  BY <2>1, RoundRobinBeginsWithAll
  <2> QED  BY <2>2 DEF FirstItemsLead
<1> HIDE DEF merged
<1>4. /\ distinct \in Seq(X)
      /\ \A m \in 1..Len(merged) : \E k \in 1..Len(distinct) :
           k <= m /\ distinct[k].anchor = merged[m].anchor
  BY <1>3, DistinctKeepsAnchors
<1> HIDE DEF distinct
<1>5. Len(distinct) \in Nat /\ \A k \in 1..Len(distinct) : distinct[k] \in X
  BY <1>4
<1>6. /\ last \in Nat /\ last <= Len(distinct)
      /\ \A k \in 1..Len(distinct) : k <= MaxItems => k <= last
  BY <1>1, <1>5
<1> HIDE DEF last
<1>7. capped \in Seq(X) /\ Len(capped) = last /\ \A k \in 1..last : capped[k] = distinct[k]
  <2>1. \A k \in 1..last : distinct[k] \in X
    BY <1>5, <1>6
  <2>2. /\ capped \in Seq(X)
        /\ Len(capped) = IF 1 <= last THEN last - 1 + 1 ELSE 0
        /\ \A k \in 1..(last - 1 + 1) : capped[k] = distinct[1 + k - 1]
    BY <1>6, <2>1, SubSeqProperties
  <2> HIDE DEF capped
  <2>3. \A k \in 1..last : 1 + k - 1 = k /\ k \in 1..(last - 1 + 1)
    BY <1>6
  <2> QED  BY <1>6, <2>2, <2>3
<1>8. Synthesized(results) = capped
  BY DEF Synthesized, capped, last, distinct, merged
<1> HIDE DEF capped
<1>9. /\ items \in Seq(X)
      /\ \A m \in 1..Len(capped) : \E k \in 1..Len(items) : items[k] = capped[m]
  BY <1>7, SectionsHoldTheItems
<1> HIDE DEF items
<1>10. DOMAIN items = 1..Len(items)
  BY <1>9, LenProperties
<1>11. ASSUME NEW d \in DOMAIN plan
       PROVE  \E k \in DOMAIN items : items[k].anchor \in ToSet(plan[d])
  <2>1. PICK m \in 1..Len(merged) : m <= d /\ merged[m] = results[d].items[1]
    BY <1>1, <1>3
  <2>2. PICK k \in 1..Len(distinct) : k <= m /\ distinct[k].anchor = merged[m].anchor
    BY <1>4
  <2>3. k \in 1..last
    <3>1. k <= d /\ d <= MaxCalls /\ MaxCalls <= MaxItems
      BY <1>1, <1>5, <2>1, <2>2, CapsAssumption
    <3> QED  BY <1>1, <1>5, <1>6, <3>1
  <2>4. PICK j \in 1..Len(items) : items[j] = capped[k]
    BY <1>7, <1>9, <2>3
  <2>5. items[j].anchor = results[d].items[1].anchor
    BY <1>7, <2>1, <2>2, <2>3, <2>4
  <2> QED  BY <1>1, <1>2, <1>10, <2>4, <2>5
<1>12. items # <<>>
  <2>1. 1 \in DOMAIN plan
    BY <1>1
  <2>2. \E k \in DOMAIN items : TRUE
    BY <1>11, <2>1
  <2> QED  BY <2>2
<1> QED  BY <1>8, <1>9, <1>11, <1>12 DEF X, items

\* GenerationCompletion accepts a summary with an item.
LEMMA SummaryIsValid ==
  ASSUME NEW X, NEW items \in Seq(X), items # <<>>
  PROVE  CompletionIsValid("summary", SummaryRows(items, items))
<1> DEFINE c == SummaryRows(items, items)
           n == Len(items)
<1>1. n \in Nat \ {0} /\ DOMAIN items = 1..n
  BY LenProperties, EmptySeq
<1>2. /\ c.segments = [k \in 1..n |-> items[k].text]
      /\ c.citations = [k \in 1..n |-> SourceCitation(k, items[k].anchor)]
      /\ c.evidence = {} /\ c.claims = <<>>
  BY <1>1 DEF SummaryRows
<1> HIDE DEF c, n
<1>3. \A k \in 1..n : /\ c.citations[k].segment + 1 = k /\ c.citations[k].segment = k - 1
                      /\ c.citations[k].type = "source_anchor"
  BY <1>1, <1>2 DEF SourceCitation
<1>4. c.segments # <<>>
  BY <1>1, <1>2
<1>5. IsInjective(c.citations)
  <2>1. \A j, k \in 1..n : c.citations[j] = c.citations[k] => j = k
    BY <1>1, <1>3
  <2> QED  BY <1>2, <2>1 DEF IsInjective
<1>6. DOMAIN c.segments = 1..n /\ DOMAIN c.citations = 1..n
  BY <1>2
<1>7. {c.citations[k].segment + 1 : k \in DOMAIN c.citations} = DOMAIN c.segments
  BY <1>3, <1>6
<1>8. CompletionIsValid("summary", c)
  BY <1>2, <1>3, <1>4, <1>5, <1>6, <1>7 DEF CompletionIsValid
<1> QED  BY <1>8 DEF c

\* The name of a page is one of the names that the search returned.
LEMMA CanonicalIsSearched ==
  ASSUME NEW sources \in Seq(Url), NEW u, Searched(u, sources)
  PROVE  Canonical(u, sources) \in ToSet(sources)
<1> DEFINE Same == {i \in DOMAIN sources : Page[sources[i]] = Page[u]}
           n == Len(sources)
           Rest == {n - i : i \in Same}
<1>1. n \in Nat /\ DOMAIN sources = 1..n
  BY LenProperties
<1>2. Same # {} /\ Same \subseteq 1..n
  BY <1>1 DEF Searched, ToSet
<1>3. PICK i \in Same : \A j \in Same : j <= i
  <2>1. Rest \subseteq Nat /\ Rest # {}
    BY <1>1, <1>2
  <2>2. PICK r \in Rest : \A other \in Rest : r <= other
    <3> HIDE DEF Rest
    <3> QED  BY <2>1, LeastNatural
  <2>3. PICK i \in Same : r = n - i
    BY <2>2
  <2>4. ASSUME NEW j \in Same PROVE j <= i
    <3>1. n - j \in Rest
      OBVIOUS
    <3>2. r <= n - j /\ i \in Nat /\ j \in Nat
      <4> HIDE DEF Rest, Same
      <4> QED  BY <1>1, <1>2, <2>2, <3>1
    <3> QED  BY <1>1, <2>3, <3>2
  <2> QED  BY <2>4
<1>4. \E k \in DOMAIN sources : /\ Page[sources[k]] = Page[u]
                               /\ \A j \in DOMAIN sources : Page[sources[j]] = Page[u] => j <= k
  BY <1>3
<1>5. \E k \in DOMAIN sources : Canonical(u, sources) = sources[k]
  BY <1>4 DEF Canonical
<1> QED  BY <1>5 DEF ToSet

\* What fact_check leaves of a finding.
LEMMA FactChecked ==
  ASSUME NEW finding \in Findings, NEW sources \in Seq(Url)
  PROVE  LET check == fact_check(finding, sources) IN
         /\ check.anchor = finding.anchor
         /\ Unsearched(finding, sources) => check.verdict = "unverifiable" /\ check.evidence = <<>>
         /\ DOMAIN check.evidence = 1..Len(check.evidence) /\ Len(check.evidence) \in Nat
         /\ \A e \in DOMAIN check.evidence :
              e \in DOMAIN finding.urls /\ Searched(finding.urls[e], sources)
              /\ check.evidence[e] = Canonical(finding.urls[e], sources)
<1>1. finding.urls \in Seq(Url)
  BY GroundingAssumption
<1>2. Len(finding.urls) \in Nat /\ DOMAIN finding.urls = 1..Len(finding.urls)
  BY <1>1, LenProperties
<1>3. CASE Unsearched(finding, sources)
  BY <1>3 DEF fact_check
<1>4. CASE ~ Unsearched(finding, sources)
  <2> DEFINE evidence == [n \in DOMAIN finding.urls |-> Canonical(finding.urls[n], sources)]
  <2>1. fact_check(finding, sources) =
          [anchor |-> finding.anchor, verdict |-> finding.verdict, evidence |-> evidence]
    BY <1>4 DEF fact_check
  <2>2. \A e \in DOMAIN evidence : Searched(finding.urls[e], sources)
    BY <1>4 DEF Unsearched
  <2>3. DOMAIN evidence = 1..Len(evidence) /\ Len(evidence) \in Nat
    BY <1>2
  <2>4. \A e \in DOMAIN evidence :
          e \in DOMAIN finding.urls /\ evidence[e] = Canonical(finding.urls[e], sources)
    OBVIOUS
  <2> HIDE DEF evidence
  <2> QED  BY <1>4, <2>1, <2>2, <2>3, <2>4
<1> QED  BY <1>3, <1>4

\* The citations of the segment that explains the finding n.
OfFinding(c, n, citation) ==
  \/ citation = SourceCitation(n, c.findings[n].anchor)
  \/ /\ ~ Unsearched(c.findings[n], c.sources)
     /\ \E e \in DOMAIN c.findings[n].urls :
          /\ Searched(c.findings[n].urls[e], c.sources)
          /\ citation = WebCitation(n, Canonical(c.findings[n].urls[e], c.sources))

\* Every citation of a research document is of the segment of a finding.
LEMMA ResearchCites ==
  ASSUME NEW doc, NEW c, IsGroundedResearch(doc, c)
  PROVE  LET completion == _research_completion(c) IN
         /\ DOMAIN completion.segments = DOMAIN c.findings
         /\ DOMAIN completion.claims = DOMAIN c.findings
         /\ DOMAIN c.findings = 1..Len(c.findings) /\ Len(c.findings) \in Nat
         /\ \A m \in DOMAIN completion.citations : \E n \in DOMAIN c.findings :
              OfFinding(c, n, completion.citations[m])
<1> DEFINE source(n) == SourceCitation(n, c.checks[n].anchor)
           web(n) == [e \in DOMAIN c.checks[n].evidence |-> WebCitation(n, c.checks[n].evidence[e])]
           cited == [n \in DOMAIN c.checks |-> <<source(n)>> \o web(n)]
           X == UNION {{source(n)} \cup {WebCitation(n, c.checks[n].evidence[e]) :
                                           e \in DOMAIN c.checks[n].evidence} :
                         n \in DOMAIN c.findings}
           N == Len(c.findings)
           completion == _research_completion(c)
<1>1. /\ c.findings \in Seq(Findings) /\ c.sources \in Seq(Url)
      /\ c.checks = [n \in DOMAIN c.findings |-> fact_check(c.findings[n], c.sources)]
  BY DEF IsGroundedResearch
<1>2. N \in Nat /\ DOMAIN c.findings = 1..N /\ DOMAIN c.checks = 1..N
      /\ \A n \in 1..N : c.findings[n] \in Findings
                         /\ c.checks[n] = fact_check(c.findings[n], c.sources)
  BY <1>1, LenProperties
<1>3. /\ completion.citations = FlattenSeq(cited)
      /\ DOMAIN completion.segments = 1..N /\ DOMAIN completion.claims = 1..N
  BY <1>2 DEF _research_completion
<1>4. \A n \in 1..N : /\ c.checks[n].anchor = c.findings[n].anchor
                      /\ DOMAIN c.checks[n].evidence = 1..Len(c.checks[n].evidence)
                      /\ Len(c.checks[n].evidence) \in Nat
  BY <1>1, <1>2, FactChecked
<1>5. \A x \in X : \E n \in 1..N : OfFinding(c, n, x)
  <2> SUFFICES ASSUME NEW n \in 1..N,
                      NEW x \in {source(n)} \cup {WebCitation(n, c.checks[n].evidence[e]) :
                                                    e \in DOMAIN c.checks[n].evidence}
               PROVE  OfFinding(c, n, x)
    BY <1>2
  <2>1. CASE x = source(n)
    BY <1>4, <2>1 DEF OfFinding
  <2>2. CASE \E e \in DOMAIN c.checks[n].evidence : x = WebCitation(n, c.checks[n].evidence[e])
    <3>1. PICK e \in DOMAIN c.checks[n].evidence : x = WebCitation(n, c.checks[n].evidence[e])
      BY <2>2
    <3> DEFINE finding == c.findings[n]
               check == fact_check(finding, c.sources)
    <3>2. finding \in Findings /\ c.checks[n] = check
      BY <1>2
    <3>3. e \in DOMAIN check.evidence /\ x = WebCitation(n, check.evidence[e])
      BY <3>1, <3>2
    <3> HIDE DEF finding
    <3>4. e \in DOMAIN finding.urls /\ Searched(finding.urls[e], c.sources)
          /\ check.evidence[e] = Canonical(finding.urls[e], c.sources)
          /\ ~ Unsearched(finding, c.sources)
      BY <1>1, <3>2, <3>3, FactChecked
    <3> HIDE DEF check
    <3> QED  BY <3>3, <3>4 DEF OfFinding, finding
  <2> QED  BY <2>1, <2>2
<1>6. \A n \in 1..N : cited[n] \in Seq(X)
  <2> TAKE n \in 1..N
  <2> DEFINE s == source(n)
             w == web(n)
             E == DOMAIN c.checks[n].evidence
             k == Len(c.checks[n].evidence)
  <2>1. s \in X /\ \A e \in E : WebCitation(n, c.checks[n].evidence[e]) \in X
    BY <1>2
  <2>2. cited[n] = <<s>> \o w
    BY <1>2
  <2>3. E = 1..k /\ k \in Nat
    BY <1>4
  <2> HIDE DEF X, cited, s
  <2>4. w \in [1..k -> X]
    BY <2>1, <2>3
  <2> HIDE DEF w, k
  <2>5. w \in Seq(X)
    BY <2>3, <2>4, FunctionIsSequence
  <2>6. <<s>> \in Seq(X)
    BY <2>1
  <2> QED  BY <2>2, <2>5, <2>6, ConcatProperties
<1> HIDE DEF X, completion
<1>7. cited \in Seq(Seq(X)) /\ Len(cited) = N
  <2>1. cited \in [1..N -> Seq(X)]
    BY <1>2, <1>6
  <2> HIDE DEF cited, N
  <2> QED  BY <1>2, <2>1, FunctionIsSequence
<1> HIDE DEF cited
<1>8. FlattenedTo(completion.citations, X, cited, N)
  BY <1>3, <1>7, FlattenKeeps
<1>9. completion.citations \in Seq(X)
  BY <1>8 DEF FlattenedTo
<1>10. \A m \in DOMAIN completion.citations : completion.citations[m] \in X
  BY <1>9
<1> QED  BY <1>2, <1>3, <1>5, <1>10 DEF completion

\* GenerationCompletion accepts every research document.
LEMMA ResearchIsValid ==
  ASSUME NEW doc, NEW c, IsGroundedResearch(doc, c)
  PROVE  CompletionIsValid("research", _research_completion(c))
<1> DEFINE completion == _research_completion(c)
<1>1. /\ DOMAIN completion.segments = DOMAIN c.findings
      /\ DOMAIN completion.claims = DOMAIN c.findings
      /\ DOMAIN c.findings = 1..Len(c.findings) /\ Len(c.findings) \in Nat
      /\ \A m \in DOMAIN completion.citations : \E n \in DOMAIN c.findings :
           OfFinding(c, n, completion.citations[m])
  BY ResearchCites
<1>2. completion.evidence = c.evidence /\ c.evidence = evidence_rows(c.findings, c.sources)
  BY DEF _research_completion, IsGroundedResearch
<1> HIDE DEF completion
<1>3. web_evidence(c.findings, c.sources) \subseteq c.evidence
  BY <1>2 DEF evidence_rows
<1>4. ASSUME NEW m \in DOMAIN completion.citations
      PROVE  /\ completion.citations[m].segment + 1 \in DOMAIN completion.segments
             /\ completion.citations[m].type = "web_evidence" =>
                  completion.citations[m].target \in completion.evidence
  <2>1. PICK n \in DOMAIN c.findings : OfFinding(c, n, completion.citations[m])
    BY <1>1
  <2>2. n \in Nat
    BY <1>1
  <2>3. CASE completion.citations[m] = SourceCitation(n, c.findings[n].anchor)
    BY <1>1, <2>2, <2>3 DEF SourceCitation
  <2>4. CASE \E e \in DOMAIN c.findings[n].urls :
               /\ Searched(c.findings[n].urls[e], c.sources)
               /\ completion.citations[m] = WebCitation(n, Canonical(c.findings[n].urls[e], c.sources))
    <3>1. PICK e \in DOMAIN c.findings[n].urls :
            /\ Searched(c.findings[n].urls[e], c.sources)
            /\ completion.citations[m] = WebCitation(n, Canonical(c.findings[n].urls[e], c.sources))
      BY <2>4
    <3> DEFINE u == c.findings[n].urls[e]
    <3>2. u \in UNION {ToSet(f.urls) : f \in ToSet(c.findings)}
      BY DEF ToSet
    <3>3. /\ Searched(u, c.sources)
          /\ completion.citations[m] = WebCitation(n, Canonical(u, c.sources))
      BY <3>1
    <3> HIDE DEF u
    <3>4. Canonical(u, c.sources) \in c.evidence
      BY <1>3, <3>2, <3>3 DEF web_evidence
    <3> QED  BY <1>1, <1>2, <2>2, <3>3, <3>4 DEF WebCitation
  <2> QED  BY <2>1, <2>3, <2>4 DEF OfFinding
<1>5. completion.claims # <<>> => completion.evidence # {}
  <2>1. c.findings # <<>> => c.evidence # {}
    BY <1>2 DEF evidence_rows
  <2>2. completion.claims # <<>> => c.findings # <<>>
    <3> SUFFICES ASSUME c.findings = <<>> PROVE completion.claims = <<>>
      OBVIOUS
    <3>1. completion.claims = [n \in {} |-> [anchor |-> c.checks[n].anchor,
                                             verdict |-> c.checks[n].verdict]]
      BY <1>1 DEF _research_completion, completion
    <3> QED  BY <3>1
  <2> QED  BY <1>2, <2>1, <2>2
<1>6. CompletionIsValid("research", completion)
  BY <1>4, <1>5 DEF CompletionIsValid
<1> QED  BY <1>6 DEF completion

-------------------------------------------------------------------------------
(* Grounding, the attempt: however the threads of the pool are scheduled.         *)

\* The stages of an attempt.
Stages == {"claimed", "calling", "draining", "executed", "stored", "refused"}

\* There is one future for each call, and the results are yielded one after the other.
GroundingTypeOK ==
  /\ db \in Databases /\ kind \in Kinds /\ stage \in Stages
  /\ docs \in Seq(Seq(Anchors))
  /\ call \in [DOMAIN docs -> {call[d] : d \in DOMAIN docs}]
  /\ next \in 1..Len(docs) + 1

\* The calls are those of the plan, and what a call holds is what the checks let pass.
CallsFollowThePlan ==
  /\ stage = "claimed" => docs = <<>>
  /\ stage \in {"calling", "draining"} => docs # <<>>
  /\ stage \notin {"calling", "draining"} => \A d \in DOMAIN docs : call[d].state # "running"
  /\ docs # <<>> => PlanIsSound(kind, docs)
  /\ \A d \in DOMAIN docs : CallIsSound(kind, docs[d], call[d])

\* All the results before the next one were yielded.
YieldedInOrder == \A d \in 1..next - 1 : call[d].state = "grounded"

\* How the execution ended: with the failure of the first document that failed, or with
\* what is made of the results of all of them.
ExecutionIsEarned ==
  /\ stage = "draining" =>
       /\ next \in DOMAIN docs /\ execution = call[next]
       /\ execution.state \in {"failed", "raised"}
  /\ stage \in {"executed", "stored", "refused"} =>
       \/ docs = <<>> /\ execution.state = "failed"
       \/ /\ next \in DOMAIN docs /\ execution = call[next]
          /\ execution.state \in {"failed", "raised"}
       \/ /\ docs # <<>> /\ next = Len(docs) + 1
          /\ execution = Concluded(kind, call) /\ execution.state = "succeeded"
  /\ stage \in {"claimed", "calling"} => execution = Undecided

\* What is stored is the completion that the tables accepted, and refused if they did not.
RowsAreOfTheExecution ==
  /\ stage \in {"stored", "refused"} => execution.state = "succeeded"
  /\ stage = "stored" => rows = execution.completion /\ TablesAccept(execution.completion)
  /\ stage = "refused" => ~ TablesAccept(execution.completion)

\* The inductive invariant: the checks of each call, the order of executor.map and the
\* completion are what the later steps of the attempt rely on.
GroundingIInv ==
  /\ GroundingTypeOK /\ CallsFollowThePlan /\ YieldedInOrder
  /\ ExecutionIsEarned /\ RowsAreOfTheExecution

\* A claimed job has no calls yet.
LEMMA ClaimIsSound == GroundingInit => GroundingIInv
<1> SUFFICES ASSUME GroundingInit PROVE GroundingIInv
  OBVIOUS
<1>1. docs = <<>> /\ call = <<>> /\ next = 1 /\ stage = "claimed" /\ execution = Undecided
  BY DEF GroundingInit
<1>2. GroundingTypeOK
  <2>1. DOMAIN docs = {} /\ Len(docs) = 0 /\ docs \in Seq(Seq(Anchors))
    BY <1>1
  <2>2. call \in [DOMAIN docs -> {call[d] : d \in DOMAIN docs}]
    BY <1>1, <2>1
  <2> QED  BY <1>1, <2>1, <2>2 DEF GroundingInit, GroundingTypeOK, Stages
<1>3. CallsFollowThePlan /\ YieldedInOrder
  BY <1>1 DEF CallsFollowThePlan, YieldedInOrder
<1>4. ExecutionIsEarned /\ RowsAreOfTheExecution
  BY <1>1 DEF ExecutionIsEarned, RowsAreOfTheExecution
<1> QED  BY <1>2, <1>3, <1>4 DEF GroundingIInv

\* The retrieval ends the attempt, or it leaves the calls of a sound plan.
LEMMA RetrieveKeepsGroundingIInv ==
  ASSUME GroundingIInv, Retrieve
  PROVE  GroundingIInv'
<1> DEFINE anchors == retrieve_generation_anchors
           plan == IF kind = "summary" THEN Documents(anchors) ELSE <<anchors>>
<1>1. /\ stage = "claimed" /\ docs = <<>> /\ execution = Undecided
      /\ db \in Databases /\ kind \in Kinds /\ next \in 1..Len(docs) + 1
      /\ GroundingTypeOK
  BY DEF Retrieve, GroundingIInv, CallsFollowThePlan, ExecutionIsEarned, GroundingTypeOK
<1>2. next = 1
  BY <1>1
<1>3. UNCHANGED <<db, kind, next, rows>>
  BY DEF Retrieve
<1>4. CASE stage' = "executed" /\ execution'.state = "failed" /\ UNCHANGED <<docs, call>>
  <2>1. GroundingTypeOK'
    BY <1>1, <1>3, <1>4 DEF GroundingTypeOK, Stages
  <2>2. (CallsFollowThePlan /\ YieldedInOrder)'
    BY <1>1, <1>2, <1>3, <1>4 DEF CallsFollowThePlan, YieldedInOrder
  <2>3. ExecutionIsEarned' /\ RowsAreOfTheExecution'
    BY <1>1, <1>4 DEF ExecutionIsEarned, RowsAreOfTheExecution
  <2> QED  BY <2>1, <2>2, <2>3 DEF GroundingIInv
<1>5. CASE /\ Eligible # <<>> /\ docs' = plan /\ (kind = "summary" => Len(plan) <= MaxCalls)
           /\ call' = [d \in DOMAIN plan |-> [state |-> "queued"]]
           /\ stage' = "calling" /\ UNCHANGED execution
  <2>1. PlanIsSound(kind, plan)
    <3>1. CASE kind = "summary"
      BY <1>1, <1>5, <3>1, SummaryPlanIsSound
    <3>2. CASE kind = "research"
      BY <1>1, <1>5, <3>2, ResearchPlanIsSound
    <3> QED  BY <1>1, <3>1, <3>2 DEF Kinds
  <2> HIDE DEF plan
  <2>2. plan \in Seq(Seq(Anchors)) /\ plan # <<>>
    BY <2>1 DEF PlanIsSound
  <2>3. Len(plan) \in Nat /\ DOMAIN plan = 1..Len(plan)
    BY <2>2, LenProperties
  <2>4. GroundingTypeOK'
    <3>1. call' \in [DOMAIN docs' -> {call'[d] : d \in DOMAIN docs'}]
      BY <1>5
    <3>2. next' \in 1..Len(docs') + 1
      BY <1>2, <1>3, <1>5, <2>3
    <3> QED  BY <1>1, <1>3, <1>5, <2>2, <3>1, <3>2 DEF GroundingTypeOK, Stages
  <2>5. CallsFollowThePlan'
    <3>1. \A d \in DOMAIN plan : CallIsSound(kind, plan[d], [state |-> "queued"])
      BY DEF CallIsSound
    <3>2. PlanIsSound(kind, docs)'
      BY <1>3, <1>5, <2>1 DEF PlanIsSound, Usable, SameSource
    <3>3. \A d \in DOMAIN docs' : CallIsSound(kind', docs'[d], call'[d])
      BY <1>3, <1>5, <3>1
    <3> QED  BY <1>5, <2>2, <3>2, <3>3 DEF CallsFollowThePlan
  <2>6. YieldedInOrder' /\ RowsAreOfTheExecution' /\ ExecutionIsEarned'
    BY <1>1, <1>2, <1>3, <1>5 DEF YieldedInOrder, RowsAreOfTheExecution, ExecutionIsEarned
  <2> QED  BY <2>4, <2>5, <2>6 DEF GroundingIInv
<1>6. ASSUME Eligible # <<>>
      PROVE  kind = "summary" /\ ~ (Size(plan) > Budget \/ Len(plan) > MaxCalls) =>
               Len(plan) <= MaxCalls
  <2> SUFFICES ASSUME kind = "summary", ~ (Len(plan) > MaxCalls) PROVE Len(plan) <= MaxCalls
    BY Zenon
  <2>1. MaxCalls \in Nat
    BY GroundingAssumption
  <2>2. Documents(anchors) \in Seq(Seq(Anchors))
    <3>1. anchors \in Seq(Anchors)
      BY <1>1, <1>6, RetrievalSpreads
    <3> HIDE DEF anchors
    <3> QED  BY <1>1, <3>1, DocumentsHoldTheAnchors
  <2>3. plan \in Seq(Seq(Anchors))
    BY <2>2
  <2>4. Len(plan) \in Nat
    BY <2>3, LenProperties
  <2> QED  BY <2>1, <2>4
<1> QED
  <2> HIDE DEF plan
  <2> QED  BY <1>4, <1>5, <1>6 DEF Retrieve, Execute, Failed, plan, anchors

\* What a thread of the pool writes keeps what is known of the call.
LEMMA CallsKeepGroundingIInv ==
  ASSUME GroundingIInv,
         NEW d \in DOMAIN call, call[d].state \in {"queued", "running"},
         NEW c, CallIsSound(kind, docs[d], c), call' = [call EXCEPT ![d] = c],
         UNCHANGED <<db, kind, stage, docs, next, execution, rows>>,
         stage \in {"calling", "draining"}
  PROVE  GroundingIInv'
<1>1. /\ GroundingTypeOK /\ CallsFollowThePlan /\ YieldedInOrder
      /\ ExecutionIsEarned /\ RowsAreOfTheExecution
  BY DEF GroundingIInv
<1>2. /\ docs \in Seq(Seq(Anchors)) /\ DOMAIN call = DOMAIN docs /\ DOMAIN call' = DOMAIN docs
      /\ call' = [e \in DOMAIN docs |-> IF e = d THEN c ELSE call[e]]
  BY <1>1 DEF GroundingTypeOK
<1>3. GroundingTypeOK'
  <2>1. call' \in [DOMAIN docs' -> {call'[e] : e \in DOMAIN docs'}]
    BY <1>2
  <2> QED  BY <1>1, <2>1 DEF GroundingTypeOK
<1>4. CallsFollowThePlan'
  <2>1. \A e \in DOMAIN docs : CallIsSound(kind, docs[e], call[e])
    BY <1>1 DEF CallsFollowThePlan
  <2>2. \A e \in DOMAIN docs : CallIsSound(kind, docs[e], call'[e])
    BY <1>2, <2>1
  <2>3. docs # <<>> => PlanIsSound(kind, docs)'
    BY <1>1 DEF CallsFollowThePlan, PlanIsSound, Usable, SameSource
  <2> QED  BY <1>1, <2>2, <2>3 DEF CallsFollowThePlan
<1>5. YieldedInOrder'
  <2>1. Len(docs) \in Nat /\ DOMAIN docs = 1..Len(docs) /\ next \in 1..Len(docs) + 1
    BY <1>1 DEF GroundingTypeOK
  <2>2. \A e \in 1..next - 1 : e \in DOMAIN docs /\ call[e].state = "grounded" /\ e # d
    BY <1>1, <2>1 DEF YieldedInOrder
  <2> QED  BY <1>2, <2>2 DEF YieldedInOrder
<1>6. ExecutionIsEarned' /\ RowsAreOfTheExecution'
  <2>1. stage = "draining" => next # d
    BY <1>1 DEF ExecutionIsEarned
  <2> QED  BY <1>1, <1>2, <2>1 DEF ExecutionIsEarned, RowsAreOfTheExecution
<1> QED  BY <1>3, <1>4, <1>5, <1>6 DEF GroundingIInv

\* A thread starts a call, or leaves in it what the checks make of its end.
LEMMA ThreadsKeepGroundingIInv ==
  ASSUME GroundingIInv, StartCall \/ CallFails \/ SummaryAnswered \/ ResearchAnswered
  PROVE  GroundingIInv'
<1>1. DOMAIN call = DOMAIN docs /\ kind \in Kinds /\ stage \in Stages
      /\ \A d \in Running : d \in DOMAIN call /\ call[d].state = "running"
                            /\ stage \in {"calling", "draining"}
  BY DEF GroundingIInv, GroundingTypeOK, CallsFollowThePlan, Running
<1>2. CASE StartCall
  <2>1. PICK d \in DOMAIN call :
          /\ call[d].state = "queued"
          /\ call' = [call EXCEPT ![d].state = "running"]
    BY <1>2 DEF StartCall
  <2> DEFINE c == [call[d] EXCEPT !.state = "running"]
  <2>2. CallIsSound(kind, docs[d], call[d]) /\ call' = [call EXCEPT ![d] = c]
    BY <1>1, <2>1 DEF GroundingIInv, CallsFollowThePlan
  <2>3. call[d] = [state |-> "queued"]
    BY <2>1, <2>2 DEF CallIsSound, IsGroundedSummary, IsGroundedResearch
  <2>4. CallIsSound(kind, docs[d], c)
    BY <2>3 DEF CallIsSound
  <2> HIDE DEF c
  <2> QED  BY <1>2, <2>1, <2>2, <2>4, CallsKeepGroundingIInv DEF StartCall
<1>3. CASE CallFails
  <2>1. PICK d \in Running, error \in Errors :
          /\ call' = [call EXCEPT ![d] =
               IF InstructionLike(docs[d]) THEN Failed("source_prompt_injection", FALSE)
                                           ELSE ErrorResult(error, kind)]
          /\ UNCHANGED <<db, kind, stage, docs, next, execution, rows>>
    BY <1>3 DEF CallFails
  <2> DEFINE c == IF InstructionLike(docs[d]) THEN Failed("source_prompt_injection", FALSE)
                                              ELSE ErrorResult(error, kind)
  <2>2. CallIsSound(kind, docs[d], c)
    BY DEF CallIsSound, Failed, ErrorResult, Raised
  <2>3. call' = [call EXCEPT ![d] = c]
    BY <2>1
  <2> HIDE DEF c
  <2> QED  BY <1>1, <2>1, <2>2, <2>3, CallsKeepGroundingIInv
<1>4. CASE SummaryAnswered
  <2>1. PICK d \in Running, items \in Answers(Items, 1) :
          call' = [call EXCEPT ![d] = generate_summary(docs[d], items)]
    BY <1>4 DEF SummaryAnswered
  <2> DEFINE c == generate_summary(docs[d], items)
  <2>2. CallIsSound(kind, docs[d], c)
    BY <1>4, SummaryCallIsSound DEF SummaryAnswered
  <2> HIDE DEF c
  <2>3. call' = [call EXCEPT ![d] = c]
    BY <2>1 DEF c
  <2> QED  BY <1>1, <1>4, <2>2, <2>3, CallsKeepGroundingIInv DEF SummaryAnswered
<1>5. CASE ResearchAnswered
  <2>1. PICK d \in Running, findings \in Answers(Findings, 0), sources \in Answers(Url, 0) :
          call' = [call EXCEPT ![d] = generate_research(docs[d], findings, sources)]
    BY <1>5 DEF ResearchAnswered
  <2> DEFINE c == generate_research(docs[d], findings, sources)
  <2>2. CallIsSound(kind, docs[d], c)
    BY <1>5, ResearchCallIsSound DEF ResearchAnswered
  <2> HIDE DEF c
  <2>3. call' = [call EXCEPT ![d] = c]
    BY <2>1 DEF c
  <2> QED  BY <1>1, <1>5, <2>2, <2>3, CallsKeepGroundingIInv DEF ResearchAnswered
<1> QED  BY <1>2, <1>3, <1>4, <1>5

\* A result is yielded after those before it, or it is the first failure of the plan.
LEMMA YieldKeepsGroundingIInv ==
  ASSUME GroundingIInv, YieldResult
  PROVE  GroundingIInv'
<1>1. /\ GroundingTypeOK /\ CallsFollowThePlan /\ YieldedInOrder
      /\ ExecutionIsEarned /\ RowsAreOfTheExecution
  BY DEF GroundingIInv
<1>2. /\ docs \in Seq(Seq(Anchors)) /\ DOMAIN call = DOMAIN docs
      /\ Len(docs) \in Nat /\ DOMAIN docs = 1..Len(docs)
  BY <1>1 DEF GroundingTypeOK
<1>3. PICK d \in DOMAIN docs : Yield(d)
  BY <1>2 DEF YieldResult
<1>4. /\ stage = "calling" /\ d = next /\ call[d].state \in {"grounded", "failed", "raised"}
      /\ UNCHANGED <<db, kind, docs, rows>>
  BY <1>3 DEF Yield, Settled
<1>5. CASE call[d].state = "grounded"
  <2>1. next' = next + 1 /\ UNCHANGED <<stage, call, execution>>
    BY <1>3, <1>5 DEF Yield
  <2>2. GroundingTypeOK'
    BY <1>1, <1>2, <1>4, <2>1 DEF GroundingTypeOK
  <2>3. CallsFollowThePlan'
    BY <1>1, <1>4, <2>1 DEF CallsFollowThePlan, PlanIsSound, Usable, SameSource
  <2>4. YieldedInOrder'
    <3>1. \A e \in 1..next' - 1 : e \in 1..next - 1 \/ e = d
      BY <1>2, <1>4, <2>1
    <3> QED  BY <1>1, <1>5, <2>1, <3>1 DEF YieldedInOrder
  <2>5. ExecutionIsEarned' /\ RowsAreOfTheExecution'
    BY <1>1, <1>4, <2>1 DEF ExecutionIsEarned, RowsAreOfTheExecution
  <2> QED  BY <2>2, <2>3, <2>4, <2>5 DEF GroundingIInv
<1>6. CASE call[d].state # "grounded"
  <2>1. /\ stage' = "draining" /\ execution' = call[d] /\ next' = next
        /\ call' = [e \in DOMAIN docs |->
             IF call[e].state = "queued" THEN [state |-> "cancelled"] ELSE call[e]]
    BY <1>2, <1>3, <1>6 DEF Yield
  <2>2. GroundingTypeOK'
    <3>1. call' \in [DOMAIN docs' -> {call'[e] : e \in DOMAIN docs'}]
      BY <1>4, <2>1
    <3> QED  BY <1>1, <1>4, <2>1, <3>1 DEF GroundingTypeOK, Stages
  <2>3. CallsFollowThePlan'
    <3>1. \A e \in DOMAIN docs : CallIsSound(kind, docs[e], call[e])
      BY <1>1 DEF CallsFollowThePlan
    <3>2. \A e \in DOMAIN docs : CallIsSound(kind, docs[e], [state |-> "cancelled"])
      BY DEF CallIsSound
    <3>3. \A e \in DOMAIN docs : CallIsSound(kind, docs[e], call'[e])
      BY <2>1, <3>1, <3>2
    <3>4. docs # <<>> /\ PlanIsSound(kind, docs)'
      BY <1>1, <1>4 DEF CallsFollowThePlan, PlanIsSound, Usable, SameSource
    <3> QED  BY <1>4, <2>1, <3>3, <3>4 DEF CallsFollowThePlan
  <2>4. YieldedInOrder'
    <3>1. \A e \in 1..next - 1 : e \in DOMAIN docs
      BY <1>2, <1>4
    <3> QED  BY <1>1, <2>1, <3>1 DEF YieldedInOrder
  <2>5. call'[d] = call[d]
    BY <1>4, <2>1
  <2>6. ExecutionIsEarned' /\ RowsAreOfTheExecution'
    BY <1>4, <1>6, <2>1, <2>5 DEF ExecutionIsEarned, RowsAreOfTheExecution
  <2> QED  BY <2>2, <2>3, <2>4, <2>6 DEF GroundingIInv
<1> QED  BY <1>5, <1>6

\* The completion of what the checks let pass is always valid: execute does not raise.
LEMMA ConcludedIsValid ==
  ASSUME GroundingIInv, docs # <<>>, next = Len(docs) + 1
  PROVE  /\ Concluded(kind, call).state = "succeeded"
         /\ kind = "summary" => \A d \in DOMAIN docs : IsGroundedSummary(docs[d], call[d])
         /\ kind = "summary" => Concluded(kind, call).completion =
                                  _summary_completion(Synthesized(call))
         /\ kind = "research" => /\ IsGroundedResearch(docs[1], call[1])
                                 /\ Concluded(kind, call).completion =
                                      _research_completion(call[1])
<1>1. /\ docs \in Seq(Seq(Anchors)) /\ DOMAIN call = DOMAIN docs /\ kind \in Kinds
      /\ PlanIsSound(kind, docs)
      /\ \A d \in DOMAIN docs : CallIsSound(kind, docs[d], call[d])
  BY DEF GroundingIInv, GroundingTypeOK, CallsFollowThePlan
<1>2. Len(docs) \in Nat \ {0} /\ DOMAIN docs = 1..Len(docs)
  BY <1>1, LenProperties, EmptySeq
<1>3. \A d \in DOMAIN docs : call[d].state = "grounded"
  BY <1>2 DEF GroundingIInv, YieldedInOrder
<1>4. CASE kind = "summary"
  <2> DEFINE items == Sections(Synthesized(call))
  <2>1. \A d \in DOMAIN docs : IsGroundedSummary(docs[d], call[d])
    BY <1>1, <1>3, <1>4 DEF CallIsSound
  <2>2. Len(docs) <= MaxCalls
    BY <1>1, <1>4 DEF PlanIsSound
  <2>3. items \in Seq(SupportsOfPlan(docs)) /\ items # <<>>
    BY <1>1, <2>1, <2>2, SummaryHoldsAllDocuments
  <2>4. _summary_completion(Synthesized(call)) = SummaryRows(items, items)
    BY DEF _summary_completion
  <2> HIDE DEF items
  <2>5. CompletionIsValid("summary", _summary_completion(Synthesized(call)))
    BY <2>3, <2>4, SummaryIsValid
  <2> DEFINE c == _summary_completion(Synthesized(call))
  <2>6. CompletionIsValid(kind, c) /\ kind # "research"
    BY <1>4, <2>5
  <2>7. Concluded(kind, call) =
          IF CompletionIsValid(kind, c) THEN [state |-> "succeeded", completion |-> c] ELSE Raised
    BY <1>4 DEF Concluded
  <2> HIDE DEF c
  <2>8. Concluded(kind, call) = [state |-> "succeeded", completion |-> c]
    BY <2>6, <2>7, Zenon
  <2>9. Concluded(kind, call).state = "succeeded" /\ Concluded(kind, call).completion = c
    BY <2>8
  <2> QED  BY <2>1, <2>6, <2>9 DEF c
<1>5. CASE kind = "research"
  <2>1. IsGroundedResearch(docs[1], call[1])
    <3>1. 1 \in DOMAIN docs
      BY <1>2
    <3>2. CallIsSound(kind, docs[1], call[1]) /\ call[1].state = "grounded"
      BY <1>1, <1>3, <3>1
    <3> QED  BY <1>5, <3>2 DEF CallIsSound
  <2>2. CompletionIsValid("research", _research_completion(call[1]))
    BY <2>1, ResearchIsValid
  <2> QED  BY <1>5, <2>1, <2>2 DEF Concluded
<1> QED  BY <1>1, <1>4, <1>5 DEF Kinds

\* The execution ends with the first failure, or with the completion of all results.
LEMMA EndKeepsGroundingIInv ==
  ASSUME GroundingIInv, Drained \/ Complete
  PROVE  GroundingIInv'
<1>1. /\ GroundingTypeOK /\ CallsFollowThePlan /\ YieldedInOrder
      /\ ExecutionIsEarned /\ RowsAreOfTheExecution
  BY DEF GroundingIInv
<1>2. /\ stage \in {"calling", "draining"} /\ stage' = "executed"
      /\ UNCHANGED <<db, kind, docs, call, next, rows>>
  BY DEF Drained, Complete, Execute
<1>3. GroundingTypeOK' /\ YieldedInOrder' /\ RowsAreOfTheExecution'
  BY <1>1, <1>2 DEF GroundingTypeOK, Stages, YieldedInOrder, RowsAreOfTheExecution
<1>4. docs \in Seq(Seq(Anchors)) /\ DOMAIN call = DOMAIN docs /\ docs # <<>>
      /\ Len(docs) \in Nat /\ DOMAIN docs = 1..Len(docs) /\ next \in 1..Len(docs) + 1
  BY <1>1, <1>2 DEF GroundingTypeOK, CallsFollowThePlan
<1>5. CASE Drained
  <2>1. stage = "draining" /\ Running = {} /\ execution' = execution
    BY <1>5 DEF Drained, Execute
  <2>2. \A d \in DOMAIN docs : call[d].state # "running"
    BY <1>4, <2>1 DEF Running
  <2>3. CallsFollowThePlan'
    BY <1>1, <1>2, <2>2 DEF CallsFollowThePlan, PlanIsSound, Usable, SameSource
  <2>4. ExecutionIsEarned'
    BY <1>1, <1>2, <2>1 DEF ExecutionIsEarned
  <2> QED  BY <1>3, <2>3, <2>4 DEF GroundingIInv
<1>6. CASE Complete
  <2>1. next > Len(call) /\ execution' = Concluded(kind, call)
    BY <1>6 DEF Complete, Execute
  <2>2. Len(call) = Len(docs)
    <3>1. call \in [1..Len(docs) -> {call[d] : d \in DOMAIN docs}]
      BY <1>1, <1>4 DEF GroundingTypeOK
    <3> QED  BY <1>4, <3>1, FunctionIsSequence
  <2>3. next = Len(docs) + 1
    BY <1>4, <2>1, <2>2
  <2>4. Concluded(kind, call).state = "succeeded"
    BY <1>4, <2>3, ConcludedIsValid
  <2>5. \A d \in DOMAIN docs : call[d].state # "running"
    BY <1>1, <1>4, <2>3 DEF YieldedInOrder
  <2>6. CallsFollowThePlan'
    BY <1>1, <1>2, <2>5 DEF CallsFollowThePlan, PlanIsSound, Usable, SameSource
  <2>7. ExecutionIsEarned'
    BY <1>2, <1>4, <2>1, <2>3, <2>4 DEF ExecutionIsEarned
  <2> QED  BY <1>3, <2>6, <2>7 DEF GroundingIInv
<1> QED  BY <1>5, <1>6

\* The tables take the completion whole, or they refuse it.
LEMMA PersistKeepsGroundingIInv ==
  ASSUME GroundingIInv, Persist
  PROVE  GroundingIInv'
<1>1. /\ GroundingTypeOK /\ CallsFollowThePlan /\ YieldedInOrder
      /\ ExecutionIsEarned /\ RowsAreOfTheExecution
  BY DEF GroundingIInv
<1>2. /\ stage = "executed" /\ execution.state = "succeeded"
      /\ UNCHANGED <<db, kind, docs, call, next, execution>>
  BY DEF Persist
<1>3. \/ stage' = "stored" /\ TablesAccept(execution.completion) /\ rows' = execution.completion
      \/ stage' = "refused" /\ ~ TablesAccept(execution.completion) /\ UNCHANGED rows
  BY DEF Persist
<1>4. GroundingTypeOK' /\ YieldedInOrder' /\ ExecutionIsEarned'
  BY <1>1, <1>2, <1>3 DEF GroundingTypeOK, Stages, YieldedInOrder, ExecutionIsEarned
<1>5. CallsFollowThePlan'
  BY <1>1, <1>2, <1>3 DEF CallsFollowThePlan, PlanIsSound, Usable, SameSource
<1>6. TablesAccept(execution.completion)' <=> TablesAccept(execution.completion)
  BY <1>2 DEF TablesAccept
<1>7. RowsAreOfTheExecution'
  BY <1>2, <1>3, <1>6 DEF RowsAreOfTheExecution
<1> QED  BY <1>4, <1>5, <1>7 DEF GroundingIInv

\* No step of an attempt leaves the invariant.
LEMMA GroundingNextKeepsIInv ==
  GroundingIInv /\ [GroundingNext]_groundingVars => GroundingIInv'
<1> SUFFICES ASSUME GroundingIInv, [GroundingNext]_groundingVars PROVE GroundingIInv'
  OBVIOUS
<1>1. CASE UNCHANGED groundingVars
  <2>1. UNCHANGED <<db, kind, stage, docs, call, next, execution, rows>>
    BY <1>1 DEF groundingVars
  <2>2. GroundingTypeOK' /\ YieldedInOrder' /\ ExecutionIsEarned'
    BY <2>1 DEF GroundingIInv, GroundingTypeOK, YieldedInOrder, ExecutionIsEarned
  <2>3. CallsFollowThePlan'
    BY <2>1 DEF GroundingIInv, CallsFollowThePlan, PlanIsSound, Usable, SameSource
  <2>4. RowsAreOfTheExecution'
    BY <2>1 DEF GroundingIInv, RowsAreOfTheExecution, TablesAccept
  <2> QED  BY <2>2, <2>3, <2>4 DEF GroundingIInv
<1>2. CASE Retrieve
  BY <1>2, RetrieveKeepsGroundingIInv
<1>3. CASE StartCall \/ CallFails \/ SummaryAnswered \/ ResearchAnswered
  BY <1>3, ThreadsKeepGroundingIInv
<1>4. CASE YieldResult \/ Drained \/ Complete \/ Persist
  BY <1>4, YieldKeepsGroundingIInv, EndKeepsGroundingIInv, PersistKeepsGroundingIInv
<1>5. CASE Over
  BY <1>1, <1>5 DEF Over
<1> QED  BY <1>1, <1>2, <1>3, <1>4, <1>5 DEF GroundingNext

\* The inductive invariant of an attempt.
THEOREM GroundingInductive == GroundingSpec => []GroundingIInv
BY ClaimIsSound, GroundingNextKeepsIInv, PTL DEF GroundingSpec

\* What there is to store.
LEMMA CompletionStands ==
  ASSUME GroundingIInv, stage \in {"stored", "refused"}
  PROVE  /\ PlanIsSound(kind, docs) /\ kind \in Kinds
         /\ kind = "summary" => \E items \in Seq(SupportsOfPlan(docs)) :
              /\ execution.completion = SummaryRows(items, items)
              /\ \A d \in DOMAIN docs : \E k \in DOMAIN items : items[k].anchor \in ToSet(docs[d])
         /\ kind = "research" => /\ IsGroundedResearch(docs[1], call[1]) /\ 1 \in DOMAIN docs
                                 /\ execution.completion = _research_completion(call[1])
<1>1. docs # <<>> /\ next = Len(docs) + 1 /\ execution = Concluded(kind, call)
  BY DEF GroundingIInv, ExecutionIsEarned, RowsAreOfTheExecution
<1>2. /\ docs \in Seq(Seq(Anchors)) /\ DOMAIN call = DOMAIN docs /\ kind \in Kinds
      /\ PlanIsSound(kind, docs)
  BY <1>1 DEF GroundingIInv, GroundingTypeOK, CallsFollowThePlan
<1>3. CASE kind = "summary"
  <2> DEFINE items == Sections(Synthesized(call))
  <2>1. \A d \in DOMAIN docs : IsGroundedSummary(docs[d], call[d])
    BY <1>1, <1>3, ConcludedIsValid
  <2>2. Len(docs) <= MaxCalls
    BY <1>2, <1>3 DEF PlanIsSound
  <2>3. /\ items \in Seq(SupportsOfPlan(docs))
        /\ \A d \in DOMAIN docs : \E k \in DOMAIN items : items[k].anchor \in ToSet(docs[d])
    BY <1>1, <1>2, <2>1, <2>2, SummaryHoldsAllDocuments
  <2>4. execution.completion = SummaryRows(items, items)
    BY <1>1, <1>3, ConcludedIsValid DEF _summary_completion
  <2> HIDE DEF items
  <2> QED  BY <1>2, <1>3, <2>3, <2>4
<1>4. CASE kind = "research"
  <2>1. 1 \in DOMAIN docs
    BY <1>1, <1>2, EmptySeq, LenProperties
  <2>2. /\ IsGroundedResearch(docs[1], call[1])
        /\ execution.completion = _research_completion(call[1])
    BY <1>1, <1>4, ConcludedIsValid
  <2> QED  BY <1>2, <1>4, <2>1, <2>2
<1> QED  BY <1>2, <1>3, <1>4 DEF Kinds

\* The citations of a summary.
LEMMA SummaryCites ==
  ASSUME NEW X, NEW items \in Seq(X)
  PROVE  LET c == SummaryRows(items, items) IN
         /\ DOMAIN items = 1..Len(items) /\ Len(items) \in Nat
         /\ DOMAIN c.citations = DOMAIN items
         /\ c.content = items /\ c.evidence = {} /\ c.claims = <<>>
         /\ \A n \in DOMAIN items : /\ c.segments[n] = items[n].text
                                    /\ c.citations[n].segment = n - 1
                                    /\ c.citations[n].type = "source_anchor"
                                    /\ c.citations[n].target = items[n].anchor
<1>1. DOMAIN items = 1..Len(items) /\ Len(items) \in Nat
  BY LenProperties
<1> QED  BY <1>1 DEF SummaryRows, SourceCitation

\* The tables accept every citation and every claim.
LEMMA TablesAcceptCitations ==
  ASSUME GroundingIInv, stage \in {"stored", "refused"}
  PROVE  LET c == execution.completion IN
         /\ \A n \in DOMAIN c.citations :
              \/ /\ c.citations[n].type = "source_anchor" /\ c.citations[n].target \in Anchors
                 /\ db.anchor[c.citations[n].target].pinned
              \/ /\ c.citations[n].type = "web_evidence" /\ kind = "research"
                 /\ c.citations[n].target \in c.evidence
         /\ \A n \in DOMAIN c.claims : db.anchor[c.claims[n].anchor].pinned
<1> DEFINE c == execution.completion
<1>1. PlanIsSound(kind, docs) /\ kind \in Kinds
  BY CompletionStands
<1>2. \A d \in DOMAIN docs : \A a \in ToSet(docs[d]) : a \in Anchors /\ db.anchor[a].pinned
  BY <1>1 DEF PlanIsSound, Usable
<1>3. CASE kind = "summary"
  <2>1. PICK items \in Seq(SupportsOfPlan(docs)) : c = SummaryRows(items, items)
    BY <1>3, CompletionStands
  <2>2. /\ DOMAIN items = 1..Len(items) /\ DOMAIN c.citations = DOMAIN items /\ c.claims = <<>>
        /\ \A n \in DOMAIN items : /\ c.citations[n].type = "source_anchor"
                                   /\ c.citations[n].target = items[n].anchor
    BY <2>1, SummaryCites
  <2> HIDE DEF c
  <2>3. \A n \in DOMAIN items : items[n] \in SupportsOfPlan(docs)
    BY <2>2, ElementOfSeq
  <2>4. \A n \in DOMAIN items : \E d \in DOMAIN docs : items[n].anchor \in ToSet(docs[d])
    BY <2>3 DEF SupportsOfPlan
  <2>5. DOMAIN c.claims = {}
    BY <2>2
  <2> QED  BY <1>2, <2>2, <2>4, <2>5 DEF c
<1>4. CASE kind = "research"
  <2>1. /\ 1 \in DOMAIN docs
        /\ IsGroundedResearch(docs[1], call[1]) /\ c = _research_completion(call[1])
    BY <1>4, CompletionStands
  <2>2. /\ DOMAIN c.claims = DOMAIN call[1].findings
        /\ \A m \in DOMAIN c.citations : \E n \in DOMAIN call[1].findings :
             OfFinding(call[1], n, c.citations[m])
    BY <2>1, ResearchCites
  <2>3. CompletionIsValid("research", c)
    BY <2>1, ResearchIsValid
  <2>4. \A n \in DOMAIN call[1].findings :
          call[1].findings[n].anchor \in Anchors /\ db.anchor[call[1].findings[n].anchor].pinned
    BY <1>2, <2>1 DEF IsGroundedResearch
  <2>5. \A n \in DOMAIN call[1].findings : c.claims[n].anchor = call[1].findings[n].anchor
    <3> TAKE n \in DOMAIN call[1].findings
    <3>1. call[1].findings[n] \in Findings /\ call[1].sources \in Seq(Url)
      BY <2>1, LenProperties, ElementOfSeq DEF IsGroundedResearch
    <3>2. call[1].checks[n] = fact_check(call[1].findings[n], call[1].sources)
          /\ n \in DOMAIN call[1].checks
      BY <2>1 DEF IsGroundedResearch
    <3>3. c.claims = [k \in DOMAIN call[1].checks |->
            [anchor |-> call[1].checks[k].anchor, verdict |-> call[1].checks[k].verdict]]
      BY <2>1 DEF _research_completion
    <3>4. c.claims[n].anchor = call[1].checks[n].anchor
      BY <3>2, <3>3
    <3> QED  BY <3>1, <3>2, <3>4, FactChecked
  <2> HIDE DEF c
  <2>6. ASSUME NEW m \in DOMAIN c.citations
        PROVE  \/ /\ c.citations[m].type = "source_anchor" /\ c.citations[m].target \in Anchors
                  /\ db.anchor[c.citations[m].target].pinned
               \/ c.citations[m].type = "web_evidence" /\ c.citations[m].target \in c.evidence
    <3>1. PICK n \in DOMAIN call[1].findings : OfFinding(call[1], n, c.citations[m])
      BY <2>2
    <3>2. CASE c.citations[m] = SourceCitation(n, call[1].findings[n].anchor)
      BY <2>4, <3>2 DEF SourceCitation
    <3>3. CASE \E u : c.citations[m] = WebCitation(n, u)
      BY <2>3, <3>3 DEF CompletionIsValid, WebCitation
    <3> QED  BY <3>1, <3>2, <3>3 DEF OfFinding
  <2> QED  BY <1>4, <2>2, <2>4, <2>5, <2>6 DEF c
<1> QED  BY <1>1, <1>3, <1>4 DEF Kinds

\* executor.map: an attempt fails as the first document of the plan that fails.
THEOREM FirstFailureAlwaysDecides == GroundingSpec => []FirstFailureDecides
<1>1. ASSUME GroundingIInv PROVE FirstFailureDecides
  <2> SUFFICES ASSUME stage = "executed", execution.state \in {"failed", "raised"}, docs # <<>>
               PROVE  \E d \in DOMAIN call :
                        execution = call[d] /\ \A e \in 1..(d - 1) : call[e].state = "grounded"
    BY DEF FirstFailureDecides
  <2>1. next \in DOMAIN docs /\ execution = call[next]
    BY <1>1 DEF GroundingIInv, ExecutionIsEarned
  <2>2. DOMAIN call = DOMAIN docs /\ \A e \in 1..(next - 1) : call[e].state = "grounded"
    BY <1>1 DEF GroundingIInv, GroundingTypeOK, YieldedInOrder
  <2> QED  BY <2>1, <2>2
<1> QED  BY <1>1, GroundingInductive, PTL

\* What the grounding lets pass is not thrown away by the completion or by the tables.
THEOREM NothingIsEverRefused == GroundingSpec => []NothingIsRefused
<1>1. ASSUME GroundingIInv PROVE NothingIsRefused
  <2>1. ASSUME stage = "refused" PROVE execution.completion.evidence \cap UnsafeUrl # {}
    <3> DEFINE c == execution.completion
    <3>1. ~ TablesAccept(c)
      BY <1>1, <2>1 DEF GroundingIInv, RowsAreOfTheExecution
    <3>2. /\ \A n \in DOMAIN c.citations :
               \/ /\ c.citations[n].type = "source_anchor"
                  /\ db.anchor[c.citations[n].target].pinned
               \/ c.citations[n].type = "web_evidence" /\ kind = "research"
          /\ \A n \in DOMAIN c.claims : db.anchor[c.claims[n].anchor].pinned
      BY <1>1, <2>1, TablesAcceptCitations
    <3> HIDE DEF c
    <3>3. c.evidence \cap UnsafeUrl # {}
      BY <3>1, <3>2 DEF TablesAccept
    <3> QED  BY <3>3 DEF c
  <2>2. ASSUME execution.state = "raised" PROVE \E d \in DOMAIN call : call[d].state = "raised"
    <3>1. stage \in {"draining", "executed", "stored", "refused"}
      BY <1>1, <2>2 DEF GroundingIInv, GroundingTypeOK, Stages, ExecutionIsEarned, Undecided
    <3>2. next \in DOMAIN docs /\ execution = call[next]
      BY <1>1, <2>2, <3>1 DEF GroundingIInv, ExecutionIsEarned
    <3>3. DOMAIN call = DOMAIN docs
      BY <1>1 DEF GroundingIInv, GroundingTypeOK
    <3> QED  BY <2>2, <3>2, <3>3
  <2> QED  BY <2>1, <2>2 DEF NothingIsRefused
<1> QED  BY <1>1, GroundingInductive, PTL

\* An item of a stored summary has the one citation of its support.
LEMMA OneCitationEach ==
  ASSUME NEW X, NEW items \in Seq(X), rows = SummaryRows(items, items),
         NEW n \in DOMAIN rows.content
  PROVE  Cardinality(CitationsOf(n)) = 1 /\ rows.segments[n] = rows.content[n].text
<1>1. /\ DOMAIN items = 1..Len(items) /\ Len(items) \in Nat
      /\ DOMAIN rows.citations = DOMAIN items /\ rows.content = items
      /\ \A m \in DOMAIN items : /\ rows.segments[m] = items[m].text
                                 /\ rows.citations[m].segment = m - 1
                                 /\ rows.citations[m].target = items[m].anchor
  BY SummaryCites
<1>2. \A m \in DOMAIN items : m - 1 = n - 1 <=> m = n
  BY <1>1
<1>3. CitationsOf(n) = {n}
  BY <1>1, <1>2 DEF CitationsOf
<1> QED  BY <1>1, <1>3, FS_Singleton

\* CitationResolver: who is a member reaches the source behind every stored citation.
THEOREM ReadersAlwaysReach == GroundingSpec => []ReadersReachTheirSources
<1>1. ASSUME GroundingIInv PROVE ReadersReachTheirSources
  <2> SUFFICES ASSUME stage = "stored"
               PROVE  /\ kind = "summary" => \A n \in DOMAIN rows.content :
                           /\ Cardinality(CitationsOf(n)) = 1
                           /\ rows.segments[n] = rows.content[n].text
                      /\ \A n \in DOMAIN rows.citations, user \in Users :
                           LET c == rows.citations[n]
                               found == resolve(n, user)
                               shown == IF c.type = "web_evidence"
                                          THEN resolve_web_evidence_for_member(c.target, user)
                                          ELSE resolve_source_anchor_for_viewer(
                                                 db.anchor[c.target].rev, c.target, user)
                           IN  /\ found = shown
                               /\ c.type = "source_anchor" =>
                                    resolve_source_anchor_for_member(c.target, user) = found
                               /\ found = IF user \in Members THEN c.target ELSE Unavailable
    BY DEF ReadersReachTheirSources
  <2>1. rows = execution.completion
    BY <1>1 DEF GroundingIInv, RowsAreOfTheExecution
  <2>2. ASSUME kind = "summary", NEW n \in DOMAIN rows.content
        PROVE  Cardinality(CitationsOf(n)) = 1 /\ rows.segments[n] = rows.content[n].text
    <3>1. PICK items \in Seq(SupportsOfPlan(docs)) : rows = SummaryRows(items, items)
      BY <1>1, <2>1, <2>2, CompletionStands
    <3> QED  BY <2>2, <3>1, OneCitationEach
  <2>3. ASSUME NEW n \in DOMAIN rows.citations, NEW user \in Users
        PROVE  LET c == rows.citations[n]
                   found == resolve(n, user)
                   shown == IF c.type = "web_evidence"
                              THEN resolve_web_evidence_for_member(c.target, user)
                              ELSE resolve_source_anchor_for_viewer(
                                     db.anchor[c.target].rev, c.target, user)
               IN  /\ found = shown
                   /\ c.type = "source_anchor" =>
                        resolve_source_anchor_for_member(c.target, user) = found
                   /\ found = IF user \in Members THEN c.target ELSE Unavailable
    <3> DEFINE c == rows.citations[n]
    <3>1. \/ c.type = "source_anchor" /\ db.anchor[c.target].pinned
          \/ c.type = "web_evidence" /\ c.target \in rows.evidence
      BY <1>1, <2>1, TablesAcceptCitations
    <3>2. CASE c.type = "source_anchor" /\ db.anchor[c.target].pinned
      BY <3>2 DEF resolve, resolve_source_anchor_for_viewer, resolve_source_anchor_for_member
    <3>3. CASE c.type = "web_evidence" /\ c.target \in rows.evidence
      BY <3>3 DEF resolve, resolve_web_evidence_for_member
    <3> QED  BY <3>1, <3>2, <3>3
  <2> QED  BY <2>2, <2>3
<1> QED  BY <1>1, GroundingInductive, PTL

\* The retrieval, the calls and the synthesis: a stored summary cites every source that has
\* a usable anchor, by anchors that are usable.
THEOREM DocumentsAlwaysRepresented == GroundingSpec => []DocumentsAreRepresented
<1>1. ASSUME GroundingIInv PROVE DocumentsAreRepresented
  <2> SUFFICES ASSUME stage = "stored", kind = "summary", NEW r \in ToSet(Revisions)
               PROVE  /\ rag_units(r) # {} => used_anchor_ids(r) # {}
                      /\ used_anchor_ids(r) \subseteq rag_units(r)
    BY DEF DocumentsAreRepresented
  <2>1. PICK items \in Seq(SupportsOfPlan(docs)) :
          /\ rows = SummaryRows(items, items)
          /\ \A d \in DOMAIN docs : \E k \in DOMAIN items : items[k].anchor \in ToSet(docs[d])
    <3>1. rows = execution.completion
      BY <1>1 DEF GroundingIInv, RowsAreOfTheExecution
    <3> QED  BY <1>1, <3>1, CompletionStands
  <2>2. /\ DOMAIN items = 1..Len(items) /\ DOMAIN rows.citations = DOMAIN items
        /\ \A n \in DOMAIN items : /\ rows.citations[n].type = "source_anchor"
                                   /\ rows.citations[n].target = items[n].anchor
    BY <2>1, SummaryCites
  <2>3. PlanIsSound("summary", docs)
    BY <1>1, CompletionStands
  <2>4. \A a : a \in rag_units(r) <=> Usable(a) /\ db.anchor[a].rev = r
    BY PinnedRows DEF rag_units, Usable
  <2>5. \A a : a \in used_anchor_ids(r) <=>
          \E n \in DOMAIN items : items[n].anchor = a /\ db.anchor[a].rev = r
    BY <2>2 DEF used_anchor_ids
  <2>6. used_anchor_ids(r) \subseteq rag_units(r)
    <3> SUFFICES ASSUME NEW n \in DOMAIN items PROVE Usable(items[n].anchor)
      BY <2>4, <2>5
    <3>1. items[n] \in SupportsOfPlan(docs)
      BY <2>2, ElementOfSeq
    <3>2. \E d \in DOMAIN docs : items[n].anchor \in ToSet(docs[d])
      BY <3>1 DEF SupportsOfPlan
    <3> QED  BY <2>3, <3>2 DEF PlanIsSound
  <2>7. ASSUME NEW a \in rag_units(r) PROVE used_anchor_ids(r) # {}
    <3>1. Usable(a) /\ db.anchor[a].rev = r
      BY <2>4
    <3>2. PICK d \in DOMAIN docs : \A b \in ToSet(docs[d]) : SameSource(b, a)
      BY <2>3, <3>1 DEF PlanIsSound
    <3>3. PICK k \in DOMAIN items : items[k].anchor \in ToSet(docs[d])
      BY <2>1
    <3>4. db.anchor[items[k].anchor].rev = r
      BY <3>1, <3>2, <3>3 DEF SameSource
    <3> QED  BY <2>5, <3>4
  <2> QED  BY <2>6, <2>7
<1> QED  BY <1>1, GroundingInductive, PTL

\* _trusted_citations and the downgrade of a finding: no page is cited that the search did
\* not return, and none for a finding that named one.
THEOREM OnlySearchedPagesEverCited == GroundingSpec => []OnlySearchedPagesAreCited
<1>1. ASSUME GroundingIInv PROVE OnlySearchedPagesAreCited
  <2> DEFINE c == call[1]
  <2> SUFFICES ASSUME stage = "stored", kind = "research"
               PROVE  /\ rows.evidence \subseteq ToSet(c.sources) \cup {Placeholder}
                      /\ \A n \in DOMAIN rows.citations : rows.citations[n].target # Placeholder
                      /\ \A n \in DOMAIN c.findings :
                           LET cited == {m \in DOMAIN rows.citations :
                                           /\ rows.citations[m].segment = n - 1
                                           /\ rows.citations[m].type = "web_evidence"}
                           IN  Unsearched(c.findings[n], c.sources) =>
                                 cited = {} /\ rows.claims[n].verdict = "unverifiable"
    BY DEF OnlySearchedPagesAreCited
  <2>1. IsGroundedResearch(docs[1], c) /\ rows = _research_completion(c) /\ 1 \in DOMAIN docs
    <3>1. rows = execution.completion
      BY <1>1 DEF GroundingIInv, RowsAreOfTheExecution
    <3> QED  BY <1>1, <3>1, CompletionStands
  <2> HIDE DEF c
  <2>2. /\ DOMAIN c.findings = 1..Len(c.findings) /\ Len(c.findings) \in Nat
        /\ \A m \in DOMAIN rows.citations : \E n \in DOMAIN c.findings :
             OfFinding(c, n, rows.citations[m])
    BY <2>1, ResearchCites
  <2>3. /\ c.sources \in Seq(Url) /\ ToSet(c.sources) \subseteq Url
        /\ \A n \in DOMAIN c.findings :
             c.findings[n] \in Findings /\ c.findings[n].anchor \in ToSet(docs[1])
        /\ c.checks = [n \in DOMAIN c.findings |-> fact_check(c.findings[n], c.sources)]
        /\ rows.evidence = evidence_rows(c.findings, c.sources)
    <3>1. /\ c.findings \in Seq(Findings) /\ c.sources \in Seq(Url)
          /\ \A n \in DOMAIN c.findings : c.findings[n].anchor \in ToSet(docs[1])
          /\ c.checks = [n \in DOMAIN c.findings |-> fact_check(c.findings[n], c.sources)]
          /\ c.evidence = evidence_rows(c.findings, c.sources)
      BY <2>1 DEF IsGroundedResearch
    <3>2. rows.evidence = c.evidence
      BY <2>1 DEF _research_completion
    <3>3. \A n \in DOMAIN c.findings : c.findings[n] \in Findings
      BY <2>2, <3>1, ElementOfSeq
    <3>4. ToSet(c.sources) \subseteq Url
      BY <3>1 DEF ToSet
    <3> QED  BY <3>1, <3>2, <3>3, <3>4
  <2>4. rows.evidence \subseteq ToSet(c.sources) \cup {Placeholder}
    <3>1. web_evidence(c.findings, c.sources) \subseteq ToSet(c.sources)
      BY <2>3, CanonicalIsSearched DEF web_evidence
    <3> QED  BY <2>3, <3>1 DEF evidence_rows
  <2>5. ASSUME NEW m \in DOMAIN rows.citations PROVE rows.citations[m].target # Placeholder
    <3>1. PICK n \in DOMAIN c.findings : OfFinding(c, n, rows.citations[m])
      BY <2>2
    <3>2. CASE rows.citations[m] = SourceCitation(n, c.findings[n].anchor)
      <4>1. PlanIsSound(kind, docs)
        BY <1>1, CompletionStands
      <4>2. c.findings[n].anchor \in Anchors
        BY <2>1, <2>3, <4>1 DEF PlanIsSound, Usable
      <4> QED  BY <3>2, <4>2, PlaceholderAssumption DEF SourceCitation
    <3>3. CASE \E u : /\ Searched(u, c.sources)
                      /\ rows.citations[m] = WebCitation(n, Canonical(u, c.sources))
      BY <2>3, <3>3, CanonicalIsSearched, PlaceholderAssumption DEF WebCitation
    <3> QED  BY <3>1, <3>2, <3>3 DEF OfFinding
  <2>6. ASSUME NEW n \in DOMAIN c.findings, Unsearched(c.findings[n], c.sources),
               NEW m \in DOMAIN rows.citations, rows.citations[m].segment = n - 1
        PROVE  rows.citations[m].type # "web_evidence"
    <3>1. PICK k \in DOMAIN c.findings : OfFinding(c, k, rows.citations[m])
      BY <2>2
    <3>2. \/ rows.citations[m] = SourceCitation(k, c.findings[k].anchor)
          \/ \E u : rows.citations[m] = WebCitation(k, u)
      BY <3>1 DEF OfFinding
    <3>3. rows.citations[m].segment = k - 1
      <4>1. \A u : SourceCitation(k, u).segment = k - 1 /\ WebCitation(k, u).segment = k - 1
        BY DEF SourceCitation, WebCitation
      <4> QED  BY <3>2, <4>1, Zenon
    <3>4. k = n
      BY <2>2, <2>6, <3>3
    <3>5. rows.citations[m] = SourceCitation(k, c.findings[k].anchor)
      BY <2>6, <3>1, <3>4 DEF OfFinding
    <3> QED  BY <3>5 DEF SourceCitation
  <2>7. ASSUME NEW n \in DOMAIN c.findings, Unsearched(c.findings[n], c.sources)
        PROVE  rows.claims[n].verdict = "unverifiable"
    <3>1. fact_check(c.findings[n], c.sources).verdict = "unverifiable"
      BY <2>3, <2>7, FactChecked
    <3>2. n \in DOMAIN c.checks /\ c.checks[n] = fact_check(c.findings[n], c.sources)
      BY <2>3
    <3> QED  BY <2>1, <3>1, <3>2 DEF _research_completion
  <2> QED  BY <2>4, <2>5, <2>6, <2>7
<1> QED  BY <1>1, GroundingInductive, PTL
===============================================================================
