---------------------------- MODULE SessionSources ----------------------------
(***************************************************************************)
(* The sources of one talk session: members submit, replace and delete     *)
(* text and files (text_submission_service.py, file_submission_service.py), *)
(* the extraction workers parse the files (file_extraction_worker.py), and *)
(* the host closes the session, which pins the current revisions into a    *)
(* snapshot, and reopens it (session_service.py).                          *)
(*                                                                         *)
(* The extraction jobs live in JobQueue, one for each file: a file         *)
(* submission has one revision, since only text can be replaced.  Submit,  *)
(* replace, delete, close and reopen lock the session row first and are    *)
(* therefore serial; extraction does not lock it.                          *)
(***************************************************************************)
EXTENDS Naturals, Sequences, FiniteSets

CONSTANTS
  Text, File,              \* the submissions, by kind
  Worker,                  \* file extraction workers
  MaxCurrent,              \* limit on current revisions of a session
  MaxExtractionAttempts,   \* _MAX_EXTRACTION_ATTEMPTS
  MaxRevision,             \* bound on the replacements of a text
  MaxEpoch,                \* bound on the closes
  LeaseTicks,
  MaxGeneration

ASSUME SourcesAssumption ==
  /\ Text \cap File = {}
  /\ {MaxCurrent, MaxExtractionAttempts, MaxRevision, MaxEpoch,
      LeaseTicks, MaxGeneration} \subseteq Nat \ {0}

VARIABLES
  jobs, attempts, results, worker,  \* the queue
  loaded,       \* what _load_revision gave each worker for its claim
  submissions,  \* submissions: whether deleted, and the current revision_no
  processing,   \* processing_state of the revision of each file
  session,      \* the talk_sessions row
  pinned,       \* snapshot_revisions of each epoch's snapshot
  excluded      \* snapshot_exclusions, unique for a session and a revision

queue == <<jobs, attempts, results, worker>>
sources == <<submissions, processing>>
snapshots == <<session, pinned, excluded>>
vars == <<queue, loaded, sources, snapshots>>

Q == INSTANCE JobQueue
       WITH Job <- File, Lane <- [w \in Worker |-> File],
            AutoRequeue <- File, Revivable <- File

Submission == Text \cup File
Epoch == 1 .. MaxEpoch
Revision == [submission : Submission, revision_no : 1 .. MaxRevision]

SessionState == {"open", "processing", "ready", "needs_attention"}
ProcessingState == {"absent", "queued", "ready", "failed"}

TypeOK ==
  /\ Q!TypeOK
  /\ loaded \in [Worker -> {"unread", "queued", "unavailable"}]
  /\ submissions \in [Submission -> [state : {"absent", "live", "deleted"},
                                     revision_no : 0 .. MaxRevision]]
  /\ processing \in [File -> ProcessingState]
  /\ session \in [state : SessionState, epoch : 0 .. MaxEpoch]
  /\ pinned \in [Epoch -> SUBSET Revision]
  /\ excluded \subseteq Revision

Init ==
  /\ Q!Init
  /\ loaded = [w \in Worker |-> "unread"]
  /\ submissions = [s \in Submission |-> [state |-> "absent", revision_no |-> 0]]
  /\ processing = [f \in File |-> "absent"]
  /\ session = [state |-> "open", epoch |-> 0]
  /\ pinned = [e \in Epoch |-> {}]
  /\ excluded = {}

CurrentRevision(s) == [submission |-> s, revision_no |-> submissions[s].revision_no]

\* A text revision gets its approved extraction run and becomes ready in the
\* transaction that inserts it.
IsReady(r) == r.submission \in File => processing[r.submission] = "ready"

-------------------------------------------------------------------------------
(* Members *)

\* The count does not leave out the revisions of deleted submissions.
CurrentCount == Cardinality({s \in Submission : submissions[s].state # "absent"})

CanSubmit(s) ==
  /\ session.state = "open"
  /\ submissions[s].state = "absent"
  /\ CurrentCount < MaxCurrent

FirstRevision(s) ==
  submissions' = [submissions EXCEPT ![s] = [state |-> "live", revision_no |-> 1]]

SubmitText(s) ==
  /\ s \in Text
  /\ CanSubmit(s)
  /\ FirstRevision(s)
  /\ UNCHANGED <<queue, loaded, processing, snapshots>>

\* The revision and its extraction job are one transaction.
SubmitFile(f) ==
  /\ f \in File
  /\ CanSubmit(f)
  /\ FirstRevision(f)
  /\ processing' = [processing EXCEPT ![f] = "queued"]
  /\ Q!Enqueue(f)
  /\ UNCHANGED <<loaded, snapshots>>

\* A deleted text may be replaced as well: deleted_at is not looked at.
ReplaceText(s) ==
  /\ s \in Text
  /\ session.state = "open"
  /\ submissions[s].state # "absent"
  /\ submissions[s].revision_no < MaxRevision
  /\ submissions' = [submissions EXCEPT ![s].revision_no = @ + 1]
  /\ UNCHANGED <<queue, loaded, processing, snapshots>>

Delete(s) ==
  /\ session.state = "open"
  /\ submissions[s].state = "live"
  /\ submissions' = [submissions EXCEPT ![s].state = "deleted"]
  /\ UNCHANGED <<queue, loaded, processing, snapshots>>

\* Fault: the retry does not look at the state of the revision.
RetryAnyExtraction(f) ==
  /\ submissions[f].state = "live"
  /\ jobs[f].state \in {"succeeded", "failed_terminal"}
  /\ jobs' = [jobs EXCEPT ![f].state = "pending"]
  /\ processing' = [processing EXCEPT ![f] = "queued"]
  /\ UNCHANGED <<attempts, results, worker, loaded, submissions, snapshots>>

\* Any member, in any state of the session.
RetryExtraction(f) ==
  /\ submissions[f].state = "live"
  /\ processing[f] = "failed"
  /\ Q!Revive(f)
  /\ processing' = [processing EXCEPT ![f] = "queued"]
  /\ UNCHANGED <<loaded, submissions, snapshots>>

-------------------------------------------------------------------------------
(* The host *)

CurrentSources == {CurrentRevision(s) : s \in {t \in Submission : submissions[t].state = "live"}}

\* Fault: a revision that is not ready is left out without an exclusion.
SkipsUnready(exclusions) == exclusions \subseteq CurrentSources

\* Every current revision that is not ready is excluded explicitly.
Eligible(exclusions) ==
  /\ exclusions \subseteq CurrentSources
  /\ \A r \in CurrentSources \ exclusions : IsReady(r)

Included(exclusions) == {r \in CurrentSources \ exclusions : IsReady(r)}

\* A snapshot of nothing has no anchor schema version and is refused; an
\* exclusion that an earlier close recorded violates the unique constraint of
\* snapshot_exclusions.  A close of a session that is not open writes nothing.
Close(exclusions) ==
  /\ session.state = "open"
  /\ session.epoch < MaxEpoch
  /\ Eligible(exclusions)
  /\ Included(exclusions) # {}
  /\ exclusions \cap excluded = {}
  /\ excluded' = excluded \cup exclusions
  /\ pinned' = [pinned EXCEPT ![session.epoch + 1] = Included(exclusions)]
  /\ session' = [state |-> "processing", epoch |-> session.epoch + 1]
  /\ UNCHANGED <<queue, loaded, sources>>

Reopen ==
  /\ session.state \in {"ready", "needs_attention"}
  /\ session' = [session EXCEPT !.state = "open"]
  /\ UNCHANGED <<queue, loaded, sources, pinned, excluded>>

\* The generation lanes project the runs of some snapshot into the session
\* (GenerationSession): of any of them, at any time after the first close.
GenerationProjects ==
  /\ session.epoch > 0
  /\ \E state \in SessionState \ {"open"} : session' = [session EXCEPT !.state = state]
  /\ UNCHANGED <<queue, loaded, sources, pinned, excluded>>

-------------------------------------------------------------------------------
(* The extraction workers *)

\* Fault: the worker that crashed before its requeue is not made good.
NoReconcile == FALSE /\ UNCHANGED vars

\* Before it claims, a worker repairs the jobs whose worker died between the
\* retryable completion and the requeue; those without an attempt left fail.
Reconcile ==
  LET stranded == {f \in File : jobs[f].state = "failed_retryable"
                                  /\ jobs[f].lease_token = 0}
      retry == {f \in stranded : jobs[f].lease_generation < MaxExtractionAttempts}
      fail == {f \in stranded \ retry : processing[f] = "queued"}
  IN  /\ \E w \in Worker : worker[w] = Q!Idle
      /\ jobs' = [f \in File |->
                    CASE f \in retry -> [jobs[f] EXCEPT !.state = "pending"]
                      [] f \in fail  -> [jobs[f] EXCEPT !.state = "failed_terminal"]
                      [] OTHER       -> jobs[f]]
      /\ processing' = [f \in File |-> IF f \in fail THEN "failed" ELSE processing[f]]
      /\ UNCHANGED <<attempts, results, worker, loaded, submissions, snapshots>>

Claim(w) ==
  /\ \E f \in File : Q!Claim(w, f)
  /\ loaded' = [loaded EXCEPT ![w] = "unread"]
  /\ UNCHANGED <<sources, snapshots>>

\* A revision that is not queued is not found.
Load(w) ==
  /\ worker[w].phase = "executing"
  /\ loaded[w] = "unread"
  /\ loaded' = [loaded EXCEPT ![w] =
                  IF processing[worker[w].job] = "queued" THEN "queued" ELSE "unavailable"]
  /\ UNCHANGED <<queue, sources, snapshots>>

\* Without a revision the job fails for good, and so does the last attempt.
Target(outcome, w) ==
  IF \/ loaded[w] = "unavailable"
     \/ /\ outcome = "failed_retryable"
        /\ worker[w].lease_generation >= MaxExtractionAttempts
    THEN "failed_terminal"
    ELSE outcome

\* Fault: the terminal failure stays in the job.
ForgetsFailure(target) == IF target = "succeeded" THEN "ready" ELSE "queued"

Settled(target) ==
  CASE target = "succeeded"        -> "ready"
    [] target = "failed_terminal"  -> "failed"
    [] target = "failed_retryable" -> "queued"

\* _persist_success and _persist_failure.  The revision must still be queued
\* when a state is written to it, or else the transaction rolls back and the
\* worker forgets the job, as in Crash.
Effect(f, target, w) ==
  IF loaded[w] = "unavailable"
    THEN UNCHANGED processing
    ELSE /\ target # "failed_retryable" => processing[f] = "queued"
         /\ processing' = [processing EXCEPT ![f] = Settled(target)]

Complete(w) ==
  /\ worker[w].phase = "executing"
  /\ loaded[w] # "unread"
  /\ \E outcome \in Q!CompletionState :
       LET target == Target(outcome, w)
       IN  /\ Q!Complete(w, target)
           /\ Effect(worker[w].job, target, w)
  /\ UNCHANGED <<loaded, submissions, snapshots>>

\* _retry_requeue_has_benign_winner: what the worker accepts as the reason why
\* its requeue found nothing to do.  Anything else it raises, and dies.
BenignWinner(f, generation) ==
  \/ /\ jobs[f].state \in {"pending", "succeeded", "failed_terminal"}
     /\ jobs[f].lease_generation >= generation
  \/ /\ jobs[f].state \in {"running", "failed_retryable"}
     /\ jobs[f].lease_generation > generation

CompleteStale(w) == Q!CompleteStale(w) /\ UNCHANGED <<loaded, sources, snapshots>>
Requeue(w) == Q!Requeue(w) /\ UNCHANGED <<loaded, sources, snapshots>>
Crash(w) == Q!Crash(w) /\ UNCHANGED <<loaded, sources, snapshots>>
Tick == Q!Tick /\ UNCHANGED <<loaded, sources, snapshots>>

Next ==
  \/ \E s \in Text : SubmitText(s) \/ ReplaceText(s)
  \/ \E f \in File : SubmitFile(f) \/ RetryExtraction(f)
  \/ \E s \in Submission : Delete(s)
  \/ \E exclusions \in SUBSET CurrentSources : Close(exclusions)
  \/ Reopen
  \/ GenerationProjects
  \/ Reconcile
  \/ \E w \in Worker :
       \/ Claim(w) \/ Load(w) \/ Complete(w) \/ CompleteStale(w)
       \/ Requeue(w) \/ Crash(w)
  \/ Tick

Spec == Init /\ [][Next]_vars

\* The worker polls for ever, reconciling before each claim, and the sandbox
\* has a timeout.  Members, host, lanes and crashes owe nothing.
Fairness ==
  /\ WF_vars(Tick)
  /\ SF_vars(Reconcile)
  /\ \A w \in Worker :
       /\ SF_vars(Claim(w))
       /\ WF_vars(Load(w))
       /\ WF_vars(Complete(w) \/ CompleteStale(w))
       /\ WF_vars(Requeue(w))

FairSpec == Spec /\ Fairness

-------------------------------------------------------------------------------
(* Safety *)

\* The extraction job and the revision it is for agree: a revision is queued
\* exactly while its job can still settle it, so that no revision blocks the
\* close for ever and no retry finds its job out of reach.
ExtractionMatchesRevision ==
  \A f \in File :
    LET state == jobs[f].state
    IN  /\ processing[f] = "absent" <=> state = "absent"
        /\ processing[f] = "queued" <=> state \in {"pending", "running", "failed_retryable"}
        /\ processing[f] = "ready"  <=> state = "succeeded"
        /\ processing[f] = "failed" <=> state = "failed_terminal"

\* Whatever retries and late completions follow, a revision that a snapshot has
\* pinned stays ready: generation reads its anchors at any later time.
PinnedStayReady == \A e \in Epoch : \A r \in pinned[e] : IsReady(r)

\* A worker whose requeue finds nothing to do, because another worker's
\* reconciliation came first, always finds a winner it accepts, however late it
\* looks: the requeue never ends a worker.
RequeueNeverRaises ==
  \A w \in Worker :
    worker[w].phase = "requeueing" =>
      \/ Q!RequeueMatches(worker[w].job, worker[w].lease_generation)
      \/ BenignWinner(worker[w].job, worker[w].lease_generation)

\* No job is left failed_retryable without an attempt to retry it with, though
\* expired leases and manual retries use attempts up too.
RetryableHasAttemptsLeft ==
  \A f \in File :
    jobs[f].state = "failed_retryable" => jobs[f].lease_generation < MaxExtractionAttempts

\* In every order of claims, failures, requeues, reconciliations and manual retries, a
\* file and its job agree, a job that is to be tried again can be, and no worker is
\* ended by it.
FilesAndJobsAgree ==
  TypeOK /\ ExtractionMatchesRevision /\ RetryableHasAttemptsLeft /\ RequeueNeverRaises

\* AC-06: when an epoch begins, each revision that is current goes into its
\* snapshot or has an audited exclusion, and nothing that is not ready goes in.
CloseAccountsForSources ==
  [][session'.epoch # session.epoch =>
       \A r \in CurrentSources :
         \/ r \in excluded'
         \/ IsReady(r) /\ r \in pinned'[session'.epoch]]_vars

(* Liveness *)

\* A queued file is parsed or refused in the end, whoever dies between the
\* retryable completion and the requeue, unless the bounded model has run out
\* of generations.
EventuallySettled ==
  \A f \in File :
    processing[f] = "queued"
      ~> (processing[f] \in {"ready", "failed"} \/ jobs[f].lease_generation = MaxGeneration)

-------------------------------------------------------------------------------
(* What the documents say and the code does not do *)

\* The docstring of reopen: closing again later pins whatever is current at that
\* moment into a new snapshot.  So an open session with a ready source can be
\* closed, by leaving out the sources that are not ready.
ReopenedCanClose ==
  session.state = "open" /\ session.epoch > 0 /\ (\E r \in CurrentSources : IsReady(r))
    => \E exclusions \in SUBSET CurrentSources :
         /\ Eligible(exclusions)
         /\ Included(exclusions) # {}
         /\ exclusions \cap excluded = {}
===============================================================================
