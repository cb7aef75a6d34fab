------------------------- MODULE SessionSourcesProofs -------------------------
(***************************************************************************)
(* Proofs about SessionSources, for any number of texts, files, workers,   *)
(* revisions and epochs.                                                   *)
(*                                                                         *)
(* As in GenerationSessionProofs, the queue's part of the inductive        *)
(* invariant is that of JobQueueProofs.  The rest says what a worker's     *)
(* memory is still worth: the claim it requeues under was decided, and the *)
(* revision it loaded under a lease it still has is there.                 *)
(***************************************************************************)
EXTENDS SessionSources, TLAPS

EveryLane == [w \in Worker |-> File]

P == INSTANCE JobQueueProofs
       WITH Job <- File, Lane <- EveryLane, AutoRequeue <- File, Revivable <- File

\* The rows that only this module keeps have their types.
DomainTyped ==
  /\ loaded \in [Worker -> {"unread", "queued", "unavailable"}]
  /\ submissions \in [Submission -> [state : {"absent", "live", "deleted"},
                                     revision_no : 0 .. MaxRevision]]
  /\ processing \in [File -> ProcessingState]
  /\ session \in [state : SessionState, epoch : 0 .. MaxEpoch]
  /\ pinned \in [Epoch -> SUBSET Revision]
  /\ excluded \subseteq Revision

\* A submission that is there has a revision; a file that was never submitted
\* is not processed.
SubmissionsHaveRevisions ==
  /\ \A s \in Submission : submissions[s].state # "absent" => submissions[s].revision_no # 0
  /\ \A f \in File : submissions[f].state = "absent" => processing[f] = "absent"

\* A worker that is about to requeue has had its attempt decided: the job runs
\* again only under a later claim.
RequeuersDecided ==
  \A w \in Worker :
    worker[w].phase = "requeueing" =>
      /\ jobs[worker[w].job].state # "absent"
      /\ jobs[worker[w].job].state = "running"
           => jobs[worker[w].job].lease_generation # worker[w].lease_generation

\* A worker that executes under the current claim of a running job did not find
\* its revision gone.
CurrentClaimHasRevision ==
  \A w \in Worker :
    /\ worker[w].phase = "executing"
    /\ jobs[worker[w].job].state = "running"
    /\ jobs[worker[w].job].lease_generation = worker[w].lease_generation
    => loaded[w] # "unavailable"

IInv ==
  /\ P!IInv
  /\ DomainTyped
  /\ SubmissionsHaveRevisions
  /\ RequeuersDecided
  /\ CurrentClaimHasRevision
  /\ ExtractionMatchesRevision
  /\ RetryableHasAttemptsLeft
  /\ PinnedStayReady

-------------------------------------------------------------------------------
(* The steps of the queue *)

\* The queue's own assumption holds of these lanes and jobs, by name and in full,
\* as its lemmas ask for it.
LEMMA QueueAssumed ==
  /\ P!QueueAssumption
  /\ EveryLane \in [Worker -> SUBSET File]
  /\ File \subseteq File
  /\ LeaseTicks \in Nat \ {0}
  /\ MaxGeneration \in Nat \ {0}
BY SourcesAssumption DEF P!QueueAssumption, SourcesAssumption, EveryLane

\* The two instances of the queue have the same rows.
LEMMA SameTypes == P!TypeOK <=> Q!TypeOK
BY DEF P!TypeOK, Q!TypeOK, P!JobRow, Q!JobRow, P!JobState, Q!JobState,
       P!AttemptStatus, Q!AttemptStatus, P!WorkerState, Q!WorkerState, P!Idle, Q!Idle

\* The queues start alike.
LEMMA SameInit == Q!Init => P!Init
BY DEF Q!Init, P!Init, Q!Idle, P!Idle

\* A claim is a claim.
LEMMA SameClaim ==
  ASSUME NEW w \in Worker, NEW f \in File, Q!Claim(w, f)
  PROVE  P!Claim(w, f)
BY DEF Q!Claim, P!Claim, Q!Claimable, P!Claimable, Q!LeaseElapsed, P!LeaseElapsed,
       Q!CloseAbandoned, P!CloseAbandoned, Q!Idle, P!Idle, EveryLane

\* A completion is a completion.
LEMMA SameComplete ==
  ASSUME NEW w \in Worker, NEW target, Q!Complete(w, target)
  PROVE  P!Complete(w, target)
BY DEF Q!Complete, P!Complete, Q!HoldsLease, P!HoldsLease,
       Q!AfterCompletion, P!AfterCompletion, Q!Idle, P!Idle

\* Time passes in the queue.
LEMMA TickKeepsQueue == ASSUME P!IInv, Q!Tick PROVE P!IInv'
<1>1. P!Tick
  BY DEF Q!Tick, P!Tick
<1>2. P!Next
  BY <1>1 DEF P!Next
<1> QED
  BY <1>2, QueueAssumed, P!NextKeepsIInv

\* Each worker keeps its claim as it is, or forgets it.
OnlyForget ==
  /\ worker' \in [Worker -> P!WorkerState]
  /\ \A w \in Worker : worker'[w] = worker[w] \/ worker'[w] = Q!Idle

\* A step that leaves the workers alone, or in which one becomes idle.
LEMMA ForgettingIsOnlyThat ==
  ASSUME P!IInv, worker' = worker \/ \E w \in Worker : worker' = [worker EXCEPT ![w] = Q!Idle]
  PROVE  OnlyForget
<1>1. worker \in [Worker -> P!WorkerState]
  BY DEF P!IInv, P!TypeOK
<1>2. Q!Idle \in P!WorkerState
  BY DEF Q!Idle, P!Idle, P!WorkerState
<1> QED
  BY <1>1, <1>2 DEF OnlyForget

\* In the queue's terms.
LEMMA OnlyForgetForgets == ASSUME OnlyForget PROVE P!Forgets
BY DEF OnlyForget, P!Forgets, Q!Idle, P!Idle

\* What the queue's invariant says of one row.
LEMMA RowFacts ==
  ASSUME P!IInv, NEW f \in File
  PROVE  /\ jobs \in [File -> P!JobRow]
         /\ jobs[f].state \in P!JobState
         /\ jobs[f].lease_generation \in Nat
         /\ jobs[f].state # "running" => jobs[f].lease_token = 0
<1>1. jobs \in [File -> P!JobRow]
  BY DEF P!IInv, P!TypeOK
<1> QED
  BY <1>1 DEF P!JobRow, P!IInv, P!LeaseShape

\* A worker that executes or requeues holds an issued claim of a job.
LEMMA WorkerHoldsJob ==
  ASSUME P!IInv, NEW w \in Worker, worker[w].phase \in {"executing", "requeueing"}
  PROVE  /\ worker[w].job \in File
         /\ worker[w].lease_generation \in Nat \ {0}
         /\ worker[w].lease_generation <= jobs[worker[w].job].lease_generation
<1>1. worker \in [Worker -> P!WorkerState]
  BY DEF P!IInv, P!TypeOK
<1>2. worker[w] # P!Idle
  BY QueueAssumed, P!PhaseHoldsClaim
<1> QED
  BY <1>1, <1>2, QueueAssumed, P!HeldClaim DEF P!IInv, P!ClaimsIssued

-------------------------------------------------------------------------------
(* Steps of members and host that leave the extraction alone *)

\* Then everything about jobs, workers and files is kept.
LEMMA ExtractionUntouched ==
  ASSUME IInv, UNCHANGED <<jobs, attempts, results, worker, loaded, processing>>
  PROVE  /\ P!IInv'
         /\ RequeuersDecided'
         /\ CurrentClaimHasRevision'
         /\ ExtractionMatchesRevision'
         /\ RetryableHasAttemptsLeft'
<1>1. P!Forgets
  BY ForgettingIsOnlyThat, OnlyForgetForgets DEF IInv
<1>2. P!IInv'
  BY <1>1, QueueAssumed, P!ForgettingKeepsIInv DEF IInv
<1>3. RequeuersDecided' /\ CurrentClaimHasRevision'
  BY DEF IInv, RequeuersDecided, CurrentClaimHasRevision
<1>4. ExtractionMatchesRevision' /\ RetryableHasAttemptsLeft'
  BY DEF IInv, ExtractionMatchesRevision, RetryableHasAttemptsLeft
<1> QED
  BY <1>2, <1>3, <1>4

\* What is pinned stays pinned and ready as long as no file ceases to be ready.
LEMMA ReadyStaysPinned ==
  ASSUME PinnedStayReady, UNCHANGED pinned,
         \A f \in File : processing[f] = "ready" => processing'[f] = "ready"
  PROVE  PinnedStayReady'
BY DEF PinnedStayReady, IsReady

\* A text is submitted, a text is replaced, a submission is deleted.
LEMMA MembersKeepIInv ==
  ASSUME IInv, NEW s \in Submission,
         SubmitText(s) \/ ReplaceText(s) \/ Delete(s)
  PROVE  IInv'
<1>1. /\ UNCHANGED <<jobs, attempts, results, worker, loaded, processing>>
      /\ UNCHANGED <<session, pinned, excluded>>
  BY DEF SubmitText, ReplaceText, Delete, queue, snapshots
<1>2. submissions \in [Submission -> [state : {"absent", "live", "deleted"},
                                      revision_no : 0 .. MaxRevision]]
  BY DEF IInv, DomainTyped
<1>3. MaxRevision \in Nat \ {0} /\ Text \cap File = {}
  BY SourcesAssumption DEF SourcesAssumption
<1>4. CASE SubmitText(s)
  <2>1. s \in Text /\ submissions' = [submissions EXCEPT ![s] = [state |-> "live", revision_no |-> 1]]
    BY <1>4 DEF SubmitText, FirstRevision
  <2>2. DomainTyped'
    BY <1>1, <1>2, <1>3, <2>1 DEF IInv, DomainTyped
  <2>3. SubmissionsHaveRevisions'
    BY <1>1, <1>2, <1>3, <2>1 DEF IInv, SubmissionsHaveRevisions, Submission
  <2> QED
    BY <1>1, <2>2, <2>3, ExtractionUntouched, ReadyStaysPinned DEF IInv
<1>5. CASE ReplaceText(s)
  <2>1. /\ s \in Text
        /\ submissions[s].state # "absent"
        /\ submissions[s].revision_no < MaxRevision
        /\ submissions' = [submissions EXCEPT ![s].revision_no = submissions[s].revision_no + 1]
    BY <1>5 DEF ReplaceText
  <2>2. submissions[s].revision_no + 1 \in 0 .. MaxRevision /\ submissions[s].revision_no + 1 # 0
    BY <1>2, <1>3, <2>1
  <2>3. submissions' \in [Submission -> [state : {"absent", "live", "deleted"},
                                         revision_no : 0 .. MaxRevision]]
    BY <1>2, <2>1, <2>2
  <2>4. DomainTyped'
    BY <1>1, <2>3 DEF IInv, DomainTyped
  <2>5. SubmissionsHaveRevisions'
    <3>1. /\ \A t \in Submission : t # s => submissions'[t] = submissions[t]
          /\ submissions'[s].revision_no # 0
      BY <1>2, <2>1, <2>2
    <3> QED
      BY <1>1, <1>3, <2>1, <3>1 DEF IInv, SubmissionsHaveRevisions, Submission
  <2> QED
    BY <1>1, <2>4, <2>5, ExtractionUntouched, ReadyStaysPinned DEF IInv
<1>6. CASE Delete(s)
  <2>1. /\ submissions[s].state = "live"
        /\ submissions' = [submissions EXCEPT ![s] = [@ EXCEPT !.state = "deleted"]]
    BY <1>6 DEF Delete
  <2>2. submissions' \in [Submission -> [state : {"absent", "live", "deleted"},
                                         revision_no : 0 .. MaxRevision]]
    BY <1>2, <2>1
  <2>3. DomainTyped'
    BY <1>1, <2>2 DEF IInv, DomainTyped
  <2>4. SubmissionsHaveRevisions'
    <3>1. \A t \in Submission :
            /\ submissions'[t].revision_no = submissions[t].revision_no
            /\ submissions'[t].state = "absent" <=> submissions[t].state = "absent"
      BY <1>2, <2>1
    <3> QED
      BY <1>1, <3>1 DEF IInv, SubmissionsHaveRevisions, Submission
  <2> QED
    BY <1>1, <2>3, <2>4, ExtractionUntouched, ReadyStaysPinned DEF IInv
<1> QED
  BY <1>4, <1>5, <1>6

\* A current source is a revision that is there.
LEMMA CurrentSourcesAreRevisions == ASSUME IInv PROVE CurrentSources \subseteq Revision
<1> SUFFICES ASSUME NEW s \in Submission, submissions[s].state = "live"
             PROVE  CurrentRevision(s) \in Revision
  BY DEF CurrentSources
<1>1. submissions[s].revision_no \in 0 .. MaxRevision /\ submissions[s].revision_no # 0
  BY DEF IInv, DomainTyped, SubmissionsHaveRevisions
<1>2. submissions[s].revision_no \in 1 .. MaxRevision
  BY <1>1, SourcesAssumption DEF SourcesAssumption
<1> QED
  BY <1>2 DEF CurrentRevision, Revision

\* The close pins what is ready; an epoch that was not closed had nothing pinned.
LEMMA CloseKeepsIInv == ASSUME IInv, NEW exclusions, Close(exclusions) PROVE IInv'
<1>1. /\ UNCHANGED <<jobs, attempts, results, worker, loaded, processing, submissions>>
      /\ exclusions \subseteq CurrentSources
      /\ excluded' = excluded \cup exclusions
      /\ pinned' = [pinned EXCEPT ![session.epoch + 1] = Included(exclusions)]
      /\ session' = [state |-> "processing", epoch |-> session.epoch + 1]
      /\ session.epoch < MaxEpoch
  BY DEF Close, Eligible, queue, sources
<1>2. Included(exclusions) \subseteq Revision /\ exclusions \subseteq Revision
  BY <1>1, CurrentSourcesAreRevisions DEF Included
<1>3. MaxEpoch \in Nat /\ session.epoch \in 0 .. MaxEpoch /\ pinned \in [Epoch -> SUBSET Revision]
  BY SourcesAssumption DEF SourcesAssumption, IInv, DomainTyped
<1>4. session.epoch + 1 \in Epoch
  BY <1>1, <1>3 DEF Epoch
<1>5. session' \in [state : SessionState, epoch : 0 .. MaxEpoch]
  BY <1>1, <1>3 DEF SessionState
<1>6. DomainTyped'
  BY <1>1, <1>2, <1>3, <1>5 DEF IInv, DomainTyped
<1>7. SubmissionsHaveRevisions'
  BY <1>1 DEF IInv, SubmissionsHaveRevisions
<1>8. PinnedStayReady'
  <2> SUFFICES ASSUME NEW e \in Epoch, NEW r \in pinned'[e]
               PROVE  r.submission \in File => processing[r.submission] = "ready"
    BY <1>1 DEF PinnedStayReady, IsReady
  <2>1. CASE e = session.epoch + 1
    <3>1. r \in Included(exclusions)
      BY <1>1, <1>3, <2>1
    <3> QED
      BY <3>1 DEF Included, IsReady
  <2>2. CASE e # session.epoch + 1
    <3>1. r \in pinned[e]
      BY <1>1, <1>3, <2>2
    <3> QED
      BY <3>1 DEF IInv, PinnedStayReady, IsReady
  <2> QED
    BY <2>1, <2>2
<1> QED
  BY <1>1, <1>6, <1>7, <1>8, ExtractionUntouched DEF IInv

\* The reopening and the lanes' projection set the state of the session.
LEMMA SessionStateKeepsIInv ==
  ASSUME IInv, Reopen \/ GenerationProjects PROVE IInv'
<1>1. /\ UNCHANGED <<jobs, attempts, results, worker, loaded, processing, submissions>>
      /\ UNCHANGED <<pinned, excluded>>
      /\ \E state \in SessionState : session' = [session EXCEPT !.state = state]
  BY DEF Reopen, GenerationProjects, queue, sources, SessionState
<1>2. session' \in [state : SessionState, epoch : 0 .. MaxEpoch]
  BY <1>1 DEF IInv, DomainTyped
<1>3. DomainTyped' /\ SubmissionsHaveRevisions'
  BY <1>1, <1>2 DEF IInv, DomainTyped, SubmissionsHaveRevisions
<1> QED
  BY <1>1, <1>3, ExtractionUntouched, ReadyStaysPinned DEF IInv

-------------------------------------------------------------------------------
(* Jobs are put in or back *)

\* The files of S are queued, jobs and revisions alike.
PutsBack(S) ==
  /\ jobs' = [f \in File |-> IF f \in S THEN [jobs[f] EXCEPT !.state = "pending"] ELSE jobs[f]]
  /\ processing' = [f \in File |-> IF f \in S THEN "queued" ELSE processing[f]]
  /\ UNCHANGED <<attempts, results, loaded, session, pinned, excluded>>

\* That is sound for files whose jobs were never there or have failed.
LEMMA PuttingBackKeepsIInv ==
  ASSUME IInv, NEW S, PutsBack(S), OnlyForget,
         \A f \in File : f \in S =>
           jobs[f].state \in {"absent", "failed_retryable", "failed_terminal"},
         submissions' \in [Submission -> [state : {"absent", "live", "deleted"},
                                          revision_no : 0 .. MaxRevision]],
         \A s \in Submission : submissions'[s].state # "absent" => submissions'[s].revision_no # 0,
         \A f \in File : submissions'[f].state = "absent"
                           => f \notin S /\ submissions[f].state = "absent"
  PROVE  IInv'
<1>1. /\ processing' = [f \in File |-> IF f \in S THEN "queued" ELSE processing[f]]
      /\ UNCHANGED <<attempts, results, loaded, session, pinned, excluded>>
  BY DEF PutsBack
<1>2. P!IInv'
  <2>1. P!Forgets
    BY OnlyForgetForgets
  <2> QED
    BY <2>1, <1>1, QueueAssumed, P!PuttingSomeBackKeepsIInv DEF IInv, PutsBack
<1>3. \A f \in File : /\ jobs'[f].state = IF f \in S THEN "pending" ELSE jobs[f].state
                      /\ jobs'[f].lease_generation = jobs[f].lease_generation
  <2>1. jobs \in [File -> P!JobRow]
    BY DEF IInv, P!IInv, P!TypeOK
  <2> QED
    BY <2>1 DEF PutsBack, P!JobRow
<1>4. DomainTyped'
  BY <1>1 DEF IInv, DomainTyped, ProcessingState
<1>5. SubmissionsHaveRevisions'
  BY <1>1 DEF IInv, SubmissionsHaveRevisions
<1>6. ExtractionMatchesRevision'
  BY <1>1, <1>3 DEF IInv, ExtractionMatchesRevision
<1>7. RetryableHasAttemptsLeft'
  BY <1>3 DEF IInv, RetryableHasAttemptsLeft
<1>8. PinnedStayReady'
  <2>1. \A f \in File : processing[f] = "ready" => processing'[f] = "ready"
    BY <1>1 DEF IInv, ExtractionMatchesRevision
  <2> QED
    BY <1>1, <2>1, ReadyStaysPinned DEF IInv
<1>9. \A w \in Worker :
        worker'[w].phase \in {"executing", "requeueing"} =>
          worker'[w] = worker[w] /\ worker[w].job \in File
  BY WorkerHoldsJob DEF OnlyForget, IInv, Q!Idle
<1>10. RequeuersDecided'
  BY <1>3, <1>9 DEF IInv, RequeuersDecided
<1>11. CurrentClaimHasRevision'
  BY <1>1, <1>3, <1>9 DEF IInv, CurrentClaimHasRevision
<1> QED
  BY <1>2, <1>4, <1>5, <1>6, <1>7, <1>8, <1>10, <1>11 DEF IInv

\* The same where no submission changes: a file whose job failed was submitted.
LEMMA RequeueingKeepsIInv ==
  ASSUME IInv, NEW S, PutsBack(S), OnlyForget, UNCHANGED submissions,
         \A f \in File : f \in S => jobs[f].state \in {"failed_retryable", "failed_terminal"}
  PROVE  IInv'
<1>1. \A f \in File : submissions[f].state = "absent" => jobs[f].state = "absent"
  BY DEF IInv, SubmissionsHaveRevisions, ExtractionMatchesRevision
<1>2. /\ submissions \in [Submission -> [state : {"absent", "live", "deleted"},
                                         revision_no : 0 .. MaxRevision]]
      /\ \A s \in Submission : submissions[s].state # "absent" => submissions[s].revision_no # 0
  BY DEF IInv, DomainTyped, SubmissionsHaveRevisions
<1>3. \A f \in File : f \in S =>
        jobs[f].state \in {"absent", "failed_retryable", "failed_terminal"}
  OBVIOUS
<1> QED
  BY <1>1, <1>2, <1>3, PuttingBackKeepsIInv

\* A file is submitted, with its job.
LEMMA SubmitFileKeepsIInv == ASSUME IInv, NEW f \in File, SubmitFile(f) PROVE IInv'
<1> DEFINE S == {f}
<1>1. /\ submissions[f].state = "absent"
      /\ submissions' = [submissions EXCEPT ![f] = [state |-> "live", revision_no |-> 1]]
      /\ processing' = [processing EXCEPT ![f] = "queued"]
      /\ jobs' = IF jobs[f].state = "absent" THEN [jobs EXCEPT ![f].state = "pending"] ELSE jobs
      /\ UNCHANGED <<attempts, results, worker, loaded, session, pinned, excluded>>
  BY DEF SubmitFile, CanSubmit, FirstRevision, Q!Enqueue, snapshots
<1>2. jobs[f].state = "absent"
  BY <1>1 DEF IInv, SubmissionsHaveRevisions, ExtractionMatchesRevision
<1>3. /\ jobs \in [File -> P!JobRow]
      /\ processing \in [File -> ProcessingState]
      /\ submissions \in [Submission -> [state : {"absent", "live", "deleted"},
                                         revision_no : 0 .. MaxRevision]]
  BY DEF IInv, P!IInv, P!TypeOK, DomainTyped
<1>4. PutsBack(S)
  BY <1>1, <1>2, <1>3 DEF PutsBack
<1>5. f \in Submission /\ MaxRevision \in Nat \ {0}
  BY SourcesAssumption DEF Submission, SourcesAssumption
<1>6. /\ submissions' \in [Submission -> [state : {"absent", "live", "deleted"},
                                          revision_no : 0 .. MaxRevision]]
      /\ submissions'[f].state = "live"
      /\ submissions'[f].revision_no = 1
      /\ \A s \in Submission : s # f => submissions'[s] = submissions[s]
  BY <1>1, <1>3, <1>5
<1>7. /\ \A s \in Submission : submissions'[s].state # "absent" => submissions'[s].revision_no # 0
      /\ \A g \in File : submissions'[g].state = "absent"
                           => g \notin S /\ submissions[g].state = "absent"
  BY <1>6 DEF IInv, SubmissionsHaveRevisions, Submission
<1>8. \A g \in File : g \in S =>
        jobs[g].state \in {"absent", "failed_retryable", "failed_terminal"}
  BY <1>2
<1>9. OnlyForget
  BY <1>1, ForgettingIsOnlyThat DEF IInv
<1> HIDE DEF S
<1> QED
  BY <1>4, <1>6, <1>7, <1>8, <1>9, PuttingBackKeepsIInv

\* A member revives the job of a file that failed for good.
LEMMA RetryExtractionKeepsIInv == ASSUME IInv, NEW f \in File, RetryExtraction(f) PROVE IInv'
<1> DEFINE S == {f}
<1>1. /\ jobs[f].state = "failed_terminal"
      /\ jobs' = [jobs EXCEPT ![f].state = "pending"]
      /\ processing' = [processing EXCEPT ![f] = "queued"]
      /\ UNCHANGED <<attempts, results, worker, loaded, submissions, session, pinned, excluded>>
  BY DEF RetryExtraction, Q!Revive, snapshots
<1>2. jobs \in [File -> P!JobRow] /\ processing \in [File -> ProcessingState]
  BY DEF IInv, P!IInv, P!TypeOK, DomainTyped
<1>3. PutsBack(S)
  BY <1>1, <1>2 DEF PutsBack
<1>4. \A g \in File : g \in S => jobs[g].state \in {"failed_retryable", "failed_terminal"}
  BY <1>1
<1>5. OnlyForget
  BY <1>1, ForgettingIsOnlyThat DEF IInv
<1> HIDE DEF S
<1> QED
  BY <1>1, <1>3, <1>4, <1>5, RequeueingKeepsIInv

\* The reconciliation puts every stranded job back: none is left without an
\* attempt, so none is failed by it.
LEMMA ReconcileKeepsIInv == ASSUME IInv, Reconcile PROVE IInv'
<1> DEFINE stranded == {f \in File : jobs[f].state = "failed_retryable"
                                       /\ jobs[f].lease_token = 0}
           retry == {f \in stranded : jobs[f].lease_generation < MaxExtractionAttempts}
           fail == {f \in stranded \ retry : processing[f] = "queued"}
<1>1. /\ jobs' = [f \in File |->
                    CASE f \in retry -> [jobs[f] EXCEPT !.state = "pending"]
                      [] f \in fail  -> [jobs[f] EXCEPT !.state = "failed_terminal"]
                      [] OTHER       -> jobs[f]]
      /\ processing' = [f \in File |-> IF f \in fail THEN "failed" ELSE processing[f]]
      /\ UNCHANGED <<attempts, results, worker, loaded, submissions, session, pinned, excluded>>
  BY DEF Reconcile, snapshots
<1>2. stranded = retry /\ \A f \in File : f \in retry => jobs[f].state = "failed_retryable"
  BY DEF IInv, RetryableHasAttemptsLeft
<1>3. fail = {}
  BY <1>2
<1> HIDE DEF stranded, retry, fail
<1>4. jobs' = [f \in File |-> IF f \in retry THEN [jobs[f] EXCEPT !.state = "pending"] ELSE jobs[f]]
  BY <1>1, <1>3
<1>5. \A f \in File : f \in retry => processing[f] = "queued"
  BY <1>2 DEF IInv, ExtractionMatchesRevision
<1>6. processing' = [f \in File |-> IF f \in retry THEN "queued" ELSE processing[f]]
  BY <1>1, <1>3, <1>5
<1>7. PutsBack(retry)
  BY <1>1, <1>4, <1>6 DEF PutsBack
<1>8. OnlyForget
  BY <1>1, ForgettingIsOnlyThat DEF IInv
<1> QED
  BY <1>1, <1>2, <1>7, <1>8, RequeueingKeepsIInv

\* A worker requeues its job, or finds that somebody else did.
LEMMA RequeueKeepsIInv == ASSUME IInv, NEW w \in Worker, Requeue(w) PROVE IInv'
<1> DEFINE f == worker[w].job
           S == {g \in {f} : Q!RequeueMatches(f, worker[w].lease_generation)}
<1>1. /\ worker[w].phase = "requeueing"
      /\ jobs' = IF Q!RequeueMatches(f, worker[w].lease_generation)
                   THEN [jobs EXCEPT ![f].state = "pending"] ELSE jobs
      /\ worker' = [worker EXCEPT ![w] = Q!Idle]
      /\ UNCHANGED <<attempts, results, loaded, submissions, processing, session, pinned, excluded>>
  BY DEF Requeue, Q!Requeue, sources, snapshots
<1>2. f \in File
  BY <1>1, WorkerHoldsJob DEF IInv
<1>3. jobs \in [File -> P!JobRow] /\ processing \in [File -> ProcessingState]
  BY DEF IInv, P!IInv, P!TypeOK, DomainTyped
<1>4. \A g \in File : g \in S => jobs[g].state = "failed_retryable" /\ processing[g] = "queued"
  BY DEF Q!RequeueMatches, IInv, ExtractionMatchesRevision
<1>5. jobs' = [g \in File |-> IF g \in S THEN [jobs[g] EXCEPT !.state = "pending"] ELSE jobs[g]]
  <2>1. CASE Q!RequeueMatches(f, worker[w].lease_generation)
    BY <1>1, <1>2, <1>3, <2>1
  <2>2. CASE ~Q!RequeueMatches(f, worker[w].lease_generation)
    BY <1>1, <1>2, <1>3, <2>2
  <2> QED
    BY <2>1, <2>2
<1> HIDE DEF S
<1>6. PutsBack(S)
  BY <1>1, <1>3, <1>4, <1>5 DEF PutsBack
<1>7. OnlyForget
  BY <1>1, ForgettingIsOnlyThat DEF IInv
<1> QED
  BY <1>1, <1>4, <1>6, <1>7, RequeueingKeepsIInv

-------------------------------------------------------------------------------
(* The other steps of the workers *)

\* A late completion, a crash, and a step that does nothing.
LEMMA ForgettingKeepsIInv ==
  ASSUME IInv, OnlyForget, UNCHANGED <<jobs, attempts, results, loaded, submissions, processing,
                                       session, pinned, excluded>>
  PROVE  IInv'
<1> DEFINE S == {}
<1>1. jobs \in [File -> P!JobRow] /\ processing \in [File -> ProcessingState]
  BY DEF IInv, P!IInv, P!TypeOK, DomainTyped
<1>2. PutsBack(S)
  BY <1>1 DEF PutsBack
<1>3. \A f \in File : f \in S => jobs[f].state \in {"failed_retryable", "failed_terminal"}
  OBVIOUS
<1> HIDE DEF S
<1> QED
  BY <1>2, <1>3, RequeueingKeepsIInv

\* Time passes.
LEMMA TickKeepsIInv == ASSUME IInv, Tick PROVE IInv'
<1>1. /\ Q!Tick
      /\ UNCHANGED <<attempts, results, worker, loaded, submissions, processing,
                     session, pinned, excluded>>
  BY DEF Tick, Q!Tick, sources, snapshots
<1>2. P!IInv'
  BY <1>1, TickKeepsQueue DEF IInv
<1>3. jobs \in [File -> P!JobRow]
  BY DEF IInv, P!IInv, P!TypeOK
<1>4. \A f \in File : /\ jobs'[f].state = jobs[f].state
                      /\ jobs'[f].lease_generation = jobs[f].lease_generation
  BY <1>1, <1>3 DEF Q!Tick, P!JobRow
<1>5. \A w \in Worker : worker[w].phase \in {"executing", "requeueing"} => worker[w].job \in File
  BY WorkerHoldsJob DEF IInv
<1>6. DomainTyped' /\ SubmissionsHaveRevisions' /\ PinnedStayReady'
  BY <1>1, ReadyStaysPinned DEF IInv, DomainTyped, SubmissionsHaveRevisions
<1>7. ExtractionMatchesRevision' /\ RetryableHasAttemptsLeft'
  BY <1>1, <1>4 DEF IInv, ExtractionMatchesRevision, RetryableHasAttemptsLeft
<1>8. RequeuersDecided' /\ CurrentClaimHasRevision'
  BY <1>1, <1>4, <1>5 DEF IInv, RequeuersDecided, CurrentClaimHasRevision
<1> QED
  BY <1>2, <1>6, <1>7, <1>8 DEF IInv

\* A worker reads the revision.  Under the current claim of a running job it
\* finds it queued.
LEMMA LoadKeepsIInv == ASSUME IInv, NEW w \in Worker, Load(w) PROVE IInv'
<1>1. /\ worker[w].phase = "executing"
      /\ loaded' = [loaded EXCEPT ![w] =
                      IF processing[worker[w].job] = "queued" THEN "queued" ELSE "unavailable"]
      /\ UNCHANGED <<jobs, attempts, results, worker, submissions, processing,
                     session, pinned, excluded>>
  BY DEF Load, queue, sources, snapshots
<1>2. P!IInv'
  BY <1>1, ForgettingIsOnlyThat, OnlyForgetForgets, QueueAssumed, P!ForgettingKeepsIInv DEF IInv
<1>3. loaded \in [Worker -> {"unread", "queued", "unavailable"}] /\ worker[w].job \in File
  BY <1>1, WorkerHoldsJob DEF IInv, DomainTyped
<1>4. DomainTyped'
  <2>1. loaded' \in [Worker -> {"unread", "queued", "unavailable"}]
    BY <1>1, <1>3
  <2> QED
    BY <1>1, <2>1 DEF IInv, DomainTyped
<1>5. SubmissionsHaveRevisions' /\ PinnedStayReady'
  BY <1>1, ReadyStaysPinned DEF IInv, SubmissionsHaveRevisions
<1>6. ExtractionMatchesRevision' /\ RetryableHasAttemptsLeft' /\ RequeuersDecided'
  BY <1>1 DEF IInv, ExtractionMatchesRevision, RetryableHasAttemptsLeft, RequeuersDecided
<1>7. CurrentClaimHasRevision'
  <2>1. jobs[worker[w].job].state = "running" => loaded'[w] = "queued"
    BY <1>1, <1>3 DEF IInv, ExtractionMatchesRevision
  <2>2. \A v \in Worker : v # w => loaded'[v] = loaded[v]
    BY <1>1, <1>3
  <2> QED
    BY <1>1, <2>1, <2>2 DEF IInv, CurrentClaimHasRevision
<1> QED
  BY <1>2, <1>4, <1>5, <1>6, <1>7 DEF IInv

\* A claim makes the earlier claims of the job past ones, and has not read the
\* revision.
LEMMA ClaimKeepsIInv == ASSUME IInv, NEW w \in Worker, Claim(w) PROVE IInv'
<1>1. PICK f \in File : Q!Claim(w, f)
  BY DEF Claim
<1> DEFINE next == jobs[f].lease_generation + 1
<1>2. /\ jobs[f].state \in {"pending", "running"}
      /\ jobs' = [jobs EXCEPT ![f] = [state |-> "running", lease_generation |-> next,
                                      lease_token |-> next, lease_left |-> LeaseTicks]]
      /\ worker' = [worker EXCEPT ![w] = [phase |-> "executing", job |-> f,
                                          lease_generation |-> next]]
      /\ loaded' = [loaded EXCEPT ![w] = "unread"]
      /\ UNCHANGED <<submissions, processing, session, pinned, excluded>>
  BY <1>1 DEF Claim, Q!Claim, Q!Claimable, Q!LeaseElapsed, sources, snapshots
<1>3. P!IInv'
  BY <1>1, SameClaim, QueueAssumed, P!ClaimKeepsIInv DEF IInv
<1>4. /\ jobs \in [File -> P!JobRow]
      /\ worker \in [Worker -> P!WorkerState]
      /\ loaded \in [Worker -> {"unread", "queued", "unavailable"}]
      /\ jobs[f].lease_generation \in Nat
  BY RowFacts DEF IInv, P!IInv, P!TypeOK, DomainTyped
<1>5. /\ jobs'[f].state = "running"
      /\ jobs'[f].lease_generation = next
      /\ \A k \in File : k # f => jobs'[k] = jobs[k]
      /\ worker'[w].phase = "executing"
      /\ loaded'[w] = "unread"
      /\ \A v \in Worker : v # w => worker'[v] = worker[v] /\ loaded'[v] = loaded[v]
  BY <1>2, <1>4
<1>6. DomainTyped'
  <2>1. loaded' \in [Worker -> {"unread", "queued", "unavailable"}]
    BY <1>2, <1>4
  <2> QED
    BY <1>2, <2>1 DEF IInv, DomainTyped
<1>7. SubmissionsHaveRevisions' /\ PinnedStayReady'
  BY <1>2, ReadyStaysPinned DEF IInv, SubmissionsHaveRevisions
<1>8. ExtractionMatchesRevision'
  BY <1>2, <1>5 DEF IInv, ExtractionMatchesRevision
<1>9. RetryableHasAttemptsLeft'
  BY <1>5 DEF IInv, RetryableHasAttemptsLeft
<1>10. \A v \in Worker :
         v # w /\ worker[v].phase \in {"executing", "requeueing"} =>
           /\ worker[v].job \in File
           /\ worker[v].job = f => worker[v].lease_generation # next
  <2> SUFFICES ASSUME NEW v \in Worker, v # w, worker[v].phase \in {"executing", "requeueing"}
               PROVE  /\ worker[v].job \in File
                      /\ worker[v].job = f => worker[v].lease_generation # next
    OBVIOUS
  <2>1. /\ worker[v].job \in File
        /\ worker[v].lease_generation \in Nat \ {0}
        /\ worker[v].lease_generation <= jobs[worker[v].job].lease_generation
    BY WorkerHoldsJob DEF IInv
  <2> QED
    BY <1>4, <2>1
<1> HIDE DEF next
<1>11. RequeuersDecided'
  <2> SUFFICES ASSUME NEW v \in Worker, worker'[v].phase = "requeueing"
               PROVE  /\ jobs'[worker'[v].job].state # "absent"
                      /\ jobs'[worker'[v].job].state = "running"
                           => jobs'[worker'[v].job].lease_generation # worker'[v].lease_generation
    BY DEF RequeuersDecided
  <2>1. v # w /\ worker'[v] = worker[v] /\ worker[v].phase = "requeueing"
    BY <1>5
  <2>2. CASE worker[v].job = f
    BY <1>5, <1>10, <2>1, <2>2
  <2>3. CASE worker[v].job # f
    BY <1>5, <1>10, <2>1, <2>3 DEF IInv, RequeuersDecided
  <2> QED
    BY <2>2, <2>3
<1>12. CurrentClaimHasRevision'
  <2> SUFFICES ASSUME NEW v \in Worker,
                      worker'[v].phase = "executing",
                      jobs'[worker'[v].job].state = "running",
                      jobs'[worker'[v].job].lease_generation = worker'[v].lease_generation
               PROVE  loaded'[v] # "unavailable"
    BY DEF CurrentClaimHasRevision
  <2>1. CASE v = w
    BY <1>5, <2>1
  <2>2. CASE v # w
    <3>1. worker'[v] = worker[v] /\ loaded'[v] = loaded[v]
      BY <1>5, <2>2
    <3>2. worker[v].job \in File /\ worker[v].job # f
      BY <1>5, <1>10, <2>2, <3>1
    <3> QED
      BY <1>5, <3>1, <3>2 DEF IInv, CurrentClaimHasRevision
  <2> QED
    BY <2>1, <2>2
<1> QED
  BY <1>3, <1>6, <1>7, <1>8, <1>9, <1>11, <1>12 DEF IInv

\* What a completion leaves in the processing state of a queued revision.
LEMMA SettledStates ==
  /\ Settled("succeeded") = "ready"
  /\ Settled("failed_terminal") = "failed"
  /\ Settled("failed_retryable") = "queued"
BY DEF Settled

\* The completion decides job and revision together.
LEMMA CompleteKeepsIInv == ASSUME IInv, NEW w \in Worker, Complete(w) PROVE IInv'
<1> DEFINE f == worker[w].job
           g == worker[w].lease_generation
<1>1. PICK outcome \in Q!CompletionState :
        Q!Complete(w, Target(outcome, w)) /\ Effect(f, Target(outcome, w), w)
  BY DEF Complete
<1>2. PICK target \in P!CompletionState : target = Target(outcome, w)
  BY DEF Target, Q!CompletionState, P!CompletionState
<1>3. Q!Complete(w, target) /\ Effect(f, target, w)
  BY <1>1, <1>2
<1>4. /\ target = "failed_retryable" => ~(g >= MaxExtractionAttempts)
      /\ target \in {"succeeded", "failed_retryable", "failed_terminal"}
  BY <1>2 DEF Target, P!CompletionState
<1>5. UNCHANGED <<loaded, submissions, session, pinned, excluded>>
  BY DEF Complete, snapshots
<1>6. /\ worker[w].phase = "executing"
      /\ jobs[f].state = "running"
      /\ jobs[f].lease_generation = g
      /\ jobs' = [jobs EXCEPT ![f] = [state |-> target, lease_generation |-> g,
                                      lease_token |-> 0, lease_left |-> 0]]
      /\ worker' = [worker EXCEPT ![w] = Q!AfterCompletion(w, target)]
  BY <1>3 DEF Q!Complete, Q!HoldsLease
<1>7. P!IInv'
  BY <1>3, SameComplete, QueueAssumed, P!CompleteKeepsIInv DEF IInv
<1>8. f \in File /\ g \in Nat \ {0}
  BY <1>6, WorkerHoldsJob DEF IInv
<1>9. /\ jobs \in [File -> P!JobRow]
      /\ worker \in [Worker -> P!WorkerState]
      /\ processing \in [File -> ProcessingState]
  BY DEF IInv, P!IInv, P!TypeOK, DomainTyped
<1>10. /\ jobs'[f].state = target
       /\ jobs'[f].lease_generation = g
       /\ \A k \in File : k # f => jobs'[k] = jobs[k]
  BY <1>6, <1>8, <1>9
<1>11. processing[f] = "queued"
  BY <1>6, <1>8 DEF IInv, ExtractionMatchesRevision
<1>12. processing' = [processing EXCEPT ![f] = Settled(target)]
  <2>1. loaded[w] # "unavailable"
    BY <1>6 DEF IInv, CurrentClaimHasRevision
  <2> QED
    BY <1>3, <2>1 DEF Effect
<1>13. /\ processing'[f] = Settled(target)
       /\ \A k \in File : k # f => processing'[k] = processing[k]
       /\ processing' \in [File -> ProcessingState]
  BY <1>4, <1>8, <1>9, <1>12, SettledStates DEF ProcessingState
<1>14. DomainTyped'
  BY <1>5, <1>13 DEF IInv, DomainTyped
<1>15. SubmissionsHaveRevisions'
  BY <1>5, <1>11, <1>13 DEF IInv, SubmissionsHaveRevisions
<1>16. PinnedStayReady'
  BY <1>5, <1>11, <1>13, ReadyStaysPinned DEF IInv
<1>17. ExtractionMatchesRevision'
  <2> SUFFICES ASSUME NEW k \in File
               PROVE  /\ processing'[k] = "absent" <=> jobs'[k].state = "absent"
                      /\ processing'[k] = "queued"
                           <=> jobs'[k].state \in {"pending", "running", "failed_retryable"}
                      /\ processing'[k] = "ready" <=> jobs'[k].state = "succeeded"
                      /\ processing'[k] = "failed" <=> jobs'[k].state = "failed_terminal"
    BY DEF ExtractionMatchesRevision
  <2>1. CASE k = f
    BY <1>4, <1>10, <1>13, <2>1, SettledStates
  <2>2. CASE k # f
    BY <1>10, <1>13, <2>2 DEF IInv, ExtractionMatchesRevision
  <2> QED
    BY <2>1, <2>2
<1>18. RetryableHasAttemptsLeft'
  <2>1. MaxExtractionAttempts \in Nat
    BY SourcesAssumption DEF SourcesAssumption
  <2> QED
    BY <1>4, <1>8, <1>10, <2>1 DEF IInv, RetryableHasAttemptsLeft
<1>19. \A v \in Worker : v # w => worker'[v] = worker[v]
  BY <1>6, <1>9
<1>20. /\ worker'[w].phase # "executing"
       /\ worker'[w].phase = "requeueing" => worker'[w].job = f
  <2>1. worker'[w] = Q!AfterCompletion(w, target)
    BY <1>6, <1>9
  <2>2. CASE Q!AfterCompletion(w, target) = Q!Idle
    BY <2>1, <2>2 DEF Q!Idle
  <2>3. CASE Q!AfterCompletion(w, target) = [worker[w] EXCEPT !.phase = "requeueing"]
    <3>1. worker[w] \in [phase : {"executing", "requeueing"}, job : File,
                         lease_generation : Nat \ {0}]
      BY <1>6, <1>9 DEF P!WorkerState, P!Idle
    <3> QED
      BY <2>1, <2>3, <3>1
  <2> QED
    BY <2>2, <2>3 DEF Q!AfterCompletion
<1>21. \A v \in Worker : worker[v].phase \in {"executing", "requeueing"} => worker[v].job \in File
  BY WorkerHoldsJob DEF IInv
<1>22. RequeuersDecided'
  <2> SUFFICES ASSUME NEW v \in Worker, worker'[v].phase = "requeueing"
               PROVE  /\ jobs'[worker'[v].job].state # "absent"
                      /\ jobs'[worker'[v].job].state = "running"
                           => jobs'[worker'[v].job].lease_generation # worker'[v].lease_generation
    BY DEF RequeuersDecided
  <2>1. CASE worker'[v].job = f
    BY <1>4, <1>10, <2>1
  <2>2. CASE worker'[v].job # f
    <3>1. v # w /\ worker'[v] = worker[v]
      BY <1>19, <1>20, <2>2
    <3> QED
      BY <1>10, <1>21, <2>2, <3>1 DEF IInv, RequeuersDecided
  <2> QED
    BY <2>1, <2>2
<1>23. CurrentClaimHasRevision'
  <2> SUFFICES ASSUME NEW v \in Worker,
                      worker'[v].phase = "executing",
                      jobs'[worker'[v].job].state = "running",
                      jobs'[worker'[v].job].lease_generation = worker'[v].lease_generation
               PROVE  loaded'[v] # "unavailable"
    BY DEF CurrentClaimHasRevision
  <2>1. v # w /\ worker'[v] = worker[v]
    BY <1>19, <1>20
  <2>2. worker[v].job \in File /\ worker[v].job # f
    BY <1>4, <1>10, <1>21, <2>1
  <2> QED
    BY <1>5, <1>10, <2>1, <2>2 DEF IInv, CurrentClaimHasRevision
<1> QED
  BY <1>7, <1>14, <1>15, <1>16, <1>17, <1>18, <1>22, <1>23 DEF IInv

-------------------------------------------------------------------------------
(* Theorems *)

\* The tables start empty, the session open and the workers idle.
LEMMA InitIInv == ASSUME Init PROVE IInv
<1>1. P!IInv
  BY SameInit, QueueAssumed, P!InitIInv DEF Init
<1>2. /\ loaded = [w \in Worker |-> "unread"]
      /\ submissions = [s \in Submission |-> [state |-> "absent", revision_no |-> 0]]
      /\ processing = [f \in File |-> "absent"]
      /\ session = [state |-> "open", epoch |-> 0]
      /\ pinned = [e \in Epoch |-> {}]
      /\ excluded = {}
      /\ \A f \in File : jobs[f].state = "absent"
      /\ \A w \in Worker : worker[w] = Q!Idle
  BY DEF Init, Q!Init
<1>3. MaxRevision \in Nat /\ MaxEpoch \in Nat
  BY SourcesAssumption DEF SourcesAssumption
<1>4. DomainTyped
  BY <1>2, <1>3 DEF DomainTyped, SessionState, ProcessingState
<1>5. SubmissionsHaveRevisions
  BY <1>2 DEF SubmissionsHaveRevisions
<1>6. RequeuersDecided /\ CurrentClaimHasRevision
  BY <1>2 DEF RequeuersDecided, CurrentClaimHasRevision, Q!Idle
<1>7. ExtractionMatchesRevision /\ RetryableHasAttemptsLeft /\ PinnedStayReady
  BY <1>2 DEF ExtractionMatchesRevision, RetryableHasAttemptsLeft, PinnedStayReady
<1> QED
  BY <1>1, <1>4, <1>5, <1>6, <1>7 DEF IInv

\* Every action of the members, of the host and of the workers keeps the invariant.
LEMMA NextKeepsIInv == ASSUME IInv, [Next]_vars PROVE IInv'
<1>1. ASSUME NEW w \in Worker, CompleteStale(w) \/ Crash(w) PROVE IInv'
  <2>1. OnlyForget
    BY <1>1, ForgettingIsOnlyThat DEF CompleteStale, Crash, Q!CompleteStale, Q!Crash, IInv
  <2>2. UNCHANGED <<jobs, attempts, results, loaded, submissions, processing,
                    session, pinned, excluded>>
    BY <1>1 DEF CompleteStale, Crash, Q!CompleteStale, Q!Crash, sources, snapshots
  <2> QED
    BY <2>1, <2>2, ForgettingKeepsIInv
<1>2. CASE UNCHANGED vars
  <2>1. OnlyForget
    BY <1>2, ForgettingIsOnlyThat DEF vars, queue, IInv
  <2>2. UNCHANGED <<jobs, attempts, results, loaded, submissions, processing,
                    session, pinned, excluded>>
    BY <1>2 DEF vars, queue, sources, snapshots
  <2> QED
    BY <2>1, <2>2, ForgettingKeepsIInv
<1>3. ASSUME NEW s \in Text, SubmitText(s) \/ ReplaceText(s) PROVE IInv'
  BY <1>3, MembersKeepIInv DEF Submission
<1>4. ASSUME NEW s \in Submission, Delete(s) PROVE IInv'
  BY <1>4, MembersKeepIInv
<1>5. ASSUME NEW f \in File, SubmitFile(f) \/ RetryExtraction(f) PROVE IInv'
  BY <1>5, SubmitFileKeepsIInv, RetryExtractionKeepsIInv
<1>6. ASSUME NEW exclusions \in SUBSET CurrentSources, Close(exclusions) PROVE IInv'
  BY <1>6, CloseKeepsIInv
<1>7. CASE Reopen \/ GenerationProjects
  BY <1>7, SessionStateKeepsIInv
<1>8. ASSUME NEW w \in Worker, Claim(w) \/ Load(w) \/ Complete(w) \/ Requeue(w) PROVE IInv'
  BY <1>8, ClaimKeepsIInv, LoadKeepsIInv, CompleteKeepsIInv, RequeueKeepsIInv
<1> QED
  BY <1>1, <1>2, <1>3, <1>4, <1>5, <1>6, <1>7, <1>8, ReconcileKeepsIInv, TickKeepsIInv DEF Next

\* Jobs, files, submissions and snapshots agree in every reachable state.
THEOREM Inductive == Spec => []IInv
<1>1. Init => IInv
  BY InitIInv
<1>2. IInv /\ [Next]_vars => IInv'
  BY NextKeepsIInv
<1> QED
  BY <1>1, <1>2, PTL DEF Spec

\* The worker's completion, its requeue, the reconciliation of another worker and
\* a member's retry keep a file and its job in agreement, leave no job to be
\* retried without an attempt, and never end a worker whose requeue came too late.
THEOREM FilesFollowJobs == Spec => []FilesAndJobsAgree
<1>1. ASSUME IInv PROVE FilesAndJobsAgree
  <2>1. TypeOK
    BY <1>1, SameTypes DEF IInv, P!IInv, DomainTyped, TypeOK
  <2>2. RequeueNeverRaises
    <3> SUFFICES ASSUME NEW w \in Worker, worker[w].phase = "requeueing"
                 PROVE  \/ Q!RequeueMatches(worker[w].job, worker[w].lease_generation)
                        \/ BenignWinner(worker[w].job, worker[w].lease_generation)
      BY DEF RequeueNeverRaises
    <3> DEFINE f == worker[w].job
               g == worker[w].lease_generation
    <3>1. f \in File /\ g \in Nat /\ g <= jobs[f].lease_generation
      BY <1>1, WorkerHoldsJob DEF IInv
    <3>2. /\ jobs[f].state # "absent"
          /\ jobs[f].state = "running" => jobs[f].lease_generation # g
      BY <1>1 DEF IInv, RequeuersDecided
    <3>3. /\ jobs[f].state \in P!JobState
          /\ jobs[f].lease_generation \in Nat
          /\ jobs[f].state # "running" => jobs[f].lease_token = 0
      BY <1>1, <3>1, RowFacts DEF IInv
    <3> QED
      BY <3>1, <3>2, <3>3 DEF P!JobState, Q!RequeueMatches, BenignWinner
  <2> QED
    BY <1>1, <2>1, <2>2 DEF IInv, FilesAndJobsAgree
<1> QED
  BY <1>1, Inductive, PTL

\* No retry, reconciliation or late completion takes a revision out of ready that
\* a snapshot has pinned.
THEOREM PinnedRevisionsStay == Spec => []PinnedStayReady
<1>1. IInv => PinnedStayReady
  BY DEF IInv
<1> QED
  BY <1>1, Inductive, PTL

\* AC-06: the close puts every current revision into the snapshot or records its
\* exclusion.
THEOREM ClosesAccount == Spec => CloseAccountsForSources
<1>1. ASSUME IInv, [Next]_vars
      PROVE  [session'.epoch # session.epoch =>
                \A r \in CurrentSources :
                  \/ r \in excluded'
                  \/ IsReady(r) /\ r \in pinned'[session'.epoch]]_vars
  <2> SUFFICES ASSUME session'.epoch # session.epoch, NEW r \in CurrentSources
               PROVE  r \in excluded' \/ (IsReady(r) /\ r \in pinned'[session'.epoch])
    OBVIOUS
  <2>1. /\ session \in [state : SessionState, epoch : 0 .. MaxEpoch]
        /\ pinned \in [Epoch -> SUBSET Revision]
        /\ MaxEpoch \in Nat
    BY <1>1, SourcesAssumption DEF IInv, DomainTyped, SourcesAssumption
  <2>2. ASSUME \E state : session' = [session EXCEPT !.state = state] PROVE FALSE
    BY <2>1, <2>2
  <2>3. session' # session
    OBVIOUS
  <2>4. PICK exclusions \in SUBSET CurrentSources : Close(exclusions)
    BY <1>1, <2>2, <2>3
       DEF Next, vars, snapshots, SubmitText, ReplaceText, SubmitFile, RetryExtraction, Delete,
           Reopen, GenerationProjects, Reconcile, Claim, Load, Complete, CompleteStale,
           Requeue, Crash, Tick
  <2>5. /\ Eligible(exclusions)
        /\ excluded' = excluded \cup exclusions
        /\ pinned' = [pinned EXCEPT ![session.epoch + 1] = Included(exclusions)]
        /\ session'.epoch = session.epoch + 1
        /\ session.epoch + 1 \in Epoch
    BY <2>1, <2>4 DEF Close, Epoch
  <2>6. pinned'[session'.epoch] = Included(exclusions)
    BY <2>1, <2>5
  <2> QED
    BY <2>5, <2>6 DEF Eligible, Included
<1> QED
  BY <1>1, Inductive, PTL DEF Spec, CloseAccountsForSources
===============================================================================
