-------------------------- MODULE GenerationSession --------------------------
(***************************************************************************)
(* One talk session through its generation epochs: the host closes it,     *)
(* retries it and reopens it (session_service.py,                          *)
(* session_retry_service.py) while the summary and the research lane work  *)
(* through its generation jobs (generation_worker.py) and project their    *)
(* outcome into the session (generation_repository.py).                    *)
(*                                                                         *)
(* The jobs live in JobQueue, which this module instantiates: a generation *)
(* job of the queue is an epoch's snapshot and a kind.  A completion is    *)
(* the queue's compare-and-set together with the effect it carries: one    *)
(* transaction, one action.                                                *)
(***************************************************************************)
EXTENDS Naturals, Sequences, FiniteSets

CONSTANTS
  Worker,               \* generation threads of the orchestrators
  LaneKinds,            \* LaneKinds[w]: the kinds worker w claims
  MaxEpoch,             \* bound on the host's closes
  MaxResearchAttempts,  \* _MAX_RESEARCH_ATTEMPTS
  LeaseTicks,
  MaxGeneration

Kind == {"summary", "research"}
Epoch == 1 .. MaxEpoch

\* The job of logical key generation:<snapshot>:<kind>:<pipeline>.
Job == [epoch : Epoch, kind : Kind]

ASSUME SessionAssumption ==
  /\ LaneKinds \in [Worker -> SUBSET Kind]
  /\ MaxEpoch \in Nat \ {0}
  /\ MaxResearchAttempts \in Nat \ {0}
  /\ LeaseTicks \in Nat \ {0}
  /\ MaxGeneration \in Nat \ {0}

VARIABLES
  jobs, attempts, results, worker,  \* the queue
  session,    \* the talk_sessions row: state and generation_epoch
  runs,       \* generation_runs, one for each job
  documents,  \* the runs with a generated_documents row
  suggested,  \* the snapshots with a report_suggestions job
  notified    \* the epochs whose dedupe key analysis:<session>:<epoch> is used

queue == <<jobs, attempts, results, worker>>
domain == <<session, runs, documents, suggested, notified>>
vars == <<queue, domain>>

Q == INSTANCE JobQueue
       WITH Lane <- [w \in Worker |-> {j \in Job : j.kind \in LaneKinds[w]}],
            AutoRequeue <- {j \in Job : j.kind = "research"},
            Revivable <- {}

\* A session is created open; closed is passed through inside one transaction.
SessionState == {"open", "processing", "ready", "needs_attention"}

\* No caller of mark_running exists, so a run is never "running".
RunState == {"absent", "queued", "succeeded", "failed_retryable", "failed_terminal"}

TypeOK ==
  /\ Q!TypeOK
  /\ session \in [state : SessionState, epoch : 0 .. MaxEpoch]
  /\ runs \in [Job -> RunState]
  /\ documents \subseteq Job
  /\ suggested \subseteq Epoch
  /\ notified \subseteq Epoch

Init ==
  /\ Q!Init
  /\ session = [state |-> "open", epoch |-> 0]
  /\ runs = [j \in Job |-> "absent"]
  /\ documents = {}
  /\ suggested = {}
  /\ notified = {}

JobsOf(e) == {j \in Job : j.epoch = e}

-------------------------------------------------------------------------------
(* The host *)

\* Fault: the runs of the new snapshot get no jobs.
CloseWithoutJobs ==
  /\ session.state = "open"
  /\ session.epoch < MaxEpoch
  /\ session' = [state |-> "processing", epoch |-> session.epoch + 1]
  /\ runs' = [j \in Job |-> IF j.epoch = session.epoch + 1 THEN "queued" ELSE runs[j]]
  /\ UNCHANGED <<queue, documents, suggested, notified>>

\* Fault: the work of the earlier snapshots is put back with the new one.
CloseRequeuesAll ==
  /\ session.state = "open"
  /\ session.epoch < MaxEpoch
  /\ LET upTo == {j \in Job : j.epoch <= session.epoch + 1}
     IN  /\ session' = [state |-> "processing", epoch |-> session.epoch + 1]
         /\ runs' = [j \in Job |-> IF j \in upTo THEN "queued" ELSE runs[j]]
         /\ jobs' = [j \in Job |-> IF j \in upTo
                                     THEN [jobs[j] EXCEPT !.state = "pending"]
                                     ELSE jobs[j]]
  /\ UNCHANGED <<attempts, results, worker, documents, suggested, notified>>

\* Which revisions the snapshot pins is the business of another module.  A
\* close of a session that is not open returns its latest snapshot and writes
\* nothing.
Close ==
  /\ session.state = "open"
  /\ session.epoch < MaxEpoch
  /\ LET epoch == session.epoch + 1
     IN  /\ session' = [state |-> "processing", epoch |-> epoch]
         /\ runs' = [j \in Job |-> IF j \in JobsOf(epoch) THEN "queued" ELSE runs[j]]
         /\ jobs' = [j \in Job |-> IF j \in JobsOf(epoch)
                                     THEN [jobs[j] EXCEPT !.state = "pending"]
                                     ELSE jobs[j]]
  /\ UNCHANGED <<attempts, results, worker, documents, suggested, notified>>

Reopen ==
  /\ session.state \in {"ready", "needs_attention"}
  /\ session' = [session EXCEPT !.state = "open"]
  /\ UNCHANGED <<queue, runs, documents, suggested, notified>>

\* The runs of the latest snapshot that the retry puts back.
Retryable == {j \in JobsOf(session.epoch) : runs[j] = "failed_retryable"}

JobCanBeRetried(j) == jobs[j].state = "failed_retryable" /\ jobs[j].lease_token = 0

\* All or nothing: a job that is no longer failed_retryable raises, and the
\* transaction rolls back.
Retry ==
  /\ session.state = "needs_attention"
  /\ Retryable # {}
  /\ \A j \in Retryable : JobCanBeRetried(j)
  /\ jobs' = [j \in Job |-> IF j \in Retryable
                              THEN [jobs[j] EXCEPT !.state = "pending"]
                              ELSE jobs[j]]
  /\ runs' = [j \in Job |-> IF j \in Retryable THEN "queued" ELSE runs[j]]
  /\ session' = [session EXCEPT !.state = "processing"]
  /\ UNCHANGED <<attempts, results, worker, documents, suggested, notified>>

-------------------------------------------------------------------------------
(* The lanes *)

\* Fault: one success is enough.
OptimisticProjection(states) ==
  IF "succeeded" \in states THEN "ready"
    ELSE IF "queued" \in states THEN "processing"
    ELSE "needs_attention"

\* domain/policies.py, the two-kind combination table, for the runs of one
\* snapshot.  Close creates both runs, so none is ever missing.
Projection(states) ==
  IF states = {"succeeded"} THEN "ready"
    ELSE IF "queued" \in states THEN "processing"
    ELSE "needs_attention"

\* The projection goes to the session that owns the snapshot, whichever epoch
\* and state that session has reached; so does the notice of a transition to
\* ready, which is keyed by the session's epoch and inserted once for a key.
RecomputeAggregate(e) ==
  LET state == Projection({runs'[j] : j \in JobsOf(e)})
  IN  /\ session' = [session EXCEPT !.state = state]
      /\ notified' = IF state = "ready" /\ session.state # "ready"
                       THEN notified \cup {session.epoch}
                       ELSE notified
      /\ suggested' = IF state = "ready" THEN suggested \cup {e} ELSE suggested

Writable(j) == runs[j] \in {"queued", "failed_retryable"}

\* The last automatic attempt of a research job fails for good.
CapResearchRetries(target, claimed) ==
  IF /\ target = "failed_retryable"
     /\ claimed.job.kind = "research"
     /\ claimed.lease_generation >= MaxResearchAttempts
    THEN "failed_terminal"
    ELSE target

\* Fault: a terminal failure is left to the job.
PersistForgetsFailure(j, target) ==
  /\ Writable(j)
  /\ runs' = [runs EXCEPT ![j] = IF target = "failed_terminal" THEN @ ELSE target]
  /\ documents' = IF target = "succeeded" THEN documents \cup {j} ELSE documents
  /\ RecomputeAggregate(j.epoch)

\* persist_success or persist_failure, the effect of the completion.
Persist(j, target) ==
  /\ Writable(j)
  /\ runs' = [runs EXCEPT ![j] = target]
  /\ documents' = IF target = "succeeded" THEN documents \cup {j} ELSE documents
  /\ RecomputeAggregate(j.epoch)

\* The executed outcome is what the provider made of it.  A run that is not
\* writable raises: the transaction rolls back and the lane dies (Crash).
Complete(w) ==
  /\ worker[w].phase = "executing"
  /\ \E outcome \in Q!CompletionState :
       LET target == CapResearchRetries(outcome, worker[w])
       IN  /\ Q!Complete(w, target)
           /\ Persist(worker[w].job, target)

Claim(w) == \E j \in Job : Q!Claim(w, j) /\ UNCHANGED domain
CompleteStale(w) == Q!CompleteStale(w) /\ UNCHANGED domain
RetryResearch(w) == Q!Requeue(w) /\ UNCHANGED domain
Crash(w) == Q!Crash(w) /\ UNCHANGED domain
Tick == Q!Tick /\ UNCHANGED domain

Next ==
  \/ Close
  \/ Reopen
  \/ Retry
  \/ \E w \in Worker :
       Claim(w) \/ Complete(w) \/ CompleteStale(w) \/ RetryResearch(w) \/ Crash(w)
  \/ Tick

Spec == Init /\ [][Next]_vars

\* The lanes poll for ever, provider calls time out and leases run out.  The
\* host and the crashes owe nothing.
Fairness ==
  /\ WF_vars(Tick)
  /\ \A w \in Worker :
       /\ SF_vars(Claim(w))
       /\ WF_vars(Complete(w) \/ CompleteStale(w))
       /\ WF_vars(RetryResearch(w))

FairSpec == Spec /\ Fairness

-------------------------------------------------------------------------------
(* Safety *)

\* persist_success and persist_failure raise when the run is not writable, and
\* the lane dies of it.  Whoever still holds the lease of a job, after any
\* retries by the host and by the lane, finds its run writable.
CompletionNeverBlocked ==
  \A w \in Worker : Q!HoldsLease(w) => Writable(worker[w].job)

\* The run a host sees and the job a lane works on tell the same story; only a
\* lane's own requeue puts the job ahead of its run.
RunFollowsJob ==
  \A j \in Job :
    LET state == jobs[j].state
    IN  /\ runs[j] = "absent" <=> state = "absent"
        /\ runs[j] = "queued" => state \in {"pending", "running"}
        /\ runs[j] = "failed_retryable" =>
             \/ state = "failed_retryable"
             \/ j.kind = "research" /\ state \in {"pending", "running"}
        /\ runs[j] = "failed_terminal" <=> state = "failed_terminal"

\* A document, its succeeded run and the canonical result of its job exist
\* together or not at all (complete_with_effects).
OneSuccess ==
  \A j \in Job :
    /\ j \in documents <=> runs[j] = "succeeded"
    /\ j \in documents <=> results[j] # 0

\* The report suggestions are asked for exactly when both documents are there,
\* whichever lane finishes last.
SuggestedWhenComplete ==
  \A e \in Epoch : e \in suggested <=> JobsOf(e) \subseteq documents

\* _MAX_RESEARCH_ATTEMPTS bounds how often a research job fails, the host's
\* retries and the claims that expired included.
ResearchFailuresBounded ==
  \A j \in Job :
    j.kind = "research" =>
      Cardinality({g \in DOMAIN attempts[j] : attempts[j][g] = "failed"}) <= MaxResearchAttempts

\* In every order of completions, retries by the host, requeues by the lane, crashes
\* and reopenings, a job, its run and its document agree, and no holder of a lease
\* is refused by its own run.  Research fails no more often than it may.
RunsAndJobsAgree ==
  TypeOK /\ CompletionNeverBlocked /\ RunFollowsJob /\ OneSuccess /\ ResearchFailuresBounded

\* AC-15: a retry or a later epoch never touches a run that succeeded, nor the
\* job behind it.
SuccessIsFinal ==
  [][\A j \in Job :
       runs[j] = "succeeded" =>
         /\ runs'[j] = "succeeded"
         /\ j \in documents'
         /\ jobs'[j] = jobs[j]]_vars

(* Liveness *)

\* AC-20: processing is never for ever, unless the bounded model has run out
\* of generations for a job.
NoPermanentProcessing ==
  session.state = "processing"
    ~> \/ session.state # "processing"
       \/ \E j \in Job : runs[j] = "queued" /\ jobs[j].lease_generation = MaxGeneration

-------------------------------------------------------------------------------
(* What the documents say and the code does not do *)

\* domain/policies.py, _ALLOWED_SESSION_TRANSITIONS, for the states in use (its
\* readers see closed and processing as one step), and the host's Reopen, which
\* the graph does not know.
ApprovedTargets ==
  [open            |-> {"processing"},
   processing      |-> {"ready", "needs_attention"},
   needs_attention |-> {"processing", "open"},
   ready           |-> {"open"}]

\* assert_session_transition is to reject any state change outside the approved
\* graph.
ApprovedTransitionsOnly ==
  [][session'.state # session.state
       => session'.state \in ApprovedTargets[session.state]]_vars

\* A canonical run that is queued keeps the session processing.
ProcessingWhileActive ==
  session.state # "open" /\ (\E j \in JobsOf(session.epoch) : runs[j] = "queued")
    => session.state = "processing"

\* Members are told that an analysis is complete when it is.
NotifiedOfCompleteAnalysis ==
  \A e \in notified : JobsOf(e) \subseteq documents
===============================================================================
