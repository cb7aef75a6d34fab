------------------------ MODULE GenerationSessionProofs ------------------------
(***************************************************************************)
(* Proofs about GenerationSession, for any number of epochs, lanes and     *)
(* retries and any length of a lease.                                      *)
(*                                                                         *)
(* The queue's part of the inductive invariant is that of JobQueueProofs,  *)
(* with the jobs of this module.  Its lemmas are cited for the steps of    *)
(* the queue; the host's close and retry put several jobs back at once.    *)
(***************************************************************************)
EXTENDS GenerationSession, FiniteSetTheorems, SequenceTheorems, TLAPS

LaneJobs == [w \in Worker |-> {j \in Job : j.kind \in LaneKinds[w]}]
ResearchJobs == {j \in Job : j.kind = "research"}

P == INSTANCE JobQueueProofs
       WITH Lane <- LaneJobs, AutoRequeue <- ResearchJobs, Revivable <- {}

\* The rows that only this module keeps have their types.
DomainTyped ==
  /\ session \in [state : SessionState, epoch : 0 .. MaxEpoch]
  /\ runs \in [Job -> RunState]
  /\ documents \subseteq Job
  /\ suggested \subseteq Epoch
  /\ notified \subseteq Epoch

\* A snapshot that was not taken yet has no jobs.
LaterEpochsAbsent ==
  \A j \in Job : j.epoch > session.epoch => jobs[j].state = "absent"

\* Only a research job is requeued by its lane.
OnlyResearchRequeues ==
  \A w \in Worker : worker[w].phase = "requeueing" => worker[w].job.kind = "research"

\* A research attempt fails at or after the limit only as the last one, and the
\* job with it.
FailuresBelowLimit ==
  \A j \in Job : j.kind = "research" =>
    \A g \in DOMAIN attempts[j] :
      attempts[j][g] = "failed" =>
        \/ g < MaxResearchAttempts
        \/ g = Len(attempts[j]) /\ jobs[j].state = "failed_terminal"

IInv ==
  /\ P!IInv
  /\ DomainTyped
  /\ LaterEpochsAbsent
  /\ OnlyResearchRequeues
  /\ FailuresBelowLimit
  /\ RunFollowsJob
  /\ OneSuccess
  /\ SuggestedWhenComplete

-------------------------------------------------------------------------------
(* The steps of the queue *)

\* The queue's own assumption holds of these lanes and jobs, by name and in full,
\* as its lemmas ask for it.
LEMMA QueueAssumed ==
  /\ P!QueueAssumption
  /\ LaneJobs \in [Worker -> SUBSET Job]
  /\ ResearchJobs \subseteq Job
  /\ {} \subseteq Job
  /\ LeaseTicks \in Nat \ {0}
  /\ MaxGeneration \in Nat \ {0}
BY SessionAssumption DEF P!QueueAssumption, SessionAssumption, LaneJobs, ResearchJobs

\* The two instances of the queue have the same rows and the same steps.
LEMMA SameTypes == P!TypeOK <=> Q!TypeOK
BY DEF P!TypeOK, Q!TypeOK, P!JobRow, Q!JobRow, P!JobState, Q!JobState,
       P!AttemptStatus, Q!AttemptStatus, P!WorkerState, Q!WorkerState, P!Idle, Q!Idle

\* The queues start alike.
LEMMA SameInit == Q!Init => P!Init
BY DEF Q!Init, P!Init, Q!Idle, P!Idle

\* A claim is a claim.
LEMMA SameClaim ==
  ASSUME NEW w \in Worker, NEW j \in Job, Q!Claim(w, j)
  PROVE  P!Claim(w, j)
BY DEF Q!Claim, P!Claim, Q!Claimable, P!Claimable, Q!LeaseElapsed, P!LeaseElapsed,
       Q!CloseAbandoned, P!CloseAbandoned, Q!Idle, P!Idle, LaneJobs

\* A completion is a completion.
LEMMA SameComplete ==
  ASSUME NEW w \in Worker, NEW target, Q!Complete(w, target)
  PROVE  P!Complete(w, target)
BY DEF Q!Complete, P!Complete, Q!HoldsLease, P!HoldsLease,
       Q!AfterCompletion, P!AfterCompletion, Q!Idle, P!Idle, ResearchJobs

\* A lane that becomes idle keeps the queue's invariant.
LEMMA IdleKeepsQueue ==
  ASSUME P!IInv, NEW w \in Worker, worker' = [worker EXCEPT ![w] = Q!Idle],
         UNCHANGED <<jobs, attempts, results>>
  PROVE  P!IInv'
<1>1. P!TypeOK /\ worker' = [worker EXCEPT ![w] = P!Idle]
  BY DEF P!IInv, P!Idle, Q!Idle
<1>2. P!Forgets
  BY <1>1, QueueAssumed, P!IdleForgets
<1> QED
  BY <1>2, QueueAssumed, P!ForgettingKeepsIInv

\* A lane that requeues its job, or finds it taken, keeps the queue's invariant.
LEMMA RequeueKeepsQueue ==
  ASSUME P!IInv, NEW w \in Worker, Q!Requeue(w)
  PROVE  P!IInv'
<1>1. P!Requeue(w)
  BY DEF Q!Requeue, P!Requeue, Q!RequeueMatches, P!RequeueMatches, Q!Idle, P!Idle
<1>2. P!Next
  BY <1>1 DEF P!Next
<1> QED
  BY <1>2, QueueAssumed, P!NextKeepsIInv

\* Time passes in the queue.
LEMMA TickKeepsQueue == ASSUME P!IInv, Q!Tick PROVE P!IInv'
<1>1. P!Tick
  BY DEF Q!Tick, P!Tick
<1>2. P!Next
  BY <1>1 DEF P!Next
<1> QED
  BY <1>2, QueueAssumed, P!NextKeepsIInv

\* The host puts several jobs in or back.
LEMMA PuttingSomeBackKeepsQueue ==
  ASSUME P!IInv, NEW S,
         \A j \in Job : j \in S => jobs[j].state \in {"absent", "failed_retryable"},
         jobs' = [j \in Job |-> IF j \in S THEN [jobs[j] EXCEPT !.state = "pending"] ELSE jobs[j]],
         UNCHANGED <<attempts, results, worker>>
  PROVE  P!IInv'
<1>1. P!Forgets
  BY QueueAssumed, P!SameForgets DEF P!IInv
<1>2. \A j \in Job : j \in S => jobs[j].state \in {"absent", "failed_retryable", "failed_terminal"}
  OBVIOUS
<1> QED
  BY <1>1, <1>2, QueueAssumed, P!PuttingSomeBackKeepsIInv

\* What the queue's invariant says of one row.
LEMMA RowFacts ==
  ASSUME P!IInv, NEW j \in Job
  PROVE  /\ jobs \in [Job -> P!JobRow]
         /\ jobs[j].state \in P!JobState
         /\ jobs[j].lease_generation \in Nat
         /\ attempts[j] \in Seq(P!AttemptStatus)
         /\ DOMAIN attempts[j] = 1 .. Len(attempts[j])
         /\ Len(attempts[j]) = jobs[j].lease_generation
         /\ results[j] # 0 <=> jobs[j].state = "succeeded"
<1>1. /\ jobs \in [Job -> P!JobRow]
      /\ attempts[j] \in Seq(P!AttemptStatus)
      /\ Len(attempts[j]) = jobs[j].lease_generation
      /\ results[j] # 0 <=> jobs[j].state = "succeeded"
  BY DEF P!IInv, P!TypeOK, P!AttemptLogMatchesLease, P!ResultMatchesSuccess
<1>2. jobs[j].state \in P!JobState /\ jobs[j].lease_generation \in Nat
  BY <1>1 DEF P!JobRow
<1> QED
  BY <1>1, <1>2

\* A job that is put back keeps everything but its state.
LEMMA PutBackRows ==
  ASSUME P!IInv, NEW S,
         jobs' = [j \in Job |-> IF j \in S THEN [jobs[j] EXCEPT !.state = "pending"] ELSE jobs[j]]
  PROVE  \A j \in Job : /\ j \notin S => jobs'[j] = jobs[j]
                        /\ jobs'[j].state = IF j \in S THEN "pending" ELSE jobs[j].state
<1>1. jobs \in [Job -> P!JobRow]
  BY DEF P!IInv, P!TypeOK
<1> QED
  BY <1>1 DEF P!JobRow

\* A lane that executes or requeues holds a claim of a job.
LEMMA LaneHoldsJob ==
  ASSUME P!IInv, NEW w \in Worker, worker[w].phase \in {"executing", "requeueing"}
  PROVE  /\ worker \in [Worker -> P!WorkerState]
         /\ worker[w].job \in Job
         /\ worker[w].lease_generation \in Nat \ {0}
<1>1. worker \in [Worker -> P!WorkerState]
  BY DEF P!IInv, P!TypeOK
<1> QED
  BY <1>1, QueueAssumed, P!PhaseHoldsClaim, P!HeldClaim

-------------------------------------------------------------------------------
(* Steps that leave the session, its runs and its documents alone *)

\* The states of a job that a lane moves by itself: it claims the job, or, for
\* research, puts it back.
LaneMoves ==
  \A j \in Job :
    \/ jobs'[j].state = jobs[j].state
    \/ /\ jobs[j].state \in {"pending", "running"}
       /\ jobs'[j].state = "running"
    \/ /\ j.kind = "research"
       /\ jobs[j].state = "failed_retryable"
       /\ jobs'[j].state = "pending"

\* Runs and documents go on to agree with jobs that only lanes move.
LEMMA LaneMovesKeepAgreement ==
  ASSUME IInv, LaneMoves, UNCHANGED domain, UNCHANGED results
  PROVE  /\ DomainTyped'
         /\ LaterEpochsAbsent'
         /\ RunFollowsJob'
         /\ OneSuccess'
         /\ SuggestedWhenComplete'
<1>1. UNCHANGED <<session, runs, documents, suggested, notified>>
  BY DEF domain
<1>2. DomainTyped' /\ OneSuccess' /\ SuggestedWhenComplete'
  BY <1>1 DEF IInv, DomainTyped, OneSuccess, SuggestedWhenComplete
<1>3. LaterEpochsAbsent'
  BY <1>1 DEF IInv, LaterEpochsAbsent, LaneMoves
<1>4. RunFollowsJob'
  BY <1>1 DEF IInv, RunFollowsJob, LaneMoves
<1> QED
  BY <1>2, <1>3, <1>4

\* Failures stay below the limit while the log does not change and no job that
\* failed for good comes back.
LEMMA SameLogKeepsLimit ==
  ASSUME FailuresBelowLimit, UNCHANGED attempts,
         \A j \in Job : jobs[j].state = "failed_terminal" => jobs'[j].state = "failed_terminal"
  PROVE  FailuresBelowLimit'
BY DEF FailuresBelowLimit

\* A lane that is idle afterwards requeues nothing.
LEMMA IdleKeepsRequeues ==
  ASSUME OnlyResearchRequeues, P!TypeOK, NEW w \in Worker,
         worker' = [worker EXCEPT ![w] = Q!Idle]
  PROVE  OnlyResearchRequeues'
BY DEF OnlyResearchRequeues, P!TypeOK, Q!Idle

\* A claim.  The log grows by an open attempt, and the job was not one that
\* failed for good.
LEMMA ClaimKeepsIInv ==
  ASSUME IInv, NEW w \in Worker, NEW j \in Job, Q!Claim(w, j), UNCHANGED domain
  PROVE  IInv'
<1>1. P!IInv'
  BY SameClaim, QueueAssumed, P!ClaimKeepsIInv DEF IInv
<1>2. /\ jobs[j].state \in {"pending", "running"}
      /\ \E next : jobs' = [jobs EXCEPT ![j] = [state |-> "running", lease_generation |-> next,
                                                lease_token |-> next, lease_left |-> LeaseTicks]]
      /\ attempts' = [attempts EXCEPT ![j] = Append(P!CloseAbandoned(j), "running")]
      /\ \E next : worker' = [worker EXCEPT ![w] = [phase |-> "executing", job |-> j,
                                                    lease_generation |-> next]]
      /\ UNCHANGED results
  BY SameClaim DEF P!Claim, P!Claimable, P!LeaseElapsed
<1>3. /\ jobs \in [Job -> P!JobRow]
      /\ attempts \in [Job -> Seq(P!AttemptStatus)]
      /\ worker \in [Worker -> P!WorkerState]
  BY DEF IInv, P!IInv, P!TypeOK
<1>4. \A k \in Job : jobs'[k].state = IF k = j THEN "running" ELSE jobs[k].state
  BY <1>2, <1>3
<1>5. LaneMoves
  BY <1>2, <1>4 DEF LaneMoves
<1>6. OnlyResearchRequeues'
  <2>1. \A v \in Worker : v # w => worker'[v] = worker[v]
    BY <1>2, <1>3
  <2>2. worker'[w].phase = "executing"
    BY <1>2, <1>3
  <2> QED
    BY <2>1, <2>2 DEF IInv, OnlyResearchRequeues
<1>7. FailuresBelowLimit'
  <2> SUFFICES ASSUME NEW k \in Job, k.kind = "research",
                      NEW g \in DOMAIN attempts'[k], attempts'[k][g] = "failed"
               PROVE  \/ g < MaxResearchAttempts
                      \/ g = Len(attempts'[k]) /\ jobs'[k].state = "failed_terminal"
    BY DEF FailuresBelowLimit
  <2>1. CASE k # j
    <3>1. attempts'[k] = attempts[k] /\ jobs'[k].state = jobs[k].state
      BY <1>2, <1>3, <1>4, <2>1
    <3> QED
      BY <3>1 DEF IInv, FailuresBelowLimit
  <2>2. CASE k = j
    <3>1. /\ P!CloseAbandoned(j) \in Seq(P!AttemptStatus)
          /\ Len(P!CloseAbandoned(j)) = Len(attempts[j])
          /\ \A i \in 1 .. Len(attempts[j]) :
               /\ P!CloseAbandoned(j)[i] # "running"
               /\ attempts[j][i] # "running" => P!CloseAbandoned(j)[i] = attempts[j][i]
      BY QueueAssumed, P!AbandonedIsClosed DEF IInv
    <3> DEFINE closed == P!CloseAbandoned(j)
    <3>2. attempts'[j] = Append(closed, "running")
      BY <1>2, <1>3
    <3> HIDE DEF closed
    <3>3. closed \in Seq(P!AttemptStatus) /\ Len(closed) = Len(attempts[j])
      BY <3>1 DEF closed
    <3>4. "running" \in P!AttemptStatus
      BY DEF P!AttemptStatus
    <3>5. /\ DOMAIN attempts'[j] = 1 .. Len(attempts[j]) + 1
          /\ \A i \in 1 .. Len(attempts[j]) : attempts'[j][i] = closed[i]
          /\ attempts'[j][Len(attempts[j]) + 1] = "running"
      BY <3>2, <3>3, <3>4
    <3>6. Len(attempts[j]) \in Nat /\ DOMAIN attempts[j] = 1 .. Len(attempts[j])
      BY <1>3
    <3>7. g \in 1 .. Len(attempts[j]) /\ closed[g] = "failed"
      BY <2>2, <3>5, <3>6
    <3>8. attempts[j][g] = "failed"
      <4>1. CASE attempts[j][g] # "running"
        BY <3>1, <3>7, <4>1 DEF closed
      <4>2. CASE attempts[j][g] = "running"
        <5>1. /\ jobs[j].state = "running"
              /\ g = jobs[j].lease_generation
          BY <3>6, <3>7, <4>2 DEF IInv, P!IInv, P!AttemptLogMatchesLease
        <5>2. closed = [attempts[j] EXCEPT ![g] = "expired"]
          BY <5>1 DEF closed, P!CloseAbandoned
        <5>3. closed[g] = "expired"
          BY <5>2, <3>6, <3>7
        <5> QED
          BY <5>3, <3>7
      <4> QED
        BY <4>1, <4>2
    <3>9. g < MaxResearchAttempts
      BY <1>2, <2>2, <3>6, <3>7, <3>8 DEF IInv, FailuresBelowLimit
    <3> QED
      BY <3>9
  <2> QED
    BY <2>1, <2>2
<1> QED
  BY <1>1, <1>2, <1>5, <1>6, <1>7, LaneMovesKeepAgreement DEF IInv

\* A late completion, and a crash: only the memory of the lane changes.
LEMMA ForgettingKeepsIInv ==
  ASSUME IInv, NEW w \in Worker, worker' = [worker EXCEPT ![w] = Q!Idle],
         UNCHANGED <<jobs, attempts, results>>, UNCHANGED domain
  PROVE  IInv'
<1>1. P!IInv'
  BY IdleKeepsQueue DEF IInv
<1>2. OnlyResearchRequeues' /\ FailuresBelowLimit'
  BY IdleKeepsRequeues, SameLogKeepsLimit DEF IInv, P!IInv
<1>3. LaneMoves
  BY DEF LaneMoves
<1> QED
  BY <1>1, <1>2, <1>3, LaneMovesKeepAgreement DEF IInv

\* The lane's own requeue, of a research job.
LEMMA RequeueKeepsIInv ==
  ASSUME IInv, NEW w \in Worker, RetryResearch(w)
  PROVE  IInv'
<1>1. /\ worker[w].phase = "requeueing"
      /\ jobs' = IF Q!RequeueMatches(worker[w].job, worker[w].lease_generation)
                   THEN [jobs EXCEPT ![worker[w].job].state = "pending"]
                   ELSE jobs
      /\ worker' = [worker EXCEPT ![w] = Q!Idle]
      /\ UNCHANGED <<attempts, results>>
      /\ UNCHANGED domain
      /\ Q!Requeue(w)
  BY DEF RetryResearch, Q!Requeue
<1>2. P!IInv'
  BY <1>1, RequeueKeepsQueue DEF IInv
<1>3. worker[w].job \in Job /\ worker[w].job.kind = "research"
  BY <1>1, LaneHoldsJob DEF IInv, OnlyResearchRequeues
<1>4. jobs \in [Job -> P!JobRow]
  BY DEF IInv, P!IInv, P!TypeOK
<1>5. LaneMoves /\ \A j \in Job : jobs[j].state = "failed_terminal" => jobs'[j].state = "failed_terminal"
  <2>1. CASE Q!RequeueMatches(worker[w].job, worker[w].lease_generation)
    <3>1. jobs[worker[w].job].state = "failed_retryable"
      BY <2>1 DEF Q!RequeueMatches
    <3>2. \A j \in Job : jobs'[j].state = IF j = worker[w].job THEN "pending" ELSE jobs[j].state
      BY <1>1, <1>3, <1>4, <2>1 DEF P!JobRow
    <3> QED
      BY <1>3, <3>1, <3>2 DEF LaneMoves
  <2>2. CASE ~Q!RequeueMatches(worker[w].job, worker[w].lease_generation)
    BY <1>1, <2>2 DEF LaneMoves
  <2> QED
    BY <2>1, <2>2
<1>6. OnlyResearchRequeues' /\ FailuresBelowLimit'
  BY <1>1, <1>5, IdleKeepsRequeues, SameLogKeepsLimit DEF IInv, P!IInv
<1> QED
  BY <1>1, <1>2, <1>5, <1>6, LaneMovesKeepAgreement DEF IInv

\* Time passes.
LEMMA TickKeepsIInv == ASSUME IInv, Tick PROVE IInv'
<1>1. /\ P!IInv'
      /\ UNCHANGED <<attempts, results, worker>>
      /\ UNCHANGED domain
  BY TickKeepsQueue DEF Tick, Q!Tick, IInv
<1>2. jobs \in [Job -> P!JobRow]
  BY DEF IInv, P!IInv, P!TypeOK
<1>3. \A j \in Job : jobs'[j].state = jobs[j].state
  BY <1>2 DEF Tick, Q!Tick, P!JobRow
<1>4. LaneMoves
  BY <1>3 DEF LaneMoves
<1>5. OnlyResearchRequeues' /\ FailuresBelowLimit'
  BY <1>1, <1>3, SameLogKeepsLimit DEF IInv, OnlyResearchRequeues
<1> QED
  BY <1>1, <1>4, <1>5, LaneMovesKeepAgreement DEF IInv

-------------------------------------------------------------------------------
(* The host *)

\* The host puts the jobs of S in or back, and queues their runs with them.
HostQueues(S) ==
  /\ jobs' = [j \in Job |-> IF j \in S THEN [jobs[j] EXCEPT !.state = "pending"] ELSE jobs[j]]
  /\ runs' = [j \in Job |-> IF j \in S THEN "queued" ELSE runs[j]]
  /\ UNCHANGED <<attempts, results, worker, documents, suggested, notified>>

\* That is sound for jobs that were never there or failed retryably, if the
\* session is of their epoch or a later one.
LEMMA HostQueuesKeepsIInv ==
  ASSUME IInv, NEW S, S \subseteq Job, HostQueues(S),
         \A j \in S : jobs[j].state \in {"absent", "failed_retryable"} /\ j.epoch <= session'.epoch,
         session' \in [state : SessionState, epoch : 0 .. MaxEpoch],
         session.epoch <= session'.epoch
  PROVE  IInv'
<1>1. P!IInv'
  BY PuttingSomeBackKeepsQueue DEF IInv, HostQueues
<1>2. /\ runs' = [j \in Job |-> IF j \in S THEN "queued" ELSE runs[j]]
      /\ UNCHANGED <<attempts, results, worker, documents, suggested, notified>>
  BY DEF HostQueues
<1>3. \A j \in Job : jobs'[j].state = IF j \in S THEN "pending" ELSE jobs[j].state
  BY PutBackRows DEF IInv, HostQueues
<1>4. DomainTyped'
  BY <1>2 DEF IInv, DomainTyped, RunState
<1>5. LaterEpochsAbsent'
  <2> SUFFICES ASSUME NEW j \in Job, j.epoch > session'.epoch
               PROVE  jobs'[j].state = "absent"
    BY DEF LaterEpochsAbsent
  <2>1. j.epoch \in Nat /\ session.epoch \in Nat /\ session'.epoch \in Nat
    BY SessionAssumption DEF Job, Epoch, IInv, DomainTyped, SessionAssumption
  <2>2. j \notin S /\ j.epoch > session.epoch
    BY <2>1
  <2> QED
    BY <1>3, <2>2 DEF IInv, LaterEpochsAbsent
<1>6. OnlyResearchRequeues'
  BY <1>2 DEF IInv, OnlyResearchRequeues
<1>7. FailuresBelowLimit'
  BY <1>2, <1>3, SameLogKeepsLimit DEF IInv
<1>8. RunFollowsJob'
  BY <1>2, <1>3 DEF IInv, RunFollowsJob
<1>9. OneSuccess'
  <2> SUFFICES ASSUME NEW j \in Job
               PROVE  /\ j \in documents' <=> runs'[j] = "succeeded"
                      /\ j \in documents' <=> results'[j] # 0
    BY DEF OneSuccess
  <2>1. CASE j \in S
    <3>1. results[j] = 0
      BY <2>1, RowFacts DEF IInv
    <3>2. j \notin documents
      BY <3>1 DEF IInv, OneSuccess
    <3> QED
      BY <1>2, <2>1, <3>1, <3>2
  <2>2. CASE j \notin S
    BY <1>2, <2>2 DEF IInv, OneSuccess
  <2> QED
    BY <2>1, <2>2
<1>10. SuggestedWhenComplete'
  BY <1>2 DEF IInv, SuggestedWhenComplete
<1> QED
  BY <1>1, <1>4, <1>5, <1>6, <1>7, <1>8, <1>9, <1>10 DEF IInv

\* The close opens an epoch whose jobs were not there.
LEMMA CloseKeepsIInv == ASSUME IInv, Close PROVE IInv'
<1> DEFINE S == JobsOf(session.epoch + 1)
<1>1. session.epoch \in 0 .. MaxEpoch /\ session.epoch < MaxEpoch /\ MaxEpoch \in Nat
  BY SessionAssumption DEF IInv, DomainTyped, Close, SessionAssumption
<1>2. session' = [state |-> "processing", epoch |-> session.epoch + 1]
  BY DEF Close
<1>3. /\ session' \in [state : SessionState, epoch : 0 .. MaxEpoch]
      /\ session'.epoch = session.epoch + 1
      /\ session.epoch <= session'.epoch
  BY <1>1, <1>2 DEF SessionState
<1>4. S \subseteq Job /\ HostQueues(S)
  BY DEF Close, HostQueues, JobsOf
<1>5. \A j \in S : jobs[j].state \in {"absent", "failed_retryable"} /\ j.epoch <= session'.epoch
  <2> SUFFICES ASSUME NEW j \in S PROVE jobs[j].state = "absent" /\ j.epoch <= session'.epoch
    OBVIOUS
  <2>1. j \in Job /\ j.epoch = session.epoch + 1
    BY DEF JobsOf
  <2>2. j.epoch > session.epoch /\ j.epoch <= session'.epoch
    BY <1>1, <1>3, <2>1
  <2> QED
    BY <2>1, <2>2 DEF IInv, LaterEpochsAbsent
<1> HIDE DEF S
<1> QED
  BY <1>3, <1>4, <1>5, HostQueuesKeepsIInv

\* The retry puts back the jobs of the latest snapshot that failed retryably.
LEMMA RetryKeepsIInv == ASSUME IInv, Retry PROVE IInv'
<1> DEFINE S == Retryable
<1>1. session.epoch \in 0 .. MaxEpoch /\ session.state \in SessionState
  BY DEF IInv, DomainTyped
<1>2. session' = [session EXCEPT !.state = "processing"]
  BY DEF Retry
<1>3. /\ session' \in [state : SessionState, epoch : 0 .. MaxEpoch]
      /\ session'.epoch = session.epoch
      /\ session.epoch <= session'.epoch
  BY <1>1, <1>2 DEF SessionState, IInv, DomainTyped
<1>4. S \subseteq Job /\ HostQueues(S)
  BY DEF Retry, HostQueues, Retryable, JobsOf
<1>5. \A j \in S : jobs[j].state \in {"absent", "failed_retryable"} /\ j.epoch <= session'.epoch
  BY <1>1, <1>3 DEF Retry, JobCanBeRetried, Retryable, JobsOf
<1> HIDE DEF S
<1> QED
  BY <1>3, <1>4, <1>5, HostQueuesKeepsIInv

\* The reopening touches the state of the session alone.
LEMMA ReopenKeepsIInv == ASSUME IInv, Reopen PROVE IInv'
<1>1. /\ UNCHANGED <<jobs, attempts, results, worker, runs, documents, suggested, notified>>
      /\ session' = [session EXCEPT !.state = "open"]
  BY DEF Reopen, queue
<1>2. /\ session' \in [state : SessionState, epoch : 0 .. MaxEpoch]
      /\ session'.epoch = session.epoch
  BY <1>1 DEF IInv, DomainTyped, SessionState
<1>3. P!Forgets
  BY <1>1, QueueAssumed, P!SameForgets DEF IInv, P!IInv
<1>4. P!IInv'
  BY <1>1, <1>3, QueueAssumed, P!ForgettingKeepsIInv DEF IInv
<1>5. DomainTyped' /\ LaterEpochsAbsent' /\ OnlyResearchRequeues' /\ FailuresBelowLimit'
  BY <1>1, <1>2 DEF IInv, DomainTyped, LaterEpochsAbsent, OnlyResearchRequeues, FailuresBelowLimit
<1>6. RunFollowsJob' /\ OneSuccess' /\ SuggestedWhenComplete'
  BY <1>1 DEF IInv, RunFollowsJob, OneSuccess, SuggestedWhenComplete
<1> QED
  BY <1>4, <1>5, <1>6 DEF IInv

-------------------------------------------------------------------------------
(* The completion *)

\* The projection of a snapshot's runs is ready exactly when all have succeeded.
LEMMA ReadyMeansAllSucceeded ==
  ASSUME NEW e \in Epoch, NEW f
  PROVE  Projection({f[j] : j \in JobsOf(e)}) = "ready"
           <=> \A j \in JobsOf(e) : f[j] = "succeeded"
<1>1. [epoch |-> e, kind |-> "summary"] \in JobsOf(e)
  BY DEF JobsOf, Job, Kind
<1>2. {f[j] : j \in JobsOf(e)} = {"succeeded"} <=> \A j \in JobsOf(e) : f[j] = "succeeded"
  BY <1>1
<1> QED
  BY <1>2 DEF Projection

\* What a completion does to the queue, in terms of the one job it is about.
LEMMA CompletionFacts ==
  ASSUME IInv, NEW w \in Worker, NEW target \in P!CompletionState, Q!Complete(w, target)
  PROVE  LET j == worker[w].job
             g == worker[w].lease_generation
         IN  /\ j \in Job
             /\ g \in Nat \ {0}
             /\ jobs[j].state = "running"
             /\ g = Len(attempts[j])
             /\ jobs'[j].state = target
             /\ \A k \in Job : k # j => /\ jobs'[k] = jobs[k]
                                        /\ attempts'[k] = attempts[k]
                                        /\ results'[k] = results[k]
             /\ DOMAIN attempts'[j] = DOMAIN attempts[j]
             /\ Len(attempts'[j]) = Len(attempts[j])
             /\ \A i \in DOMAIN attempts[j] : i # g => attempts'[j][i] = attempts[j][i]
             /\ results[j] = 0
             /\ results'[j] # 0 <=> target = "succeeded"
             /\ worker' = [worker EXCEPT ![w] = P!AfterCompletion(w, target)]
<1> DEFINE j == worker[w].job
           g == worker[w].lease_generation
           status == IF target = "succeeded" THEN "succeeded" ELSE "failed"
<1>1. /\ worker[w].phase = "executing"
      /\ jobs[j].state = "running"
      /\ jobs[j].lease_generation = g
      /\ jobs' = [jobs EXCEPT ![j] = [state |-> target, lease_generation |-> g,
                                      lease_token |-> 0, lease_left |-> 0]]
      /\ attempts' = [attempts EXCEPT ![j] = [@ EXCEPT ![g] = status]]
      /\ results' = IF target = "succeeded" THEN [results EXCEPT ![j] = g] ELSE results
      /\ worker' = [worker EXCEPT ![w] = P!AfterCompletion(w, target)]
  BY SameComplete DEF P!Complete, P!HoldsLease
<1>2. /\ jobs \in [Job -> P!JobRow]
      /\ attempts \in [Job -> Seq(P!AttemptStatus)]
      /\ results \in [Job -> Nat]
  BY DEF IInv, P!IInv, P!TypeOK
<1>3. j \in Job /\ g \in Nat \ {0}
  BY <1>1, LaneHoldsJob DEF IInv
<1>4. g = Len(attempts[j]) /\ results[j] = 0
  BY <1>1, <1>3, RowFacts DEF IInv
<1>5. attempts'[j] = [attempts[j] EXCEPT ![g] = status]
  BY <1>1, <1>2, <1>3
<1>6. attempts[j] \in Seq(P!AttemptStatus) /\ status \in P!AttemptStatus
  BY <1>2, <1>3 DEF P!AttemptStatus
<1>7. Len(attempts'[j]) = Len(attempts[j])
  <2>1. g \in 1 .. Len(attempts[j])
    BY <1>3, <1>4
  <2> QED
    BY <1>5, <1>6, <2>1, ExceptSeq
<1>8. /\ DOMAIN attempts'[j] = DOMAIN attempts[j]
      /\ \A i \in DOMAIN attempts[j] : i # g => attempts'[j][i] = attempts[j][i]
  BY <1>5
<1>9. /\ jobs'[j].state = target
      /\ results'[j] # 0 <=> target = "succeeded"
      /\ \A k \in Job : k # j => /\ jobs'[k] = jobs[k]
                                 /\ attempts'[k] = attempts[k]
                                 /\ results'[k] = results[k]
  BY <1>1, <1>2, <1>3, <1>4
<1> QED
  BY <1>1, <1>3, <1>4, <1>7, <1>8, <1>9

\* The completion writes the outcome to the job and to its run, and projects the
\* runs of the snapshot into the session.
LEMMA CompleteKeepsIInv == ASSUME IInv, NEW w \in Worker, Complete(w) PROVE IInv'
<1> DEFINE j == worker[w].job
           g == worker[w].lease_generation
<1>1. PICK outcome \in Q!CompletionState :
        /\ Q!Complete(w, CapResearchRetries(outcome, worker[w]))
        /\ Persist(j, CapResearchRetries(outcome, worker[w]))
  BY DEF Complete
<1>2. PICK target \in P!CompletionState : target = CapResearchRetries(outcome, worker[w])
  BY DEF CapResearchRetries, Q!CompletionState, P!CompletionState
<1>3. Q!Complete(w, target) /\ Persist(j, target)
  BY <1>1, <1>2
<1>4. /\ target = "failed_retryable" /\ j.kind = "research" => ~(g >= MaxResearchAttempts)
      /\ target \in {"succeeded", "failed_retryable", "failed_terminal"}
  BY <1>2 DEF CapResearchRetries, P!CompletionState
<1>5. /\ j \in Job
      /\ g \in Nat \ {0}
      /\ jobs[j].state = "running"
      /\ g = Len(attempts[j])
      /\ jobs'[j].state = target
      /\ \A k \in Job : k # j => /\ jobs'[k] = jobs[k]
                                 /\ attempts'[k] = attempts[k]
                                 /\ results'[k] = results[k]
      /\ DOMAIN attempts'[j] = DOMAIN attempts[j]
      /\ Len(attempts'[j]) = Len(attempts[j])
      /\ \A i \in DOMAIN attempts[j] : i # g => attempts'[j][i] = attempts[j][i]
      /\ results[j] = 0
      /\ results'[j] # 0 <=> target = "succeeded"
      /\ worker' = [worker EXCEPT ![w] = P!AfterCompletion(w, target)]
  BY <1>3, CompletionFacts
<1>6. /\ runs' = [runs EXCEPT ![j] = target]
      /\ documents' = IF target = "succeeded" THEN documents \cup {j} ELSE documents
      /\ Writable(j)
      /\ RecomputeAggregate(j.epoch)
  BY <1>3 DEF Persist
<1> DEFINE state == Projection({runs'[k] : k \in JobsOf(j.epoch)})
<1>7. /\ session' = [session EXCEPT !.state = state]
      /\ notified' = IF state = "ready" /\ session.state # "ready"
                       THEN notified \cup {session.epoch}
                       ELSE notified
      /\ suggested' = IF state = "ready" THEN suggested \cup {j.epoch} ELSE suggested
  BY <1>6 DEF RecomputeAggregate
<1>8. /\ j.epoch \in Epoch
      /\ session.epoch \in Epoch
      /\ session \in [state : SessionState, epoch : 0 .. MaxEpoch]
  <2>1. /\ j.epoch \in Epoch
        /\ session \in [state : SessionState, epoch : 0 .. MaxEpoch]
    BY <1>5 DEF Job, IInv, DomainTyped
  <2>2. ~(j.epoch > session.epoch)
    BY <1>5 DEF IInv, LaterEpochsAbsent
  <2> QED
    BY <2>1, <2>2, SessionAssumption DEF Epoch, SessionAssumption
<1>9. /\ state = "ready" <=> \A k \in JobsOf(j.epoch) : runs'[k] = "succeeded"
      /\ state \in SessionState
  <2>1. state = "ready" <=> \A k \in JobsOf(j.epoch) : runs'[k] = "succeeded"
    BY <1>8, ReadyMeansAllSucceeded
  <2>2. state \in SessionState
    BY DEF Projection, SessionState
  <2> QED
    BY <2>1, <2>2
<1> HIDE DEF state
<1>10. P!IInv'
  <2>1. P!Complete(w, target)
    BY <1>3, SameComplete
  <2> QED
    BY <2>1, QueueAssumed, P!CompleteKeepsIInv DEF IInv
<1>11. runs \in [Job -> RunState]
  BY DEF IInv, DomainTyped
<1>12. DomainTyped'
  <2>1. session' \in [state : SessionState, epoch : 0 .. MaxEpoch]
    BY <1>7, <1>8, <1>9
  <2>2. runs' \in [Job -> RunState]
    BY <1>4, <1>6, <1>11 DEF RunState
  <2>3. documents' \subseteq Job /\ suggested' \subseteq Epoch /\ notified' \subseteq Epoch
    BY <1>5, <1>6, <1>7, <1>8 DEF IInv, DomainTyped
  <2> QED
    BY <2>1, <2>2, <2>3 DEF DomainTyped
<1>13. LaterEpochsAbsent'
  <2>1. session'.epoch = session.epoch
    BY <1>7, <1>8
  <2> QED
    BY <1>5, <2>1 DEF IInv, LaterEpochsAbsent
<1>14. OnlyResearchRequeues'
  <2>1. worker \in [Worker -> P!WorkerState]
    BY DEF IInv, P!IInv, P!TypeOK
  <2>2. worker'[w] = P!AfterCompletion(w, target) /\ \A v \in Worker : v # w => worker'[v] = worker[v]
    BY <1>5, <2>1
  <2>3. ASSUME worker'[w].phase = "requeueing" PROVE worker'[w].job.kind = "research"
    <3>1. worker'[w] = [worker[w] EXCEPT !.phase = "requeueing"] /\ j \in ResearchJobs
      BY <2>2, <2>3 DEF P!AfterCompletion, P!Idle
    <3>2. worker'[w].job = j
      BY <3>1
    <3> QED
      BY <3>1, <3>2 DEF ResearchJobs
  <2> QED
    BY <2>2, <2>3 DEF IInv, OnlyResearchRequeues
<1>15. FailuresBelowLimit'
  <2> SUFFICES ASSUME NEW k \in Job, k.kind = "research",
                      NEW i \in DOMAIN attempts'[k], attempts'[k][i] = "failed"
               PROVE  \/ i < MaxResearchAttempts
                      \/ i = Len(attempts'[k]) /\ jobs'[k].state = "failed_terminal"
    BY DEF FailuresBelowLimit
  <2>1. CASE k # j
    BY <1>5, <2>1 DEF IInv, FailuresBelowLimit
  <2>2. CASE k = j /\ i # g
    BY <1>5, <2>2 DEF IInv, FailuresBelowLimit
  <2>3. CASE k = j /\ i = g
    <3>1. target # "succeeded"
      <4>1. P!Complete(w, target)
        BY <1>3, SameComplete
      <4>2. attempts' = [attempts EXCEPT ![j][g] =
                           IF target = "succeeded" THEN "succeeded" ELSE "failed"]
        BY <4>1 DEF P!Complete
      <4>3. attempts \in [Job -> Seq(P!AttemptStatus)]
        BY DEF IInv, P!IInv, P!TypeOK
      <4>4. target = "succeeded" => attempts'[j] = [attempts[j] EXCEPT ![g] = "succeeded"]
        BY <1>5, <4>2, <4>3
      <4>5. target = "succeeded" => attempts'[j][g] = "succeeded"
        BY <1>5, <2>3, <4>4
      <4> QED
        BY <2>3, <4>5
    <3>2. MaxResearchAttempts \in Nat
      BY SessionAssumption DEF SessionAssumption
    <3> QED
      BY <1>4, <1>5, <2>3, <3>1, <3>2
  <2> QED
    BY <2>1, <2>2, <2>3
<1>16. /\ runs'[j] = target
       /\ \A k \in Job : k # j => runs'[k] = runs[k]
  BY <1>5, <1>6, <1>11
<1>17. RunFollowsJob'
  <2> SUFFICES ASSUME NEW k \in Job
               PROVE  /\ runs'[k] = "absent" <=> jobs'[k].state = "absent"
                      /\ runs'[k] = "queued" => jobs'[k].state \in {"pending", "running"}
                      /\ runs'[k] = "failed_retryable" =>
                           \/ jobs'[k].state = "failed_retryable"
                           \/ k.kind = "research" /\ jobs'[k].state \in {"pending", "running"}
                      /\ runs'[k] = "failed_terminal" <=> jobs'[k].state = "failed_terminal"
    BY DEF RunFollowsJob
  <2>1. CASE k = j
    BY <1>4, <1>5, <1>16, <2>1
  <2>2. CASE k # j
    BY <1>5, <1>16, <2>2 DEF IInv, RunFollowsJob
  <2> QED
    BY <2>1, <2>2
<1>18. j \notin documents
  BY <1>5 DEF IInv, OneSuccess
<1>19. OneSuccess'
  <2> SUFFICES ASSUME NEW k \in Job
               PROVE  /\ k \in documents' <=> runs'[k] = "succeeded"
                      /\ k \in documents' <=> results'[k] # 0
    BY DEF OneSuccess
  <2>1. CASE k = j
    BY <1>5, <1>6, <1>16, <1>18, <2>1
  <2>2. CASE k # j
    BY <1>5, <1>6, <1>16, <2>2 DEF IInv, OneSuccess
  <2> QED
    BY <2>1, <2>2
<1>20. SuggestedWhenComplete'
  <2> SUFFICES ASSUME NEW e \in Epoch
               PROVE  e \in suggested' <=> JobsOf(e) \subseteq documents'
    BY DEF SuggestedWhenComplete, JobsOf
  <2>1. e \in suggested <=> JobsOf(e) \subseteq documents
    BY DEF IInv, SuggestedWhenComplete
  <2>2. CASE e # j.epoch
    <3>1. e \in suggested' <=> e \in suggested
      BY <1>7, <2>2
    <3>2. j \notin JobsOf(e)
      BY <2>2 DEF JobsOf
    <3>3. JobsOf(e) \subseteq documents' <=> JobsOf(e) \subseteq documents
      BY <1>6, <3>2
    <3> QED
      BY <2>1, <3>1, <3>3
  <2>3. CASE e = j.epoch
    <3>1. j \in JobsOf(e)
      BY <1>5, <2>3 DEF JobsOf
    <3>2. e \notin suggested
      BY <1>18, <2>1, <3>1
    <3>3. e \in suggested' <=> state = "ready"
      BY <1>7, <2>3, <3>2
    <3>4. JobsOf(e) \subseteq documents' <=> \A k \in JobsOf(e) : runs'[k] = "succeeded"
      BY <1>19 DEF OneSuccess, JobsOf
    <3> QED
      BY <1>9, <2>3, <3>3, <3>4
  <2> QED
    BY <2>2, <2>3
<1> QED
  BY <1>10, <1>12, <1>13, <1>14, <1>15, <1>17, <1>19, <1>20 DEF IInv

-------------------------------------------------------------------------------
(* Theorems *)

\* The tables start empty, the session open and the lanes idle.
LEMMA InitIInv == ASSUME Init PROVE IInv
<1>1. P!IInv
  BY SameInit, QueueAssumed, P!InitIInv DEF Init
<1>2. /\ session = [state |-> "open", epoch |-> 0]
      /\ runs = [j \in Job |-> "absent"]
      /\ documents = {}
      /\ suggested = {}
      /\ notified = {}
      /\ \A j \in Job : jobs[j].state = "absent" /\ attempts[j] = <<>> /\ results[j] = 0
      /\ \A w \in Worker : worker[w] = Q!Idle
  BY DEF Init, Q!Init
<1>3. DomainTyped
  BY <1>2, SessionAssumption DEF DomainTyped, SessionState, RunState, SessionAssumption
<1>4. LaterEpochsAbsent /\ OnlyResearchRequeues
  BY <1>2 DEF LaterEpochsAbsent, OnlyResearchRequeues, Q!Idle
<1>5. FailuresBelowLimit
  BY <1>2 DEF FailuresBelowLimit
<1>6. RunFollowsJob /\ OneSuccess
  BY <1>2 DEF RunFollowsJob, OneSuccess
<1>7. SuggestedWhenComplete
  <2> SUFFICES ASSUME NEW e \in Epoch PROVE ~(JobsOf(e) \subseteq documents)
    BY <1>2 DEF SuggestedWhenComplete
  <2>1. [epoch |-> e, kind |-> "summary"] \in JobsOf(e)
    BY DEF JobsOf, Job, Kind
  <2> QED
    BY <1>2, <2>1
<1> QED
  BY <1>1, <1>3, <1>4, <1>5, <1>6, <1>7 DEF IInv

\* Every action of the host and of the lanes keeps the invariant.
LEMMA NextKeepsIInv == ASSUME IInv, [Next]_vars PROVE IInv'
<1>1. ASSUME NEW w \in Worker, Claim(w) PROVE IInv'
  BY <1>1, ClaimKeepsIInv DEF Claim
<1>2. ASSUME NEW w \in Worker, CompleteStale(w) \/ Crash(w) PROVE IInv'
  BY <1>2, ForgettingKeepsIInv DEF CompleteStale, Crash, Q!CompleteStale, Q!Crash
<1>3. CASE UNCHANGED vars
  <2>1. UNCHANGED <<jobs, attempts, results, worker>> /\ UNCHANGED domain
    BY <1>3 DEF vars, queue, domain
  <2>2. P!Forgets
    BY <2>1, QueueAssumed, P!SameForgets DEF IInv, P!IInv
  <2>3. P!IInv'
    BY <2>1, <2>2, QueueAssumed, P!ForgettingKeepsIInv DEF IInv
  <2>4. LaneMoves /\ OnlyResearchRequeues' /\ FailuresBelowLimit'
    BY <2>1, SameLogKeepsLimit DEF LaneMoves, IInv, OnlyResearchRequeues
  <2> QED
    BY <2>1, <2>3, <2>4, LaneMovesKeepAgreement DEF IInv
<1> QED
  BY <1>1, <1>2, <1>3, CloseKeepsIInv, ReopenKeepsIInv, RetryKeepsIInv,
     CompleteKeepsIInv, RequeueKeepsIInv, TickKeepsIInv
     DEF Next

\* Queue, runs, documents and snapshots agree in every reachable state.
THEOREM Inductive == Spec => []IInv
<1>1. Init => IInv
  BY InitIInv
<1>2. IInv /\ [Next]_vars => IInv'
  BY NextKeepsIInv
<1> QED
  BY <1>1, <1>2, PTL DEF Spec

\* The failed attempts below a limit, and one more, are no more than the limit.
LEMMA FailuresCounted ==
  ASSUME NEW F, NEW m \in Nat \ {0}, NEW last,
         \A g \in F : g \in 1 .. (m - 1) \/ g = last
  PROVE  Cardinality(F) <= m
<1> DEFINE K == 1 .. (m - 1)
<1>1. IsFiniteSet(K) /\ Cardinality(K) = m - 1
  <2>1. 1 \in Int /\ m - 1 \in Int
    OBVIOUS
  <2> QED
    BY <2>1, FS_Interval
<1> HIDE DEF K
<1>2. IsFiniteSet(K \cup {last}) /\ Cardinality(K \cup {last}) <= m
  <2>1. /\ IsFiniteSet(K \cup {last})
        /\ \/ Cardinality(K \cup {last}) = Cardinality(K)
           \/ Cardinality(K \cup {last}) = Cardinality(K) + 1
    BY <1>1, FS_AddElement
  <2> QED
    BY <1>1, <2>1
<1>3. F \subseteq K \cup {last}
  BY DEF K
<1>4. IsFiniteSet(F) /\ Cardinality(F) <= Cardinality(K \cup {last})
  BY <1>2, <1>3, FS_Subset
<1>5. Cardinality(F) \in Nat /\ Cardinality(K \cup {last}) \in Nat
  BY <1>2, <1>4, FS_CardinalityType
<1> QED
  BY <1>2, <1>4, <1>5

\* complete_with_effects, the host's retry and the lane's requeue keep a job, its
\* run and its document in agreement, never refuse the holder of a lease, and let
\* research fail no more often than _MAX_RESEARCH_ATTEMPTS.
THEOREM RunsFollowJobs == Spec => []RunsAndJobsAgree
<1>1. ASSUME IInv PROVE RunsAndJobsAgree
  <2>1. TypeOK
    BY <1>1, SameTypes DEF IInv, P!IInv, DomainTyped, TypeOK
  <2>2. CompletionNeverBlocked
    <3> SUFFICES ASSUME NEW w \in Worker, Q!HoldsLease(w)
                 PROVE  Writable(worker[w].job)
      BY DEF CompletionNeverBlocked
    <3>1. worker[w].phase = "executing" /\ jobs[worker[w].job].state = "running"
      BY DEF Q!HoldsLease
    <3>2. worker[w].job \in Job
      BY <1>1, <3>1, LaneHoldsJob DEF IInv
    <3>3. results[worker[w].job] = 0
      BY <1>1, <3>1, <3>2, RowFacts DEF IInv
    <3>4. runs[worker[w].job] \in RunState
      BY <1>1, <3>2 DEF IInv, DomainTyped
    <3>5. runs[worker[w].job] \notin {"absent", "failed_terminal", "succeeded"}
      BY <1>1, <3>1, <3>2, <3>3 DEF IInv, RunFollowsJob, OneSuccess
    <3> QED
      BY <3>4, <3>5 DEF RunState, Writable
  <2>3. ResearchFailuresBounded
    <3> SUFFICES ASSUME NEW j \in Job, j.kind = "research"
                 PROVE  Cardinality({g \in DOMAIN attempts[j] : attempts[j][g] = "failed"})
                          <= MaxResearchAttempts
      BY DEF ResearchFailuresBounded
    <3> DEFINE F == {g \in DOMAIN attempts[j] : attempts[j][g] = "failed"}
               last == Len(attempts[j])
    <3>1. MaxResearchAttempts \in Nat \ {0}
      BY SessionAssumption DEF SessionAssumption
    <3>2. DOMAIN attempts[j] = 1 .. Len(attempts[j]) /\ Len(attempts[j]) \in Nat
      BY <1>1, RowFacts DEF IInv
    <3>3. \A g \in F : g \in 1 .. (MaxResearchAttempts - 1) \/ g = last
      BY <1>1, <3>1, <3>2 DEF IInv, FailuresBelowLimit
    <3> HIDE DEF F, last
    <3>4. Cardinality(F) <= MaxResearchAttempts
      BY <3>1, <3>3, FailuresCounted
    <3> QED
      BY <3>4 DEF F
  <2> QED
    BY <1>1, <2>1, <2>2, <2>3 DEF IInv, RunsAndJobsAgree
<1> QED
  BY <1>1, Inductive, PTL

\* recompute_session_aggregate asks for the report suggestions of a snapshot
\* exactly when both documents of it are there.
THEOREM SuggestionsAskedFor == Spec => []SuggestedWhenComplete
<1>1. IInv => SuggestedWhenComplete
  BY DEF IInv
<1> QED
  BY <1>1, Inductive, PTL

\* No step touches the job or the run of a success.
LEMMA SuccessKept ==
  ASSUME IInv, [Next]_vars, NEW j \in Job, runs[j] = "succeeded"
  PROVE  runs'[j] = "succeeded" /\ j \in documents' /\ jobs'[j] = jobs[j]
<1>1. /\ j \in documents
      /\ jobs[j].state = "succeeded"
      /\ jobs[j].lease_left = 0
      /\ jobs \in [Job -> P!JobRow]
      /\ runs \in [Job -> RunState]
  BY RowFacts DEF IInv, OneSuccess, DomainTyped, P!IInv, P!LeaseShape
<1>2. CASE UNCHANGED <<jobs, runs, documents>>
  BY <1>1, <1>2
<1>3. CASE Close
  <2>1. j \notin JobsOf(session.epoch + 1)
    <3>1. session.epoch \in Nat
      BY SessionAssumption DEF IInv, DomainTyped, SessionAssumption
    <3>2. ~(j.epoch > session.epoch)
      BY <1>1 DEF IInv, LaterEpochsAbsent
    <3> QED
      BY <3>1, <3>2 DEF JobsOf
  <2> QED
    BY <1>1, <1>3, <2>1 DEF Close
<1>4. CASE Retry
  <2>1. j \notin Retryable
    BY DEF Retryable
  <2> QED
    BY <1>1, <1>4, <2>1 DEF Retry
<1>5. ASSUME NEW w \in Worker, Complete(w)
      PROVE  runs'[j] = "succeeded" /\ j \in documents' /\ jobs'[j] = jobs[j]
  <2>1. PICK target :
          /\ Q!Complete(w, target)
          /\ Persist(worker[w].job, target)
    BY <1>5 DEF Complete
  <2>2. /\ jobs[worker[w].job].state = "running"
        /\ \E row : jobs' = [jobs EXCEPT ![worker[w].job] = row]
    BY <2>1 DEF Q!Complete, Q!HoldsLease
  <2>3. /\ runs' = [runs EXCEPT ![worker[w].job] = target]
        /\ documents \subseteq documents'
    BY <2>1 DEF Persist
  <2> QED
    BY <1>1, <2>2, <2>3
<1>6. ASSUME NEW w \in Worker, Claim(w)
      PROVE  runs'[j] = "succeeded" /\ j \in documents' /\ jobs'[j] = jobs[j]
  <2>1. PICK k \in Job : Q!Claim(w, k) /\ UNCHANGED domain
    BY <1>6 DEF Claim
  <2>2. /\ jobs[k].state \in {"pending", "running"}
        /\ \E row : jobs' = [jobs EXCEPT ![k] = row]
    BY <2>1 DEF Q!Claim, Q!Claimable, Q!LeaseElapsed
  <2> QED
    BY <1>1, <2>1, <2>2 DEF domain
<1>7. ASSUME NEW w \in Worker, RetryResearch(w)
      PROVE  runs'[j] = "succeeded" /\ j \in documents' /\ jobs'[j] = jobs[j]
  <2>1. CASE jobs' = jobs
    BY <1>1, <1>7, <2>1 DEF RetryResearch, domain
  <2>2. CASE jobs' # jobs
    <3>1. /\ jobs[worker[w].job].state = "failed_retryable"
          /\ jobs' = [jobs EXCEPT ![worker[w].job].state = "pending"]
      BY <1>7, <2>2 DEF RetryResearch, Q!Requeue, Q!RequeueMatches
    <3> QED
      BY <1>1, <1>7, <3>1 DEF RetryResearch, domain
  <2> QED
    BY <2>1, <2>2
<1>8. CASE Tick
  <2>1. jobs'[j] = [jobs[j] EXCEPT !.lease_left = IF @ > 0 THEN @ - 1 ELSE 0]
    BY <1>8 DEF Tick, Q!Tick
  <2>2. UNCHANGED domain
    BY <1>8 DEF Tick
  <2> QED
    BY <1>1, <2>1, <2>2 DEF domain, P!JobRow
<1> QED
  BY <1>2, <1>3, <1>4, <1>5, <1>6, <1>7, <1>8
     DEF Next, vars, queue, domain, Reopen, CompleteStale, Crash, Q!CompleteStale, Q!Crash

\* AC-15: neither the host's retry, nor a later epoch, nor a late lane touches a
\* run that succeeded, its document or the job behind it.
THEOREM SuccessesAreFinal == Spec => SuccessIsFinal
<1>1. ASSUME IInv, [Next]_vars
      PROVE  [\A j \in Job :
                runs[j] = "succeeded" =>
                  /\ runs'[j] = "succeeded"
                  /\ j \in documents'
                  /\ jobs'[j] = jobs[j]]_vars
  BY <1>1, SuccessKept
<1> QED
  BY <1>1, Inductive, PTL DEF Spec, SuccessIsFinal
===============================================================================
