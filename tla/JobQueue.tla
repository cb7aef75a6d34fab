------------------------------- MODULE JobQueue -------------------------------
(***************************************************************************)
(* The PostgreSQL job queue of apps/api/app/queue_repository.py.           *)
(*                                                                         *)
(* A worker claims a job in one short transaction, works on it outside any *)
(* transaction, and completes it in a second one.  In between its lease    *)
(* may run out, another worker may claim the job again, or the worker may  *)
(* die.  Every write after the claim is a compare-and-set on the lease.    *)
(*                                                                         *)
(* Each action is one transaction.  The rows a transaction touches are     *)
(* those of one job, taken with FOR UPDATE or by the UPDATE itself, so     *)
(* transactions on one job are serial.                                     *)
(*                                                                         *)
(* The database clock is relative: lease_left is the time until            *)
(* lease_until, and 0 when lease_until <= clock_timestamp().               *)
(***************************************************************************)
EXTENDS Naturals, Sequences

CONSTANTS
  Job,            \* logical jobs: the values of the unique jobs.logical_key
  Worker,         \* threads and processes that call claim_next
  Lane,           \* Lane[w]: the jobs of the kinds worker w claims
  AutoRequeue,    \* jobs whose worker requeues a retryable failure itself
  Revivable,      \* jobs a user may requeue after a terminal failure
  LeaseTicks,     \* length of a lease
  MaxGeneration   \* bound on lease_generation

ASSUME QueueAssumption ==
  /\ Lane \in [Worker -> SUBSET Job]
  /\ AutoRequeue \subseteq Job
  /\ Revivable \subseteq Job
  /\ LeaseTicks \in Nat \ {0}
  /\ MaxGeneration \in Nat \ {0}

VARIABLES
  jobs,       \* the jobs table
  attempts,   \* job_attempts: attempts[j][g] is the status of attempt g
  results,    \* job_results: the generation that wrote it, 0 when there is no row
  worker      \* what each worker holds in memory

vars == <<jobs, attempts, results, worker>>

JobState ==
  {"absent", "pending", "running", "succeeded", "failed_retryable", "failed_terminal"}
CompletionState == {"succeeded", "failed_retryable", "failed_terminal"}
AttemptStatus == {"running", "succeeded", "failed", "expired"}

\* lease_token is a fresh UUID at each claim.  A generation is never issued
\* twice for a job, so the generation stands for the UUID; 0 is NULL.
JobRow ==
  [state : JobState, lease_generation : Nat, lease_token : Nat, lease_left : Nat]

\* The ClaimedJob a worker holds, and what it is about to do with it.
Idle == [phase |-> "idle"]
WorkerState ==
  {Idle} \cup
  [phase : {"executing", "requeueing"}, job : Job, lease_generation : Nat \ {0}]

TypeOK ==
  /\ jobs \in [Job -> JobRow]
  /\ attempts \in [Job -> Seq(AttemptStatus)]
  /\ results \in [Job -> Nat]
  /\ worker \in [Worker -> WorkerState]

Init ==
  /\ jobs = [j \in Job |-> [state |-> "absent", lease_generation |-> 0,
                            lease_token |-> 0, lease_left |-> 0]]
  /\ attempts = [j \in Job |-> <<>>]
  /\ results = [j \in Job |-> 0]
  /\ worker = [w \in Worker |-> Idle]

-------------------------------------------------------------------------------
(* Transactions *)

\* Fault: ON CONFLICT (logical_key) DO UPDATE SET state = 'pending'.
EnqueueOverwrites(j) ==
  /\ jobs' = [jobs EXCEPT ![j].state = IF @ = "running" THEN @ ELSE "pending"]
  /\ UNCHANGED <<attempts, results, worker>>

\* INSERT ... ON CONFLICT (logical_key) DO NOTHING: a second enqueue of the
\* same logical key returns the row that is there.
Enqueue(j) ==
  /\ jobs' = IF jobs[j].state = "absent"
               THEN [jobs EXCEPT ![j].state = "pending"]
               ELSE jobs
  /\ UNCHANGED <<attempts, results, worker>>

LeaseElapsed(j) == jobs[j].state = "running" /\ jobs[j].lease_left = 0

\* Fault: the claim forgets the jobs abandoned by a dead worker.
PendingOnly(j) == jobs[j].state = "pending"

Claimable(j) == jobs[j].state = "pending" \/ LeaseElapsed(j)

\* Fault: the abandoned attempt is left as it is.
LeaveAbandoned(j) == attempts[j]

\* The abandoned attempt of a reclaimed job is recorded as expired.
CloseAbandoned(j) ==
  IF jobs[j].state = "running"
    THEN [attempts[j] EXCEPT ![jobs[j].lease_generation] = "expired"]
    ELSE attempts[j]

\* Oldest first, but SKIP LOCKED passes over a row that another transaction
\* holds, so any claimable job of the lane may be the one.
Claim(w, j) ==
  /\ worker[w] = Idle
  /\ j \in Lane[w]
  /\ Claimable(j)
  /\ jobs[j].lease_generation < MaxGeneration
  /\ LET next == jobs[j].lease_generation + 1
     IN  /\ jobs' = [jobs EXCEPT ![j] = [state |-> "running",
                                         lease_generation |-> next,
                                         lease_token |-> next,
                                         lease_left |-> LeaseTicks]]
         /\ attempts' = [attempts EXCEPT ![j] = Append(CloseAbandoned(j), "running")]
         /\ worker' = [worker EXCEPT ![w] = [phase |-> "executing", job |-> j,
                                             lease_generation |-> next]]
  /\ UNCHANGED results

\* Fault: the compare-and-set does not compare the generation and the token.
RunningInTime(w) ==
  /\ worker[w].phase = "executing"
  /\ jobs[worker[w].job].state = "running"
  /\ jobs[worker[w].job].lease_left > 0

\* Fault: the compare-and-set of domain/queue.py alone, which has no clock.
ExactLease(w) ==
  /\ worker[w].phase = "executing"
  /\ jobs[worker[w].job].state = "running"
  /\ jobs[worker[w].job].lease_token = worker[w].lease_generation

\* The WHERE clause shared by heartbeat and completion.
HoldsLease(w) ==
  /\ worker[w].phase = "executing"
  /\ LET row == jobs[worker[w].job]
     IN  /\ row.state = "running"
         /\ row.lease_generation = worker[w].lease_generation
         /\ row.lease_token = worker[w].lease_generation
         /\ row.lease_left > 0

Heartbeat(w) ==
  /\ HoldsLease(w)
  /\ jobs' = [jobs EXCEPT ![worker[w].job].lease_left = LeaseTicks]
  /\ UNCHANGED <<attempts, results, worker>>

\* After a retryable failure the worker still has its ClaimedJob, to requeue.
AfterCompletion(w, target) ==
  IF target = "failed_retryable" /\ worker[w].job \in AutoRequeue
    THEN [worker[w] EXCEPT !.phase = "requeueing"]
    ELSE Idle

\* State, canonical result and attempt status are one transaction.  The
\* INSERT into job_results fails on a second row for the job, and so does the
\* attempt update unless the attempt is still running: both raise, the
\* transaction rolls back and the worker dies (Crash).
Complete(w, target) ==
  LET j == worker[w].job
      g == worker[w].lease_generation
  IN  /\ HoldsLease(w)
      /\ target = "succeeded" => results[j] = 0
      /\ attempts[j][g] = "running"
      /\ jobs' = [jobs EXCEPT ![j] = [state |-> target, lease_generation |-> g,
                                      lease_token |-> 0, lease_left |-> 0]]
      /\ attempts' = [attempts EXCEPT ![j][g] =
                        IF target = "succeeded" THEN "succeeded" ELSE "failed"]
      /\ results' = IF target = "succeeded" THEN [results EXCEPT ![j] = g] ELSE results
      /\ worker' = [worker EXCEPT ![w] = AfterCompletion(w, target)]

\* Zero rows matched: StaleLeaseError, everything rolled back.
CompleteStale(w) ==
  /\ worker[w].phase = "executing"
  /\ ~HoldsLease(w)
  /\ worker' = [worker EXCEPT ![w] = Idle]
  /\ UNCHANGED <<jobs, attempts, results>>

\* requeue_retryable's WHERE clause.
RequeueMatches(j, generation) ==
  /\ jobs[j].state = "failed_retryable"
  /\ jobs[j].lease_generation = generation
  /\ jobs[j].lease_token = 0

\* A requeue that matches no row raises StaleLeaseError, which the workers
\* take to mean that somebody else already requeued the job.
Requeue(w) ==
  /\ worker[w].phase = "requeueing"
  /\ LET j == worker[w].job
     IN  jobs' = IF RequeueMatches(j, worker[w].lease_generation)
                   THEN [jobs EXCEPT ![j].state = "pending"]
                   ELSE jobs
  /\ worker' = [worker EXCEPT ![w] = Idle]
  /\ UNCHANGED <<attempts, results>>

\* Fault: every job that is not leased is put back.
RequeueUnleased(j) ==
  /\ jobs[j].state # "absent"
  /\ jobs[j].lease_token = 0
  /\ jobs' = [jobs EXCEPT ![j].state = "pending"]
  /\ UNCHANGED <<attempts, results, worker>>

\* A service requeues the row itself: the host's retry of a retryable
\* generation job, and the reconciliation of retryable extraction jobs.
RequeueFailed(j) ==
  /\ jobs[j].state = "failed_retryable"
  /\ jobs[j].lease_token = 0
  /\ jobs' = [jobs EXCEPT ![j].state = "pending"]
  /\ UNCHANGED <<attempts, results, worker>>

\* A member retries the extraction of a failed file.
Revive(j) ==
  /\ j \in Revivable
  /\ jobs[j].state = "failed_terminal"
  /\ jobs' = [jobs EXCEPT ![j].state = "pending"]
  /\ UNCHANGED <<attempts, results, worker>>

-------------------------------------------------------------------------------
(* Environment *)

\* A worker dies between two transactions, or an exception ends it; the
\* ClaimedJob was only in its memory.
Crash(w) ==
  /\ worker[w] # Idle
  /\ worker' = [worker EXCEPT ![w] = Idle]
  /\ UNCHANGED <<jobs, attempts, results>>

\* The database clock advances for every lease at once.
Tick ==
  /\ jobs' = [j \in Job |-> [jobs[j] EXCEPT !.lease_left = IF @ > 0 THEN @ - 1 ELSE 0]]
  /\ UNCHANGED <<attempts, results, worker>>

Finish(w) == CompleteStale(w) \/ \E target \in CompletionState : Complete(w, target)

Next ==
  \/ \E j \in Job : Enqueue(j) \/ RequeueFailed(j) \/ Revive(j)
  \/ \E w \in Worker, j \in Job : Claim(w, j)
  \/ \E w \in Worker : Heartbeat(w) \/ Finish(w) \/ Requeue(w) \/ Crash(w)
  \/ Tick

Spec == Init /\ [][Next]_vars

\* Workers poll in endless loops, and what they call returns; time passes.
\* A job is not passed over for ever: the claim takes the oldest row that is
\* not locked, and locks are held for one short transaction.
Fairness ==
  /\ WF_vars(Tick)
  /\ \A w \in Worker : WF_vars(Finish(w)) /\ WF_vars(Requeue(w))
  /\ \A j \in Job : SF_vars(\E w \in Worker : Claim(w, j))

FairSpec == Spec /\ Fairness

-------------------------------------------------------------------------------
(* Safety *)

\* Fencing (ADR 0003, decision 4): whatever expires, crashes and is claimed
\* again, no two workers pass the compare-and-set of one job at the same time.
AtMostOneHolder ==
  \A v, w \in Worker :
    HoldsLease(v) /\ HoldsLease(w) /\ worker[v].job = worker[w].job => v = w

\* complete_with_effects inserts into job_results, which holds one row a job,
\* and insists that its attempt is still running; either may raise after the
\* compare-and-set.  For the holder of the lease neither can.
CompletionNeverBlocked ==
  \A w \in Worker :
    HoldsLease(w) =>
      /\ results[worker[w].job] = 0
      /\ worker[w].lease_generation \in DOMAIN attempts[worker[w].job]
      /\ attempts[worker[w].job][worker[w].lease_generation] = "running"

\* The canonical result and the success of the job are one fact, recorded by
\* the attempt that succeeded, and no job succeeds twice.
ResultMatchesSuccess ==
  \A j \in Job :
    /\ results[j] # 0 <=> jobs[j].state = "succeeded"
    /\ \A g \in DOMAIN attempts[j] :
         attempts[j][g] = "succeeded" <=> g = results[j]

\* job_attempts has one row for every lease ever granted, and the only one that
\* may still be open is that of the lease a running job is under.
AttemptLogMatchesLease ==
  \A j \in Job :
    /\ Len(attempts[j]) = jobs[j].lease_generation
    /\ \A g \in DOMAIN attempts[j] :
         attempts[j][g] = "running"
           <=> jobs[j].state = "running" /\ g = jobs[j].lease_generation

Safety ==
  AtMostOneHolder /\ CompletionNeverBlocked /\ ResultMatchesSuccess /\ AttemptLogMatchesLease

\* The worker made the latest claim of the job, in time still to complete it.
LatestClaimInTime(w, j) ==
  /\ worker[w].phase = "executing"
  /\ worker[w].job = j
  /\ worker[w].lease_generation = Len(attempts[j])
  /\ jobs[j].lease_left > 0

\* AC-08: a job is decided only by the worker that made the latest claim and
\* before its lease ran out; a late completion changes nothing of the job.
DecidedInTime ==
  [][\A j \in Job :
       jobs[j].state = "running" /\ jobs'[j].state # "running"
         => \E w \in Worker : LatestClaimInTime(w, j)]_vars

\* The attempt log is append only: a closed attempt is never rewritten, and an
\* attempt is never lost.
AttemptsAppendOnly ==
  [][\A j \in Job :
       /\ Len(attempts'[j]) \in {Len(attempts[j]), Len(attempts[j]) + 1}
       /\ \A g \in DOMAIN attempts[j] :
            attempts[j][g] # "running" => attempts'[j][g] = attempts[j][g]]_vars

(* The abstract specification *)

outcomeBar ==
  [j \in Job |->
     CASE jobs[j].state = "absent"          -> "none"
       [] jobs[j].state = "succeeded"       -> "succeeded"
       [] jobs[j].state = "failed_terminal" -> "failed"
       [] OTHER                             -> "open"]

publishedBar == {j \in Job : results[j] # 0}

L == INSTANCE LogicalJob WITH outcome <- outcomeBar, published <- publishedBar

\* Seen from outside, a logical job is decided once, with its result, and only
\* a failed job that a user may retry is opened again.
ImplementsLogicalJob == L!Spec

(* Liveness *)

\* A job that is waiting or abandoned is taken up until it is decided or, in
\* the bounded model, its generations are used up.
EventuallyDecided ==
  \A j \in Job :
    jobs[j].state \in {"pending", "running"}
      ~> (jobs[j].state \in CompletionState \/ jobs[j].lease_generation = MaxGeneration)
===============================================================================
