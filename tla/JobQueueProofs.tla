---------------------------- MODULE JobQueueProofs ----------------------------
(***************************************************************************)
(* Proofs about JobQueue, for any number of jobs and workers, any lanes    *)
(* and any length of a lease.                                              *)
(*                                                                         *)
(* The inductive invariant says why the compare-and-set of a lease fences: *)
(* the generations of a job only grow, each is given to one claim, and a   *)
(* row is leased exactly under its latest generation.                      *)
(***************************************************************************)
EXTENDS JobQueue, TLAPS, SequenceTheorems

\* A row is leased exactly while it is running, under its latest generation; no
\* time is left on a row that is not leased.
LeaseShape ==
  \A j \in Job :
    /\ jobs[j].state = "running" =>
         /\ jobs[j].lease_generation # 0
         /\ jobs[j].lease_token = jobs[j].lease_generation
    /\ jobs[j].state # "running" => jobs[j].lease_token = 0 /\ jobs[j].lease_left = 0

\* What a worker holds was issued by the queue.
ClaimsIssued ==
  \A w \in Worker :
    worker[w] # Idle => worker[w].lease_generation <= jobs[worker[w].job].lease_generation

\* No claim is held by two workers.
ClaimsDistinct ==
  \A v, w \in Worker :
    /\ worker[v] # Idle
    /\ worker[w] # Idle
    /\ worker[v].job = worker[w].job
    /\ worker[v].lease_generation = worker[w].lease_generation
    => v = w

IInv ==
  /\ TypeOK
  /\ LeaseShape
  /\ ClaimsIssued
  /\ ClaimsDistinct
  /\ AttemptLogMatchesLease
  /\ ResultMatchesSuccess

-------------------------------------------------------------------------------
(* The worker's memory *)

\* A worker whose phase is not idle holds a claim of one job.
LEMMA HeldClaim ==
  ASSUME NEW w \in Worker, worker[w] \in WorkerState, worker[w] # Idle
  PROVE  /\ worker[w].phase \in {"executing", "requeueing"}
         /\ worker[w].job \in Job
         /\ worker[w].lease_generation \in Nat \ {0}
BY DEF WorkerState

\* Conversely, executing and requeueing are phases of a held claim.
LEMMA PhaseHoldsClaim ==
  ASSUME NEW w \in Worker, worker[w].phase \in {"executing", "requeueing"}
  PROVE  worker[w] # Idle
BY DEF Idle

\* The memory of the workers shrinks: each keeps its claim, in whatever phase,
\* or forgets it.
Forgets ==
  /\ worker' \in [Worker -> WorkerState]
  /\ \A w \in Worker :
       \/ worker'[w] = Idle
       \/ /\ worker[w] # Idle
          /\ worker'[w].job = worker[w].job
          /\ worker'[w].lease_generation = worker[w].lease_generation

\* A step that leaves the workers alone is a special case.
LEMMA SameForgets ==
  ASSUME TypeOK, UNCHANGED worker
  PROVE  Forgets
BY DEF TypeOK, Forgets

\* So is a worker that becomes idle: it finished, was refused or died.
LEMMA IdleForgets ==
  ASSUME TypeOK, NEW w \in Worker, worker' = [worker EXCEPT ![w] = Idle]
  PROVE  Forgets
BY DEF TypeOK, Forgets, WorkerState

\* Claims stay issued and distinct while workers only forget and generations
\* do not decrease.
LEMMA ForgettingKeepsClaims ==
  ASSUME TypeOK, ClaimsIssued, ClaimsDistinct, Forgets,
         \A j \in Job : /\ jobs'[j].lease_generation \in Nat
                        /\ jobs[j].lease_generation <= jobs'[j].lease_generation
  PROVE  ClaimsIssued' /\ ClaimsDistinct'
<1>1. ASSUME NEW w \in Worker, worker'[w] # Idle
      PROVE  /\ worker[w] # Idle
             /\ worker'[w].job = worker[w].job
             /\ worker[w].job \in Job
             /\ worker'[w].lease_generation = worker[w].lease_generation
             /\ worker[w].lease_generation \in Nat
  BY <1>1, HeldClaim DEF Forgets, TypeOK
<1>2. ClaimsIssued'
  <2> SUFFICES ASSUME NEW w \in Worker, worker'[w] # Idle
               PROVE  worker'[w].lease_generation <= jobs'[worker'[w].job].lease_generation
    BY DEF ClaimsIssued, Idle
  <2>1. worker[w].lease_generation <= jobs[worker[w].job].lease_generation
    BY <1>1 DEF ClaimsIssued
  <2>2. jobs[worker[w].job].lease_generation \in Nat
    BY <1>1 DEF TypeOK, JobRow
  <2> QED
    BY <1>1, <2>1, <2>2
<1>3. ClaimsDistinct'
  BY <1>1 DEF ClaimsDistinct, Idle
<1> QED
  BY <1>2, <1>3

-------------------------------------------------------------------------------
(* The attempt log *)

\* Under the invariants a running job has an open attempt, its last, and no
\* other attempt is open.
LEMMA OpenAttempt ==
  ASSUME IInv, NEW j \in Job, jobs[j].state = "running"
  PROVE  /\ jobs[j].lease_generation \in 1 .. Len(attempts[j])
         /\ jobs[j].lease_generation = Len(attempts[j])
         /\ attempts[j][jobs[j].lease_generation] = "running"
         /\ jobs[j].lease_token = jobs[j].lease_generation
         /\ results[j] = 0
<1>1. jobs[j] \in JobRow /\ attempts[j] \in Seq(AttemptStatus)
  BY DEF IInv, TypeOK
<1>2. jobs[j].lease_generation \in Nat \ {0} /\ jobs[j].lease_token = jobs[j].lease_generation
  BY <1>1 DEF IInv, LeaseShape, JobRow
<1>3. Len(attempts[j]) = jobs[j].lease_generation
  BY DEF IInv, AttemptLogMatchesLease
<1>4. DOMAIN attempts[j] = 1 .. Len(attempts[j])
  BY <1>1, LenProperties
<1>5. attempts[j][jobs[j].lease_generation] = "running"
  BY <1>2, <1>3, <1>4 DEF IInv, AttemptLogMatchesLease
<1>6. results[j] = 0
  BY DEF IInv, ResultMatchesSuccess
<1> QED
  BY <1>2, <1>3, <1>5, <1>6

\* Closing the abandoned attempt keeps the length of the log and every attempt
\* that was closed before, and leaves no attempt open.
LEMMA AbandonedIsClosed ==
  ASSUME IInv, NEW j \in Job
  PROVE  /\ CloseAbandoned(j) \in Seq(AttemptStatus)
         /\ Len(CloseAbandoned(j)) = Len(attempts[j])
         /\ \A g \in 1 .. Len(attempts[j]) :
              /\ CloseAbandoned(j)[g] # "running"
              /\ attempts[j][g] # "running" => CloseAbandoned(j)[g] = attempts[j][g]
              /\ CloseAbandoned(j)[g] = "succeeded" <=> attempts[j][g] = "succeeded"
<1>1. attempts[j] \in Seq(AttemptStatus)
  BY DEF IInv, TypeOK
<1>2. DOMAIN attempts[j] = 1 .. Len(attempts[j])
  BY <1>1, LenProperties
<1>3. \A g \in 1 .. Len(attempts[j]) :
        attempts[j][g] = "running" <=> jobs[j].state = "running" /\ g = jobs[j].lease_generation
  BY <1>2 DEF IInv, AttemptLogMatchesLease
<1>4. CASE jobs[j].state = "running"
  <2>1. /\ jobs[j].lease_generation \in 1 .. Len(attempts[j])
        /\ "expired" \in AttemptStatus
    BY <1>4, OpenAttempt DEF AttemptStatus
  <2>2. CloseAbandoned(j) = [attempts[j] EXCEPT ![jobs[j].lease_generation] = "expired"]
    BY <1>4 DEF CloseAbandoned
  <2>3. /\ CloseAbandoned(j) \in Seq(AttemptStatus)
        /\ Len(CloseAbandoned(j)) = Len(attempts[j])
        /\ \A g \in 1 .. Len(attempts[j]) :
             CloseAbandoned(j)[g] = IF g = jobs[j].lease_generation THEN "expired"
                                                                    ELSE attempts[j][g]
    BY <1>1, <2>1, <2>2, ExceptSeq
  <2> QED
    BY <1>3, <1>4, <2>3
<1>5. CASE jobs[j].state # "running"
  BY <1>1, <1>3, <1>5 DEF CloseAbandoned
<1> QED
  BY <1>4, <1>5

-------------------------------------------------------------------------------
(* The invariant is inductive *)

\* The tables start empty and the workers idle.
LEMMA InitIInv == ASSUME QueueAssumption, Init PROVE IInv
<1>1. TypeOK
  BY EmptySeq DEF Init, TypeOK, JobRow, JobState, WorkerState
<1>2. LeaseShape /\ ClaimsIssued /\ ClaimsDistinct
  BY DEF Init, LeaseShape, ClaimsIssued, ClaimsDistinct
<1>3. AttemptLogMatchesLease /\ ResultMatchesSuccess
  BY EmptySeq DEF Init, AttemptLogMatchesLease, ResultMatchesSuccess
<1> QED
  BY <1>1, <1>2, <1>3 DEF IInv

\* A step that only takes claims out of the workers' memory.
LEMMA ForgettingKeepsIInv ==
  ASSUME IInv, Forgets, UNCHANGED <<jobs, attempts, results>>
  PROVE  IInv'
<1>1. TypeOK'
  BY DEF IInv, TypeOK, Forgets
<1>2. \A j \in Job : jobs[j].lease_generation \in Nat
  BY DEF IInv, TypeOK, JobRow
<1>3. ClaimsIssued' /\ ClaimsDistinct'
  BY <1>2, ForgettingKeepsClaims DEF IInv
<1>4. LeaseShape' /\ AttemptLogMatchesLease' /\ ResultMatchesSuccess'
  BY DEF IInv, LeaseShape, AttemptLogMatchesLease, ResultMatchesSuccess
<1> QED
  BY <1>1, <1>3, <1>4 DEF IInv

\* A step that puts jobs back (or puts them there) that are not leased and have
\* no result: enqueue, the requeues and the revival, and the transactions of the
\* services that do so for several jobs at once.
LEMMA PuttingSomeBackKeepsIInv ==
  ASSUME IInv, Forgets, NEW S,
         \A j \in Job : j \in S => jobs[j].state \in {"absent", "failed_retryable", "failed_terminal"},
         jobs' = [j \in Job |-> IF j \in S THEN [jobs[j] EXCEPT !.state = "pending"] ELSE jobs[j]],
         UNCHANGED <<attempts, results>>
  PROVE  IInv'
<1>1. jobs' \in [Job -> JobRow]
  <2>1. ASSUME NEW j \in Job
        PROVE  jobs[j] \in JobRow /\ [jobs[j] EXCEPT !.state = "pending"] \in JobRow
    <3>1. jobs[j] \in JobRow
      BY DEF IInv, TypeOK
    <3> QED
      BY <3>1 DEF JobRow, JobState
  <2> QED
    BY <2>1
<1>2. TypeOK'
  BY <1>1 DEF IInv, TypeOK, Forgets
<1>3. \A k \in Job : /\ jobs'[k].lease_generation = jobs[k].lease_generation
                     /\ jobs'[k].lease_token = jobs[k].lease_token
                     /\ jobs'[k].lease_left = jobs[k].lease_left
                     /\ jobs'[k].lease_generation \in Nat
                     /\ jobs'[k].state = IF k \in S THEN "pending" ELSE jobs[k].state
  BY <1>1 DEF IInv, TypeOK, JobRow
<1>4. ClaimsIssued' /\ ClaimsDistinct'
  BY <1>3, ForgettingKeepsClaims DEF IInv
<1>5. LeaseShape'
  BY <1>3 DEF IInv, LeaseShape
<1>6. AttemptLogMatchesLease'
  BY <1>3 DEF IInv, AttemptLogMatchesLease
<1>7. ResultMatchesSuccess'
  BY <1>3 DEF IInv, ResultMatchesSuccess
<1> QED
  BY <1>2, <1>4, <1>5, <1>6, <1>7 DEF IInv

\* The same for one job.
LEMMA PuttingBackKeepsIInv ==
  ASSUME IInv, Forgets, NEW j \in Job,
         jobs[j].state \in {"absent", "failed_retryable", "failed_terminal"},
         jobs' = [jobs EXCEPT ![j].state = "pending"],
         UNCHANGED <<attempts, results>>
  PROVE  IInv'
<1> DEFINE S == {j}
<1>1. jobs' = [k \in Job |-> IF k \in S THEN [jobs[k] EXCEPT !.state = "pending"] ELSE jobs[k]]
  BY DEF IInv, TypeOK
<1>2. \A k \in Job : k \in S => jobs[k].state \in {"absent", "failed_retryable", "failed_terminal"}
  OBVIOUS
<1> HIDE DEF S
<1> QED
  BY <1>1, <1>2, PuttingSomeBackKeepsIInv

\* A claim appends an open attempt under a generation nobody holds.
LEMMA ClaimKeepsIInv ==
  ASSUME IInv, QueueAssumption, NEW w \in Worker, NEW j \in Job, Claim(w, j)
  PROVE  IInv'
<1> DEFINE next == jobs[j].lease_generation + 1
<1>1. /\ worker[w] = Idle
      /\ jobs[j].state \in {"pending", "running"}
      /\ jobs' = [jobs EXCEPT ![j] = [state |-> "running", lease_generation |-> next,
                                      lease_token |-> next, lease_left |-> LeaseTicks]]
      /\ attempts' = [attempts EXCEPT ![j] = Append(CloseAbandoned(j), "running")]
      /\ worker' = [worker EXCEPT ![w] = [phase |-> "executing", job |-> j,
                                          lease_generation |-> next]]
      /\ results' = results
  BY DEF Claim, Claimable, LeaseElapsed
<1>2. /\ jobs \in [Job -> JobRow]
      /\ attempts \in [Job -> Seq(AttemptStatus)]
      /\ results \in [Job -> Nat]
      /\ worker \in [Worker -> WorkerState]
      /\ \A k \in Job : jobs[k].lease_generation \in Nat
      /\ next \in Nat \ {0}
  BY DEF IInv, TypeOK, JobRow
<1>3. /\ CloseAbandoned(j) \in Seq(AttemptStatus)
      /\ Len(CloseAbandoned(j)) = jobs[j].lease_generation
      /\ Len(attempts[j]) = jobs[j].lease_generation
      /\ \A g \in 1 .. jobs[j].lease_generation :
           /\ CloseAbandoned(j)[g] # "running"
           /\ CloseAbandoned(j)[g] = "succeeded" <=> attempts[j][g] = "succeeded"
  BY AbandonedIsClosed DEF IInv, AttemptLogMatchesLease
<1>4. /\ attempts'[j] \in Seq(AttemptStatus)
      /\ Len(attempts'[j]) = next
      /\ attempts'[j][next] = "running"
      /\ \A g \in 1 .. jobs[j].lease_generation : attempts'[j][g] = CloseAbandoned(j)[g]
  <2>1. "running" \in AttemptStatus
    BY DEF AttemptStatus
  <2>2. attempts'[j] = Append(CloseAbandoned(j), "running")
    BY <1>1, <1>2
  <2> QED
    BY <2>1, <2>2, <1>2, <1>3, AppendProperties
<1>5. TypeOK'
  <2>1. jobs' \in [Job -> JobRow]
    BY <1>1, <1>2 DEF QueueAssumption, JobRow, JobState
  <2>2. attempts' \in [Job -> Seq(AttemptStatus)]
    BY <1>1, <1>2, <1>4
  <2>3. worker' \in [Worker -> WorkerState]
    BY <1>1, <1>2 DEF WorkerState
  <2> QED
    BY <1>1, <1>2, <2>1, <2>2, <2>3 DEF TypeOK
<1>6. /\ \A k \in Job \ {j} : jobs'[k] = jobs[k] /\ attempts'[k] = attempts[k]
      /\ jobs'[j].state = "running"
      /\ jobs'[j].lease_generation = next
      /\ jobs'[j].lease_token = next
  BY <1>1, <1>2
<1>7. LeaseShape'
  BY <1>2, <1>6 DEF IInv, LeaseShape
<1>8. /\ \A v \in Worker \ {w} : worker'[v] = worker[v]
      /\ worker'[w].job = j
      /\ worker'[w].lease_generation = next
  BY <1>1, <1>2
<1>9. \A v \in Worker \ {w} :
        worker[v] # Idle =>
          /\ worker[v].job \in Job
          /\ worker[v].lease_generation \in Nat
          /\ worker[v].lease_generation <= jobs[worker[v].job].lease_generation
          /\ worker[v].job = j => worker[v].lease_generation # next
  BY <1>2, HeldClaim DEF IInv, ClaimsIssued
<1>10. ClaimsIssued'
  <2> SUFFICES ASSUME NEW v \in Worker, worker'[v] # Idle
               PROVE  worker'[v].lease_generation <= jobs'[worker'[v].job].lease_generation
    BY DEF ClaimsIssued, Idle
  <2>1. CASE v = w
    BY <2>1, <1>2, <1>6, <1>8
  <2>2. CASE v # w
    BY <2>2, <1>2, <1>6, <1>8, <1>9
  <2> QED
    BY <2>1, <2>2
<1>11. ClaimsDistinct'
  BY <1>8, <1>9 DEF IInv, ClaimsDistinct, Idle
<1>12. AttemptLogMatchesLease'
  <2> SUFFICES ASSUME NEW k \in Job
               PROVE  /\ Len(attempts'[k]) = jobs'[k].lease_generation
                      /\ \A g \in DOMAIN attempts'[k] :
                           attempts'[k][g] = "running"
                             <=> jobs'[k].state = "running" /\ g = jobs'[k].lease_generation
    BY DEF AttemptLogMatchesLease
  <2>1. CASE k # j
    BY <2>1, <1>6 DEF IInv, AttemptLogMatchesLease
  <2>2. CASE k = j
    <3>1. DOMAIN attempts'[j] = 1 .. next
      BY <1>4, LenProperties
    <3>2. \A g \in 1 .. next : g = next \/ (g \in 1 .. jobs[j].lease_generation /\ g # next)
      BY <1>2
    <3> QED
      BY <2>2, <3>1, <3>2, <1>3, <1>4, <1>6
  <2> QED
    BY <2>1, <2>2
<1>13. ResultMatchesSuccess'
  <2> SUFFICES ASSUME NEW k \in Job
               PROVE  /\ results'[k] # 0 <=> jobs'[k].state = "succeeded"
                      /\ \A g \in DOMAIN attempts'[k] :
                           attempts'[k][g] = "succeeded" <=> g = results'[k]
    BY DEF ResultMatchesSuccess
  <2>1. CASE k # j
    BY <2>1, <1>1, <1>6 DEF IInv, ResultMatchesSuccess
  <2>2. CASE k = j
    <3>1. results[j] = 0
      BY <1>1 DEF IInv, ResultMatchesSuccess
    <3>2. DOMAIN attempts'[j] = 1 .. next
      BY <1>4, LenProperties
    <3>3. DOMAIN attempts[j] = 1 .. jobs[j].lease_generation
      BY <1>2, <1>3, LenProperties
    <3>4. \A g \in 1 .. next : g # 0 /\ (g = next \/ g \in 1 .. jobs[j].lease_generation)
      BY <1>2
    <3>5. ASSUME NEW g \in 1 .. jobs[j].lease_generation
          PROVE  attempts[j][g] # "succeeded"
      <4>1. g # 0
        BY <1>2
      <4>2. g \in DOMAIN attempts[j]
        BY <3>3
      <4>3. attempts[j][g] = "succeeded" <=> g = results[j]
        BY <4>2 DEF IInv, ResultMatchesSuccess
      <4> QED
        BY <3>1, <4>1, <4>3
    <3> QED
      BY <2>2, <3>1, <3>2, <3>4, <3>5, <1>1, <1>3, <1>4, <1>6
  <2> QED
    BY <2>1, <2>2
<1> QED
  BY <1>5, <1>7, <1>10, <1>11, <1>12, <1>13 DEF IInv

\* A decision closes the open attempt, and nothing else of the log.
LEMMA CompleteKeepsIInv ==
  ASSUME IInv, NEW w \in Worker, NEW target \in CompletionState, Complete(w, target)
  PROVE  IInv'
<1> DEFINE j == worker[w].job
           g == worker[w].lease_generation
           status == IF target = "succeeded" THEN "succeeded" ELSE "failed"
<1>1. /\ worker[w].phase = "executing"
      /\ jobs[j].state = "running"
      /\ jobs[j].lease_generation = g
      /\ target = "succeeded" => results[j] = 0
      /\ jobs' = [jobs EXCEPT ![j] = [state |-> target, lease_generation |-> g,
                                      lease_token |-> 0, lease_left |-> 0]]
      /\ attempts' = [attempts EXCEPT ![j] = [@ EXCEPT ![g] = status]]
      /\ results' = IF target = "succeeded" THEN [results EXCEPT ![j] = g] ELSE results
      /\ worker' = [worker EXCEPT ![w] = AfterCompletion(w, target)]
  BY DEF Complete, HoldsLease
<1>2. /\ jobs \in [Job -> JobRow]
      /\ attempts \in [Job -> Seq(AttemptStatus)]
      /\ results \in [Job -> Nat]
      /\ worker \in [Worker -> WorkerState]
  BY DEF IInv, TypeOK
<1>3. j \in Job /\ g \in Nat \ {0}
  BY <1>1, <1>2, HeldClaim, PhaseHoldsClaim
<1>4. /\ g \in 1 .. Len(attempts[j])
      /\ g = Len(attempts[j])
      /\ results[j] = 0
  BY <1>1, <1>3, OpenAttempt
<1>5. /\ attempts'[j] \in Seq(AttemptStatus)
      /\ Len(attempts'[j]) = Len(attempts[j])
      /\ \A i \in 1 .. Len(attempts[j]) :
           attempts'[j][i] = IF i = g THEN status ELSE attempts[j][i]
  <2>1. attempts'[j] = [attempts[j] EXCEPT ![g] = status]
    BY <1>1, <1>2, <1>3
  <2>2. attempts[j] \in Seq(AttemptStatus) /\ status \in AttemptStatus
    BY <1>2, <1>3 DEF AttemptStatus
  <2> QED
    BY <2>1, <2>2, <1>4, ExceptSeq
<1>6. Forgets
  <2>1. AfterCompletion(w, target) \in WorkerState
    <3>1. worker[w] \in [phase : {"executing", "requeueing"}, job : Job,
                         lease_generation : Nat \ {0}]
      BY <1>1, <1>2 DEF WorkerState, Idle
    <3>2. [worker[w] EXCEPT !.phase = "requeueing"]
            \in [phase : {"executing", "requeueing"}, job : Job, lease_generation : Nat \ {0}]
      BY <3>1
    <3> QED
      BY <3>2 DEF AfterCompletion, WorkerState
  <2>2. \/ AfterCompletion(w, target) = Idle
        \/ /\ AfterCompletion(w, target).job = j
           /\ AfterCompletion(w, target).lease_generation = g
    BY <1>1, <1>2 DEF AfterCompletion, WorkerState, Idle
  <2> QED
    BY <2>1, <2>2, <1>1, <1>2, PhaseHoldsClaim DEF Forgets, WorkerState
<1>7. /\ \A k \in Job \ {j} : /\ jobs'[k] = jobs[k]
                              /\ attempts'[k] = attempts[k]
                              /\ results'[k] = results[k]
      /\ jobs'[j].state = target
      /\ jobs'[j].lease_generation = g
      /\ jobs'[j].lease_token = 0
      /\ jobs'[j].lease_left = 0
      /\ results'[j] = IF target = "succeeded" THEN g ELSE 0
  BY <1>1, <1>2, <1>3, <1>4
<1>8. target # "running" /\ status # "running"
  BY DEF CompletionState
<1>9. TypeOK'
  <2>1. jobs' \in [Job -> JobRow]
    BY <1>1, <1>2, <1>3 DEF JobRow, JobState, CompletionState
  <2>2. attempts' \in [Job -> Seq(AttemptStatus)]
    BY <1>1, <1>2, <1>3, <1>5
  <2>3. results' \in [Job -> Nat]
    BY <1>1, <1>2, <1>3
  <2> QED
    BY <1>6, <2>1, <2>2, <2>3 DEF TypeOK, Forgets
<1>10. LeaseShape'
  <2> SUFFICES ASSUME NEW k \in Job
               PROVE  /\ jobs'[k].state = "running" =>
                           /\ jobs'[k].lease_generation # 0
                           /\ jobs'[k].lease_token = jobs'[k].lease_generation
                      /\ jobs'[k].state # "running" =>
                           jobs'[k].lease_token = 0 /\ jobs'[k].lease_left = 0
    BY DEF LeaseShape
  <2>1. CASE k = j
    BY <1>7, <1>8, <2>1
  <2>2. CASE k # j
    BY <1>7, <2>2 DEF IInv, LeaseShape
  <2> QED
    BY <2>1, <2>2
<1>11. ClaimsIssued' /\ ClaimsDistinct'
  <2>1. \A k \in Job : /\ jobs'[k].lease_generation \in Nat
                       /\ jobs[k].lease_generation <= jobs'[k].lease_generation
    BY <1>1, <1>2, <1>3, <1>7 DEF JobRow
  <2> QED
    BY <2>1, <1>6, ForgettingKeepsClaims DEF IInv
<1>12. DOMAIN attempts[j] = 1 .. Len(attempts[j]) /\ DOMAIN attempts'[j] = 1 .. Len(attempts[j])
  BY <1>2, <1>3, <1>5, LenProperties
<1>13. AttemptLogMatchesLease'
  <2> SUFFICES ASSUME NEW k \in Job
               PROVE  /\ Len(attempts'[k]) = jobs'[k].lease_generation
                      /\ \A i \in DOMAIN attempts'[k] :
                           attempts'[k][i] = "running"
                             <=> jobs'[k].state = "running" /\ i = jobs'[k].lease_generation
    BY DEF AttemptLogMatchesLease
  <2>1. CASE k # j
    BY <2>1, <1>7 DEF IInv, AttemptLogMatchesLease
  <2>2. CASE k = j
    <3>1. \A i \in 1 .. Len(attempts[j]) : i # g => attempts[j][i] # "running"
      BY <1>1, <1>3, <1>12 DEF IInv, AttemptLogMatchesLease
    <3> QED
      BY <2>2, <3>1, <1>4, <1>5, <1>7, <1>8, <1>12
  <2> QED
    BY <2>1, <2>2
<1>14. ResultMatchesSuccess'
  <2> SUFFICES ASSUME NEW k \in Job
               PROVE  /\ results'[k] # 0 <=> jobs'[k].state = "succeeded"
                      /\ \A i \in DOMAIN attempts'[k] :
                           attempts'[k][i] = "succeeded" <=> i = results'[k]
    BY DEF ResultMatchesSuccess
  <2>1. CASE k # j
    BY <2>1, <1>7 DEF IInv, ResultMatchesSuccess
  <2>2. CASE k = j
    <3>1. ASSUME NEW i \in 1 .. Len(attempts[j])
          PROVE  i # 0 /\ attempts[j][i] # "succeeded"
      <4>1. i # 0
        BY <1>4
      <4>2. attempts[j][i] = "succeeded" <=> i = results[j]
        BY <1>3, <1>12 DEF IInv, ResultMatchesSuccess
      <4> QED
        BY <4>1, <4>2, <1>4
    <3> QED
      BY <2>2, <3>1, <1>3, <1>5, <1>7, <1>12
  <2> QED
    BY <2>1, <2>2
<1> QED
  BY <1>9, <1>10, <1>11, <1>13, <1>14 DEF IInv

\* A step that only moves the time that is left to leases.
LEMMA LeaseTimeKeepsIInv ==
  ASSUME IInv, UNCHANGED <<attempts, results, worker>>,
         jobs' \in [Job -> JobRow],
         \A j \in Job : /\ jobs'[j].state = jobs[j].state
                        /\ jobs'[j].lease_generation = jobs[j].lease_generation
                        /\ jobs'[j].lease_token = jobs[j].lease_token
                        /\ jobs[j].state # "running" /\ jobs[j].lease_left = 0
                             => jobs'[j].lease_left = 0
  PROVE  IInv'
<1>1. TypeOK' /\ LeaseShape'
  BY DEF IInv, TypeOK, LeaseShape
<1>2. ClaimsIssued' /\ ClaimsDistinct'
  <2>1. \A j \in Job : jobs'[j].lease_generation \in Nat
    BY DEF JobRow
  <2> QED
    BY <2>1, SameForgets, ForgettingKeepsClaims DEF IInv
<1>3. AttemptLogMatchesLease' /\ ResultMatchesSuccess'
  BY DEF IInv, AttemptLogMatchesLease, ResultMatchesSuccess
<1> QED
  BY <1>1, <1>2, <1>3 DEF IInv

\* Every operation of the queue, and every fault around it, keeps the invariant.
LEMMA NextKeepsIInv == ASSUME IInv, QueueAssumption, [Next]_vars PROVE IInv'
<1>1. ASSUME NEW j \in Job, Enqueue(j) PROVE IInv'
  <2>1. CASE jobs[j].state = "absent"
    BY <1>1, <2>1, SameForgets, PuttingBackKeepsIInv DEF Enqueue, IInv
  <2>2. CASE jobs[j].state # "absent"
    BY <1>1, <2>2, SameForgets, ForgettingKeepsIInv DEF Enqueue, IInv
  <2> QED
    BY <2>1, <2>2
<1>2. ASSUME NEW j \in Job, RequeueFailed(j) PROVE IInv'
  BY <1>2, SameForgets, PuttingBackKeepsIInv DEF RequeueFailed, IInv
<1>3. ASSUME NEW j \in Job, Revive(j) PROVE IInv'
  BY <1>3, SameForgets, PuttingBackKeepsIInv DEF Revive, IInv
<1>4. ASSUME NEW w \in Worker, NEW j \in Job, Claim(w, j) PROVE IInv'
  BY <1>4, ClaimKeepsIInv
<1>5. ASSUME NEW w \in Worker, Heartbeat(w) PROVE IInv'
  <2>1. jobs \in [Job -> JobRow] /\ LeaseTicks \in Nat
    BY DEF IInv, TypeOK, QueueAssumption
  <2>2. jobs' = [jobs EXCEPT ![worker[w].job] = [@ EXCEPT !.lease_left = LeaseTicks]]
    BY <1>5 DEF Heartbeat
  <2>3. /\ jobs' \in [Job -> JobRow]
        /\ \A j \in Job : /\ jobs'[j].state = jobs[j].state
                          /\ jobs'[j].lease_generation = jobs[j].lease_generation
                          /\ jobs'[j].lease_token = jobs[j].lease_token
                          /\ j # worker[w].job => jobs'[j].lease_left = jobs[j].lease_left
    BY <2>1, <2>2 DEF JobRow
  <2>4. jobs[worker[w].job].state = "running"
    BY <1>5 DEF Heartbeat, HoldsLease
  <2> QED
    BY <1>5, <2>3, <2>4, LeaseTimeKeepsIInv DEF Heartbeat
<1>6. ASSUME NEW w \in Worker, Finish(w) PROVE IInv'
  <2>1. CASE CompleteStale(w)
    BY <2>1, IdleForgets, ForgettingKeepsIInv DEF CompleteStale, IInv
  <2>2. ASSUME NEW target \in CompletionState, Complete(w, target) PROVE IInv'
    BY <2>2, CompleteKeepsIInv
  <2> QED
    BY <1>6, <2>1, <2>2 DEF Finish
<1>7. ASSUME NEW w \in Worker, Requeue(w) PROVE IInv'
  <2>1. Forgets
    BY <1>7, IdleForgets DEF Requeue, IInv
  <2>2. CASE RequeueMatches(worker[w].job, worker[w].lease_generation)
    <3>1. worker[w].job \in Job
      BY <1>7, HeldClaim, PhaseHoldsClaim DEF Requeue, IInv, TypeOK
    <3> QED
      BY <1>7, <2>1, <2>2, <3>1, PuttingBackKeepsIInv DEF Requeue, RequeueMatches
  <2>3. CASE ~RequeueMatches(worker[w].job, worker[w].lease_generation)
    BY <1>7, <2>1, <2>3, ForgettingKeepsIInv DEF Requeue
  <2> QED
    BY <2>2, <2>3
<1>8. ASSUME NEW w \in Worker, Crash(w) PROVE IInv'
  BY <1>8, IdleForgets, ForgettingKeepsIInv DEF Crash, IInv
<1>9. CASE Tick
  <2>1. jobs \in [Job -> JobRow]
    BY DEF IInv, TypeOK
  <2>2. \A j \in Job : jobs[j].lease_left \in Nat
    BY <2>1 DEF JobRow
  <2>3. /\ jobs' \in [Job -> JobRow]
        /\ \A j \in Job : /\ jobs'[j].state = jobs[j].state
                          /\ jobs'[j].lease_generation = jobs[j].lease_generation
                          /\ jobs'[j].lease_token = jobs[j].lease_token
                          /\ jobs[j].lease_left = 0 => jobs'[j].lease_left = 0
    BY <1>9, <2>1, <2>2 DEF Tick, JobRow
  <2> QED
    BY <1>9, <2>3, LeaseTimeKeepsIInv DEF Tick
<1>10. CASE UNCHANGED vars
  BY <1>10, SameForgets, ForgettingKeepsIInv DEF vars, IInv
<1> QED
  BY <1>1, <1>2, <1>3, <1>4, <1>5, <1>6, <1>7, <1>8, <1>9, <1>10 DEF Next

-------------------------------------------------------------------------------
(* Theorems *)

\* The invariant that the others follow from: leases, claims, attempts and
\* results of the queue in queue_repository.py agree in every reachable state.
THEOREM Inductive == Spec => []IInv
<1>1. Init => IInv
  BY QueueAssumption, InitIInv
<1>2. IInv /\ [Next]_vars => IInv'
  BY QueueAssumption, NextKeepsIInv
<1> QED
  BY <1>1, <1>2, PTL DEF Spec

\* The rows of jobs, job_attempts and job_results and the claims in the
\* workers' memory keep their types.
THEOREM TypeCorrect == Spec => []TypeOK
<1>1. IInv => TypeOK
  BY DEF IInv
<1> QED
  BY <1>1, Inductive, PTL

\* The compare-and-set of heartbeat and complete_with_effects fences: no two
\* workers ever pass it for the same job.
THEOREM Fencing == Spec => []AtMostOneHolder
<1>1. ASSUME IInv PROVE AtMostOneHolder
  <2> SUFFICES ASSUME NEW v \in Worker, NEW w \in Worker,
                      HoldsLease(v), HoldsLease(w), worker[v].job = worker[w].job
               PROVE  v = w
    BY DEF AtMostOneHolder
  <2>1. worker[v] # Idle /\ worker[w] # Idle
    BY PhaseHoldsClaim DEF HoldsLease
  <2>2. worker[v].lease_generation = worker[w].lease_generation
    BY DEF HoldsLease
  <2> QED
    BY <1>1, <2>1, <2>2 DEF IInv, ClaimsDistinct
<1> QED
  BY <1>1, Inductive, PTL

\* After the compare-and-set, complete_with_effects can raise neither for a
\* second job_results row nor for an attempt that is closed already.
THEOREM HolderCompletes == Spec => []CompletionNeverBlocked
<1>1. ASSUME IInv PROVE CompletionNeverBlocked
  <2> SUFFICES ASSUME NEW w \in Worker, HoldsLease(w)
               PROVE  /\ results[worker[w].job] = 0
                      /\ worker[w].lease_generation \in DOMAIN attempts[worker[w].job]
                      /\ attempts[worker[w].job][worker[w].lease_generation] = "running"
    BY DEF CompletionNeverBlocked
  <2>1. /\ worker[w].job \in Job
        /\ jobs[worker[w].job].state = "running"
        /\ jobs[worker[w].job].lease_generation = worker[w].lease_generation
    BY <1>1, HeldClaim, PhaseHoldsClaim DEF HoldsLease, IInv, TypeOK
  <2>2. attempts[worker[w].job] \in Seq(AttemptStatus)
    BY <1>1, <2>1 DEF IInv, TypeOK
  <2> QED
    BY <1>1, <2>1, <2>2, OpenAttempt, LenProperties
<1> QED
  BY <1>1, Inductive, PTL

\* A job has a row in job_results exactly when it is succeeded, written by the
\* one attempt that succeeded.
THEOREM OneResult == Spec => []ResultMatchesSuccess
<1>1. IInv => ResultMatchesSuccess
  BY DEF IInv
<1> QED
  BY <1>1, Inductive, PTL

\* job_attempts has a row for each lease granted, open only under the lease.
THEOREM LogOfLeases == Spec => []AttemptLogMatchesLease
<1>1. IInv => AttemptLogMatchesLease
  BY DEF IInv
<1> QED
  BY <1>1, Inductive, PTL

-------------------------------------------------------------------------------
(* What a step may do *)

\* Only a completion takes a job out of running.
LEMMA OnlyCompletionDecides ==
  ASSUME IInv, [Next]_vars, NEW j \in Job,
         jobs[j].state = "running", jobs'[j].state # "running"
  PROVE  \E w \in Worker, target \in CompletionState :
           Complete(w, target) /\ worker[w].job = j
<1> USE DEF IInv, TypeOK
<1>1. ASSUME NEW k \in Job, Enqueue(k) PROVE FALSE
  BY <1>1 DEF Enqueue
<1>2. ASSUME NEW k \in Job, RequeueFailed(k) PROVE FALSE
  BY <1>2 DEF RequeueFailed
<1>3. ASSUME NEW k \in Job, Revive(k) PROVE FALSE
  BY <1>3 DEF Revive
<1>4. ASSUME NEW w \in Worker, NEW k \in Job, Claim(w, k) PROVE FALSE
  BY <1>4 DEF Claim
<1>5. ASSUME NEW w \in Worker, Heartbeat(w) PROVE FALSE
  <2>1. jobs' = [jobs EXCEPT ![worker[w].job] = [@ EXCEPT !.lease_left = LeaseTicks]]
    BY <1>5 DEF Heartbeat
  <2> QED
    BY <2>1 DEF JobRow
<1>6. ASSUME NEW w \in Worker, Requeue(w) PROVE FALSE
  BY <1>6 DEF Requeue, RequeueMatches
<1>7. CASE Tick
  <2>1. jobs'[j].state = jobs[j].state
    BY <1>7 DEF Tick, JobRow
  <2> QED
    BY <2>1
<1>8. ASSUME NEW w \in Worker, Finish(w)
      PROVE  \E target \in CompletionState : Complete(w, target) /\ worker[w].job = j
  <2>1. PICK target \in CompletionState : Complete(w, target)
    BY <1>8 DEF Finish, CompleteStale
  <2>2. jobs' = [jobs EXCEPT ![worker[w].job] =
                   [state |-> target, lease_generation |-> worker[w].lease_generation,
                    lease_token |-> 0, lease_left |-> 0]]
    BY <2>1 DEF Complete
  <2>3. worker[w].job = j
    BY <2>2
  <2> QED
    BY <2>1, <2>3
<1> QED
  BY <1>1, <1>2, <1>3, <1>4, <1>5, <1>6, <1>7, <1>8 DEF Next, Crash, vars

\* AC-08: a job leaves running only by the worker of its latest claim, in time.
THEOREM DecisionsInTime == Spec => DecidedInTime
<1>1. ASSUME IInv, [Next]_vars
      PROVE  [\A j \in Job :
                jobs[j].state = "running" /\ jobs'[j].state # "running"
                  => \E w \in Worker : LatestClaimInTime(w, j)]_vars
  <2> SUFFICES ASSUME NEW j \in Job, jobs[j].state = "running", jobs'[j].state # "running"
               PROVE  \E w \in Worker : LatestClaimInTime(w, j)
    OBVIOUS
  <2>1. PICK w \in Worker : /\ \E target \in CompletionState : Complete(w, target)
                            /\ worker[w].job = j
    BY <1>1, OnlyCompletionDecides
  <2>2. HoldsLease(w)
    BY <2>1 DEF Complete
  <2>3. jobs[j].lease_generation = Len(attempts[j])
    BY <1>1, OpenAttempt
  <2>4. LatestClaimInTime(w, j)
    BY <2>1, <2>2, <2>3 DEF HoldsLease, LatestClaimInTime
  <2> QED
    BY <2>4
<1> QED
  BY <1>1, Inductive, PTL DEF Spec, DecidedInTime

\* No step removes an attempt or touches a closed one.
LEMMA LogOnlyGrows ==
  ASSUME IInv, [Next]_vars, NEW j \in Job
  PROVE  /\ Len(attempts'[j]) \in {Len(attempts[j]), Len(attempts[j]) + 1}
         /\ \A g \in DOMAIN attempts[j] :
              attempts[j][g] # "running" => attempts'[j][g] = attempts[j][g]
<1> DEFINE Grows == /\ Len(attempts'[j]) \in {Len(attempts[j]), Len(attempts[j]) + 1}
                    /\ \A g \in DOMAIN attempts[j] :
                         attempts[j][g] # "running" => attempts'[j][g] = attempts[j][g]
<1>1. /\ attempts \in [Job -> Seq(AttemptStatus)]
      /\ attempts[j] \in Seq(AttemptStatus)
      /\ worker \in [Worker -> WorkerState]
      /\ DOMAIN attempts[j] = 1 .. Len(attempts[j])
      /\ Len(attempts[j]) \in Nat
  BY LenProperties DEF IInv, TypeOK
<1>2. ASSUME attempts'[j] = attempts[j] PROVE Grows
  BY <1>2
<1>3. ASSUME NEW w \in Worker, NEW k \in Job, Claim(w, k) PROVE Grows
  <2>1. CASE k # j
    BY <1>1, <1>2, <1>3, <2>1 DEF Claim
  <2>2. CASE k = j
    <3>1. attempts'[j] = Append(CloseAbandoned(j), "running")
      BY <1>1, <1>3, <2>2 DEF Claim
    <3>2. "running" \in AttemptStatus
      BY DEF AttemptStatus
    <3>3. /\ CloseAbandoned(j) \in Seq(AttemptStatus)
          /\ Len(CloseAbandoned(j)) = Len(attempts[j])
          /\ \A g \in 1 .. Len(attempts[j]) :
               attempts[j][g] # "running" => CloseAbandoned(j)[g] = attempts[j][g]
      BY AbandonedIsClosed
    <3>4. /\ Len(attempts'[j]) = Len(attempts[j]) + 1
          /\ \A g \in 1 .. Len(attempts[j]) : attempts'[j][g] = CloseAbandoned(j)[g]
      BY <3>1, <3>2, <3>3, AppendProperties
    <3> QED
      BY <1>1, <3>3, <3>4
  <2> QED
    BY <2>1, <2>2
<1>4. ASSUME NEW w \in Worker, NEW target \in CompletionState, Complete(w, target) PROVE Grows
  <2> DEFINE g == worker[w].lease_generation
             status == IF target = "succeeded" THEN "succeeded" ELSE "failed"
  <2>1. /\ attempts' = [attempts EXCEPT ![worker[w].job] = [@ EXCEPT ![g] = status]]
        /\ attempts[worker[w].job][g] = "running"
        /\ worker[w].job \in Job
        /\ jobs[worker[w].job].state = "running"
        /\ jobs[worker[w].job].lease_generation = g
    BY <1>1, <1>4, HeldClaim, PhaseHoldsClaim DEF Complete, HoldsLease
  <2>2. CASE worker[w].job # j
    BY <1>1, <1>2, <2>1, <2>2
  <2>3. CASE worker[w].job = j
    <3>1. attempts'[j] = [attempts[j] EXCEPT ![g] = status] /\ attempts[j][g] = "running"
      BY <1>1, <2>1, <2>3
    <3>2. g \in 1 .. Len(attempts[j]) /\ status \in AttemptStatus
      BY <2>1, <2>3, OpenAttempt DEF AttemptStatus
    <3>3. /\ Len(attempts'[j]) = Len(attempts[j])
          /\ \A i \in 1 .. Len(attempts[j]) :
               attempts'[j][i] = IF i = g THEN status ELSE attempts[j][i]
      BY <1>1, <3>1, <3>2, ExceptSeq
    <3> QED
      BY <1>1, <3>1, <3>3
  <2> QED
    BY <2>2, <2>3
<1> QED
  BY <1>2, <1>3, <1>4
     DEF Next, vars, Enqueue, RequeueFailed, Revive, Heartbeat, Finish, CompleteStale,
         Requeue, Crash, Tick

\* job_attempts is append only: a closed attempt keeps its status for ever.
THEOREM LogAppendOnly == Spec => AttemptsAppendOnly
<1>1. ASSUME IInv, [Next]_vars
      PROVE  [\A j \in Job :
                /\ Len(attempts'[j]) \in {Len(attempts[j]), Len(attempts[j]) + 1}
                /\ \A g \in DOMAIN attempts[j] :
                     attempts[j][g] # "running" => attempts'[j][g] = attempts[j][g]]_vars
  BY <1>1, LogOnlyGrows
<1> QED
  BY <1>1, Inductive, PTL DEF Spec, AttemptsAppendOnly

-------------------------------------------------------------------------------
(* Refinement of LogicalJob *)

\* What a state of a job looks like from outside.
OutcomeOf(state) ==
  CASE state = "absent"          -> "none"
    [] state = "succeeded"       -> "succeeded"
    [] state = "failed_terminal" -> "failed"
    [] OTHER                     -> "open"

\* The outcome of a job depends on the state of its row alone.
LEMMA OutcomeBarAt ==
  /\ outcomeBar = [j \in Job |-> OutcomeOf(jobs[j].state)]
  /\ outcomeBar' = [j \in Job |-> OutcomeOf(jobs'[j].state)]
BY DEF outcomeBar, OutcomeOf

\* A step that keeps the outcome of every job and every result stutters.
LEMMA SameOutcomeStutters ==
  ASSUME UNCHANGED results,
         \A j \in Job : OutcomeOf(jobs'[j].state) = OutcomeOf(jobs[j].state)
  PROVE  UNCHANGED L!vars
<1>1. outcomeBar' = outcomeBar
  BY OutcomeBarAt
<1>2. publishedBar' = publishedBar
  BY DEF publishedBar
<1> QED
  BY <1>1, <1>2 DEF L!vars

\* A step that changes the state of one job changes one outcome.
LEMMA OneOutcomeChanges ==
  ASSUME NEW j \in Job,
         \A k \in Job \ {j} : jobs'[k].state = jobs[k].state
  PROVE  /\ outcomeBar[j] = OutcomeOf(jobs[j].state)
         /\ outcomeBar' = [outcomeBar EXCEPT ![j] = OutcomeOf(jobs'[j].state)]
BY OutcomeBarAt

\* A job that is put in or put back opens (or stays open) in LogicalJob.
LEMMA PuttingBackImplements ==
  ASSUME IInv, NEW j \in Job,
         \/ jobs[j].state \in {"absent", "failed_retryable"}
         \/ jobs[j].state = "failed_terminal" /\ j \in Revivable,
         jobs' = [jobs EXCEPT ![j].state = "pending"], UNCHANGED results
  PROVE  [L!Next]_(L!vars)
<1>1. /\ jobs'[j].state = "pending"
      /\ \A k \in Job \ {j} : jobs'[k].state = jobs[k].state
  BY DEF IInv, TypeOK, JobRow
<1>2. OutcomeOf("pending") = "open"
  BY DEF OutcomeOf
<1>3. /\ outcomeBar[j] = OutcomeOf(jobs[j].state)
      /\ outcomeBar' = [outcomeBar EXCEPT ![j] = "open"]
  BY <1>1, <1>2, OneOutcomeChanges
<1>4. UNCHANGED publishedBar
  BY DEF publishedBar
<1>5. CASE jobs[j].state = "absent"
  <2>1. L!Create(j)
    BY <1>3, <1>4, <1>5 DEF L!Create, OutcomeOf
  <2> QED
    BY <2>1 DEF L!Next
<1>6. CASE jobs[j].state = "failed_retryable"
  BY <1>1, <1>6, SameOutcomeStutters DEF OutcomeOf
<1>7. CASE jobs[j].state = "failed_terminal" /\ j \in Revivable
  <2>1. L!Reopen(j)
    BY <1>3, <1>4, <1>7 DEF L!Reopen, OutcomeOf
  <2> QED
    BY <2>1 DEF L!Next
<1> QED
  BY <1>5, <1>6, <1>7

\* A completion under the lease is the decision of LogicalJob.
LEMMA CompleteImplements ==
  ASSUME IInv, NEW w \in Worker, NEW target \in CompletionState, Complete(w, target)
  PROVE  [L!Next]_(L!vars)
<1> DEFINE j == worker[w].job
           g == worker[w].lease_generation
<1>1. /\ j \in Job
      /\ g \in Nat \ {0}
      /\ jobs[j].state = "running"
  BY HeldClaim, PhaseHoldsClaim DEF Complete, HoldsLease, IInv, TypeOK
<1>2. /\ jobs' = [jobs EXCEPT ![j] = [state |-> target, lease_generation |-> g,
                                      lease_token |-> 0, lease_left |-> 0]]
      /\ results' = IF target = "succeeded" THEN [results EXCEPT ![j] = g] ELSE results
  BY DEF Complete
<1>3. /\ jobs'[j].state = target
      /\ \A k \in Job \ {j} : jobs'[k].state = jobs[k].state
  BY <1>1, <1>2 DEF IInv, TypeOK
<1>4. /\ outcomeBar[j] = OutcomeOf(jobs[j].state)
      /\ outcomeBar' = [outcomeBar EXCEPT ![j] = OutcomeOf(target)]
  BY <1>1, <1>3, OneOutcomeChanges
<1>5. outcomeBar[j] = "open"
  BY <1>1, <1>4 DEF OutcomeOf
<1>6. CASE target = "succeeded"
  <2>1. publishedBar' = publishedBar \cup {j}
    BY <1>1, <1>2, <1>6 DEF publishedBar, IInv, TypeOK
  <2>2. L!Succeed(j)
    BY <1>4, <1>5, <1>6, <2>1 DEF L!Succeed, OutcomeOf
  <2> QED
    BY <1>1, <2>2 DEF L!Next
<1>7. CASE target = "failed_terminal"
  <2>1. UNCHANGED publishedBar
    BY <1>2, <1>7 DEF publishedBar
  <2>2. L!Fail(j)
    BY <1>4, <1>5, <1>7, <2>1 DEF L!Fail, OutcomeOf
  <2> QED
    BY <1>1, <2>2 DEF L!Next
<1>8. CASE target = "failed_retryable"
  BY <1>1, <1>2, <1>3, <1>8, SameOutcomeStutters DEF OutcomeOf
<1> QED
  BY <1>6, <1>7, <1>8 DEF CompletionState

\* A claim or a heartbeat moves a job between states that look open.
LEMMA OpenStatesStutter ==
  ASSUME IInv, UNCHANGED results,
         \A j \in Job : \/ jobs'[j].state = jobs[j].state
                        \/ /\ jobs[j].state \in {"pending", "running"}
                           /\ jobs'[j].state = "running"
  PROVE  [L!Next]_(L!vars)
<1>1. \A j \in Job : OutcomeOf(jobs'[j].state) = OutcomeOf(jobs[j].state)
  BY DEF OutcomeOf
<1> QED
  BY <1>1, SameOutcomeStutters

\* Every step of the queue is a step of LogicalJob or a stutter.
LEMMA NextImplements == ASSUME IInv, [Next]_vars PROVE [L!Next]_(L!vars)
<1>1. jobs \in [Job -> JobRow] /\ worker \in [Worker -> WorkerState]
  BY DEF IInv, TypeOK
<1>2. ASSUME UNCHANGED <<jobs, results>> PROVE [L!Next]_(L!vars)
  BY <1>2, OpenStatesStutter
<1>3. ASSUME NEW j \in Job, Enqueue(j) PROVE [L!Next]_(L!vars)
  BY <1>2, <1>3, PuttingBackImplements DEF Enqueue
<1>4. ASSUME NEW j \in Job, RequeueFailed(j) PROVE [L!Next]_(L!vars)
  BY <1>4, PuttingBackImplements DEF RequeueFailed
<1>5. ASSUME NEW j \in Job, Revive(j) PROVE [L!Next]_(L!vars)
  BY <1>5, PuttingBackImplements DEF Revive
<1>6. ASSUME NEW w \in Worker, NEW j \in Job, Claim(w, j) PROVE [L!Next]_(L!vars)
  <2>1. /\ jobs[j].state \in {"pending", "running"}
        /\ \A k \in Job : jobs'[k].state = IF k = j THEN "running" ELSE jobs[k].state
    BY <1>1, <1>6 DEF Claim, Claimable, LeaseElapsed
  <2> QED
    BY <1>6, <2>1, OpenStatesStutter DEF Claim
<1>7. ASSUME NEW w \in Worker, Heartbeat(w) PROVE [L!Next]_(L!vars)
  <2>1. jobs' = [jobs EXCEPT ![worker[w].job] = [@ EXCEPT !.lease_left = LeaseTicks]]
    BY <1>7 DEF Heartbeat
  <2>2. \A k \in Job : jobs'[k].state = jobs[k].state
    BY <1>1, <2>1 DEF JobRow
  <2> QED
    BY <1>7, <2>2, OpenStatesStutter DEF Heartbeat
<1>8. ASSUME NEW w \in Worker, Finish(w) PROVE [L!Next]_(L!vars)
  BY <1>2, <1>8, CompleteImplements DEF Finish, CompleteStale
<1>9. ASSUME NEW w \in Worker, Requeue(w) PROVE [L!Next]_(L!vars)
  <2>1. CASE RequeueMatches(worker[w].job, worker[w].lease_generation)
    <3>1. worker[w].job \in Job
      BY <1>1, <1>9, HeldClaim, PhaseHoldsClaim DEF Requeue
    <3> QED
      BY <1>9, <2>1, <3>1, PuttingBackImplements DEF Requeue, RequeueMatches
  <2>2. CASE ~RequeueMatches(worker[w].job, worker[w].lease_generation)
    BY <1>2, <1>9, <2>2 DEF Requeue
  <2> QED
    BY <2>1, <2>2
<1>10. CASE Tick
  <2>1. \A k \in Job : jobs'[k].state = jobs[k].state
    BY <1>1, <1>10 DEF Tick, JobRow
  <2> QED
    BY <1>10, <2>1, OpenStatesStutter DEF Tick
<1> QED
  BY <1>2, <1>3, <1>4, <1>5, <1>6, <1>7, <1>8, <1>9, <1>10 DEF Next, Crash, vars

\* Leases, crashes, late completions and retries stay inside: seen through its
\* outcome and its result alone, each job of the queue is a LogicalJob.
THEOREM QueueImplementsLogicalJob == Spec => ImplementsLogicalJob
<1>1. Init => L!Init
  <2> SUFFICES ASSUME Init PROVE L!Init
    OBVIOUS
  <2>1. outcomeBar = [j \in Job |-> "none"]
    BY OutcomeBarAt DEF Init, OutcomeOf
  <2>2. publishedBar = {}
    BY DEF Init, publishedBar
  <2> QED
    BY <2>1, <2>2 DEF L!Init
<1>2. IInv /\ [Next]_vars => [L!Next]_(L!vars)
  BY NextImplements
<1> QED
  BY <1>1, <1>2, Inductive, PTL DEF Spec, ImplementsLogicalJob, L!Spec
===============================================================================
