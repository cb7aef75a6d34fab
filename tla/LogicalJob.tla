------------------------------ MODULE LogicalJob ------------------------------
(***************************************************************************)
(* What the durable queue promises of one logical job, whatever its        *)
(* workers do: it is open until it is decided, a success is decided once   *)
(* and comes together with its one canonical result, and only a failure    *)
(* may be opened again.  Leases, attempts, crashes and retries are not     *)
(* visible here; JobQueue is shown to implement this module.               *)
(***************************************************************************)
CONSTANTS
  Job,        \* the logical jobs (the unique logical_key of each)
  Revivable   \* those whose final failure a user may open again

VARIABLES
  outcome,    \* "none" before the job exists, then "open", "succeeded", "failed"
  published   \* the jobs that have a canonical result

vars == <<outcome, published>>

Outcome == {"none", "open", "succeeded", "failed"}

TypeOK ==
  /\ outcome \in [Job -> Outcome]
  /\ published \subseteq Job

Init ==
  /\ outcome = [j \in Job |-> "none"]
  /\ published = {}

Create(j) ==
  /\ outcome[j] = "none"
  /\ outcome' = [outcome EXCEPT ![j] = "open"]
  /\ UNCHANGED published

\* The decision and the result appear in one step.
Succeed(j) ==
  /\ outcome[j] = "open"
  /\ outcome' = [outcome EXCEPT ![j] = "succeeded"]
  /\ published' = published \cup {j}

Fail(j) ==
  /\ outcome[j] = "open"
  /\ outcome' = [outcome EXCEPT ![j] = "failed"]
  /\ UNCHANGED published

Reopen(j) ==
  /\ j \in Revivable
  /\ outcome[j] = "failed"
  /\ outcome' = [outcome EXCEPT ![j] = "open"]
  /\ UNCHANGED published

Next == \E j \in Job : Create(j) \/ Succeed(j) \/ Fail(j) \/ Reopen(j)

Spec == Init /\ [][Next]_vars

===============================================================================
