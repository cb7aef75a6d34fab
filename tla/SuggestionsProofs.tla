--------------------------- MODULE SuggestionsProofs ---------------------------
(***************************************************************************)
(* Proofs about Suggestions, for any number of reports, processes, members *)
(* and edit requests.                                                      *)
(*                                                                         *)
(* The queue's part of the inductive invariant is that of JobQueueProofs.  *)
(* Its fencing is what makes the effects of a success the work of one      *)
(* execution: a job that has a result is never published for again.        *)
(***************************************************************************)
EXTENDS Suggestions, SequenceTheorems, FiniteSetTheorems, WellFoundedInduction, TLAPS

EveryLane == [w \in Worker |-> Epoch]

P == INSTANCE JobQueueProofs
       WITH Job <- Epoch, Lane <- EveryLane, AutoRequeue <- Epoch, Revivable <- {}

\* A row of report_suggestions has these fields and no others.
IsSuggestion(s) ==
  /\ s = [id |-> s.id, report |-> s.report, anchor |-> s.anchor, by |-> s.by, status |-> s.status]
  /\ s.report \in Epoch
  /\ s.anchor \in Anchor \cup {NoAnchor}
  /\ s.by \in Nat
  /\ s.status \in {"open", "accepted", "rejected"}

\* What an edit request has in hand.
Request ==
  [phase : {"asking", "writing"}, basis : Epoch, made : Seq([report : Epoch, anchor : Anchor])]

\* The rows that only this module keeps have their types.
DomainTyped ==
  /\ complete \subseteq Epoch
  /\ session \in [state : {"open", "processing", "ready", "needs_attention"}, epoch : Epoch]
  /\ drafts \in [Epoch -> [by : {"nobody", "member", "worker"}, generation : Nat]]
  /\ \A s \in suggestions : IsSuggestion(s)
  /\ members \subseteq Member
  /\ agent \in [Editor -> Request \cup {Idle}]

\* The id of a suggestion tells who wrote it, and the worker's for which report.
IdsTellWriters ==
  \A s \in suggestions :
    /\ s.by # 0 => s.id[1] = s.report
    /\ s.by = 0 => s.id[1] = 0

\* OneExecution, with the draft of the worker only where there is a result.
OneWriter ==
  \A e \in Epoch :
    /\ \A s \in Automatic(e) : s.by = results[e]
    /\ \/ drafts[e] \in {NoRow, MembersRow}
       \/ results[e] # 0 /\ drafts[e] = Draft(results[e])
    /\ jobs[e].state = "succeeded" => Automatic(e) # {} /\ drafts[e] # NoRow

\* What an edit request is about to write cites the report it will be stamped with.
RequestsCiteReports ==
  \A m \in Editor :
    agent[m] # Idle =>
      \A i \in DOMAIN agent[m].made :
        agent[m].made[i].anchor # NoAnchor
          => agent[m].made[i].anchor \in Pinned[agent[m].made[i].report]

IInv ==
  /\ P!IInv
  /\ DomainTyped
  /\ IdsTellWriters
  /\ OneWriter
  /\ AnchorsBelongToReport
  /\ RequestsCiteReports

-------------------------------------------------------------------------------
(* The steps of the queue *)

\* The queue's own assumption holds of these lanes and jobs, by name and in full,
\* as its lemmas ask for it.
LEMMA QueueAssumed ==
  /\ P!QueueAssumption
  /\ EveryLane \in [Worker -> SUBSET Epoch]
  /\ Epoch \subseteq Epoch
  /\ {} \subseteq Epoch
  /\ LeaseTicks \in Nat \ {0}
  /\ MaxGeneration \in Nat \ {0}
BY SuggestionsAssumption DEF P!QueueAssumption, SuggestionsAssumption, EveryLane

\* The two instances of the queue have the same rows.
LEMMA SameTypes == P!TypeOK <=> Queue!TypeOK
BY DEF P!TypeOK, Queue!TypeOK, P!JobRow, Queue!JobRow, P!JobState, Queue!JobState,
       P!AttemptStatus, Queue!AttemptStatus, P!WorkerState, Queue!WorkerState, P!Idle, Queue!Idle

\* The queues start alike.
LEMMA SameInit == Queue!Init => P!Init
BY DEF Queue!Init, P!Init, Queue!Idle, P!Idle

\* A claim is a claim, and leaves no job succeeded that was not.
LEMMA ClaimKeepsQueue ==
  ASSUME P!IInv, NEW w \in Worker, NEW e \in Epoch, Queue!Claim(w, e)
  PROVE  /\ P!IInv'
         /\ UNCHANGED results
         /\ \A k \in Epoch : jobs'[k].state = "succeeded" => jobs[k].state = "succeeded"
<1>1. P!Claim(w, e)
  BY DEF Queue!Claim, P!Claim, Queue!Claimable, P!Claimable, Queue!LeaseElapsed, P!LeaseElapsed,
         Queue!CloseAbandoned, P!CloseAbandoned, Queue!Idle, P!Idle, EveryLane
<1>2. P!IInv'
  BY <1>1, QueueAssumed, P!ClaimKeepsIInv
<1>3. jobs \in [Epoch -> P!JobRow]
  BY DEF P!IInv, P!TypeOK
<1>4. /\ UNCHANGED results
      /\ \E n : jobs' = [jobs EXCEPT ![e] = [state |-> "running", lease_generation |-> n,
                                             lease_token |-> n, lease_left |-> LeaseTicks]]
  BY <1>1 DEF P!Claim
<1> QED
  BY <1>2, <1>3, <1>4

\* A completion is a completion.
LEMMA CompleteKeepsQueue ==
  ASSUME P!IInv, NEW w \in Worker, NEW target \in P!CompletionState, Queue!Complete(w, target)
  PROVE  LET e == worker[w].job
             g == worker[w].lease_generation
         IN  /\ P!IInv'
             /\ e \in Epoch
             /\ g \in Nat \ {0}
             /\ results[e] = 0
             /\ \A k \in Epoch : jobs'[k].state = IF k = e THEN target ELSE jobs[k].state
             /\ \A k \in Epoch : results'[k] =
                  IF k = e /\ target = "succeeded" THEN g ELSE results[k]
             /\ target # "succeeded" => UNCHANGED results
<1> DEFINE e == worker[w].job
           g == worker[w].lease_generation
<1>1. P!Complete(w, target)
  BY DEF Queue!Complete, P!Complete, Queue!HoldsLease, P!HoldsLease,
         Queue!AfterCompletion, P!AfterCompletion, Queue!Idle, P!Idle
<1>2. P!IInv'
  BY <1>1, QueueAssumed, P!CompleteKeepsIInv
<1>3. /\ jobs \in [Epoch -> P!JobRow]
      /\ results \in [Epoch -> Nat]
      /\ worker \in [Worker -> P!WorkerState]
  BY DEF P!IInv, P!TypeOK
<1>4. /\ worker[w].phase = "executing"
      /\ jobs[e].state = "running"
      /\ jobs' = [jobs EXCEPT ![e] = [state |-> target, lease_generation |-> g,
                                      lease_token |-> 0, lease_left |-> 0]]
      /\ results' = IF target = "succeeded" THEN [results EXCEPT ![e] = g] ELSE results
  BY <1>1 DEF P!Complete, P!HoldsLease
<1>5. e \in Epoch /\ g \in Nat \ {0}
  <2>1. worker[w] # P!Idle
    BY <1>4, QueueAssumed, P!PhaseHoldsClaim
  <2> QED
    BY <1>3, <2>1, QueueAssumed, P!HeldClaim
<1>6. results[e] = 0
  BY <1>4, <1>5 DEF P!IInv, P!ResultMatchesSuccess
<1> QED
  BY <1>2, <1>3, <1>4, <1>5, <1>6

\* The report's job is put in, unless it is there.
LEMMA EnqueueKeepsQueue ==
  ASSUME P!IInv, NEW e \in Epoch, Queue!Enqueue(e)
  PROVE  /\ P!IInv'
         /\ UNCHANGED results
         /\ \A k \in Epoch : jobs'[k].state = "succeeded" => jobs[k].state = "succeeded"
<1>1. P!Enqueue(e)
  BY DEF Queue!Enqueue, P!Enqueue
<1>2. P!Next
  BY <1>1 DEF P!Next
<1>3. jobs \in [Epoch -> P!JobRow]
  BY DEF P!IInv, P!TypeOK
<1> QED
  BY <1>1, <1>2, <1>3, QueueAssumed, P!NextKeepsIInv DEF P!Enqueue, P!JobRow

\* A process requeues its job, or finds that somebody else did.
LEMMA RequeueKeepsQueue ==
  ASSUME P!IInv, NEW w \in Worker, Queue!Requeue(w)
  PROVE  /\ P!IInv'
         /\ UNCHANGED results
         /\ \A k \in Epoch : jobs'[k].state = "succeeded" => jobs[k].state = "succeeded"
<1>1. P!Requeue(w)
  BY DEF Queue!Requeue, P!Requeue, Queue!RequeueMatches, P!RequeueMatches, Queue!Idle, P!Idle
<1>2. P!Next
  BY <1>1 DEF P!Next
<1>3. jobs \in [Epoch -> P!JobRow]
  BY DEF P!IInv, P!TypeOK
<1>4. UNCHANGED results /\ (jobs' = jobs \/ jobs' = [jobs EXCEPT ![worker[w].job].state = "pending"])
  BY <1>1 DEF P!Requeue
<1>5. \A k \in Epoch : jobs'[k].state \in {jobs[k].state, "pending"}
  BY <1>3, <1>4 DEF P!JobRow
<1> QED
  BY <1>2, <1>4, <1>5, QueueAssumed, P!NextKeepsIInv

\* A late completion, and a crash: only the memory of the process changes.
LEMMA ForgettingKeepsQueue ==
  ASSUME P!IInv, NEW w \in Worker, Queue!CompleteStale(w) \/ Queue!Crash(w)
  PROVE  P!IInv' /\ UNCHANGED <<jobs, results>>
<1>1. /\ worker' = [worker EXCEPT ![w] = P!Idle]
      /\ UNCHANGED <<jobs, attempts, results>>
  BY DEF Queue!CompleteStale, Queue!Crash, Queue!Idle, P!Idle
<1>2. P!TypeOK
  BY DEF P!IInv
<1>3. P!Forgets
  BY <1>1, <1>2, QueueAssumed, P!IdleForgets
<1> QED
  BY <1>1, <1>3, QueueAssumed, P!ForgettingKeepsIInv

\* Time passes in the queue.
LEMMA TickKeepsQueue ==
  ASSUME P!IInv, Queue!Tick
  PROVE  /\ P!IInv'
         /\ UNCHANGED results
         /\ \A k \in Epoch : jobs'[k].state = jobs[k].state
<1>1. P!Tick
  BY DEF Queue!Tick, P!Tick
<1>2. P!Next
  BY <1>1 DEF P!Next
<1>3. jobs \in [Epoch -> P!JobRow]
  BY DEF P!IInv, P!TypeOK
<1>4. UNCHANGED results /\ \A k \in Epoch : jobs'[k].state = jobs[k].state
  BY <1>1, <1>3 DEF P!Tick, P!JobRow
<1> QED
  BY <1>2, <1>4, QueueAssumed, P!NextKeepsIInv

\* A step that leaves the queue alone.
LEMMA SameQueue ==
  ASSUME P!IInv, UNCHANGED <<jobs, attempts, results, worker>>
  PROVE  P!IInv'
<1>1. P!TypeOK
  BY DEF P!IInv
<1>2. P!Forgets
  BY <1>1, QueueAssumed, P!SameForgets
<1> QED
  BY <1>2, QueueAssumed, P!ForgettingKeepsIInv

-------------------------------------------------------------------------------
(* What the provider is shown is of the report *)

\* A set of naturals that is not empty has a least member.
LEMMA LeastNatural ==
  ASSUME NEW S \in SUBSET Nat, S # {}
  PROVE  \E n \in S : \A other \in S : n <= other
<1>1. PICK n \in S : \A other \in S : ~ (<<other, n>> \in OpToRel(<, Nat))
  BY WFMin, NatLessThanWellFounded
<1>2. \A other \in S : ~ (other < n)
  BY <1>1 DEF OpToRel
<1> QED
  BY <1>2

\* What holds of 0 and, if it holds of a number, of the next, holds of all up to a bound.
LEMMA UpTo ==
  ASSUME NEW n \in Nat, NEW S, 0 \in S, \A k \in 1..n : k - 1 \in S => k \in S
  PROVE  0..n \subseteq S
<1> DEFINE Bad == (0..n) \ S
<1> SUFFICES ASSUME Bad # {} PROVE FALSE
  OBVIOUS
<1>1. Bad \subseteq Nat
  OBVIOUS
<1>2. PICK k \in Bad : \A other \in Bad : k <= other
  <2> HIDE DEF Bad
  <2> QED
    BY <1>1, LeastNatural
<1>3. k \in 1..n
  BY <1>2
<1>4. k - 1 \in 0..n /\ ~ (k <= k - 1)
  BY <1>3
<1>5. k - 1 \in S
  BY <1>2, <1>4
<1> QED
  BY <1>2, <1>3, <1>5

\* FlattenSeq is defined by recursion on the number of the sequences, as the last value
\* of such a function.
Flattens(g, seqs, n) == g = [i \in 1..n |-> IF i = 1 THEN seqs[i] ELSE g[i - 1] \o seqs[i]]

\* There is such a function.
LEMMA FlattenExists ==
  ASSUME NEW seqs, NEW n \in Nat \ {0}
  PROVE  \E g : Flattens(g, seqs, n)
<1> DEFINE Bad == {k \in Nat \ {0} : ~ \E g : Flattens(g, seqs, k)}
<1> SUFFICES ASSUME Bad # {} PROVE FALSE
  OBVIOUS
<1>1. PICK k \in Bad : \A other \in Bad : k <= other
  <2>1. Bad \subseteq Nat
    OBVIOUS
  <2> HIDE DEF Bad
  <2> QED
    BY <2>1, LeastNatural
<1>2. CASE k = 1
  <2> DEFINE g == [i \in 1..1 |-> seqs[i]]
  <2>1. Flattens(g, seqs, 1)
    BY DEF Flattens
  <2> QED
    BY <1>2, <2>1
<1>3. CASE k # 1
  <2>1. k - 1 \in Nat \ {0} /\ k - 1 \notin Bad
    <3>1. k \in Nat \ {0}
      OBVIOUS
    <3>2. k - 1 \in Nat \ {0} /\ ~ (k <= k - 1)
      BY <1>3, <3>1
    <3> HIDE DEF Bad
    <3> QED
      BY <1>1, <3>2
  <2>2. PICK h : Flattens(h, seqs, k - 1)
    BY <2>1
  <2> DEFINE g == [i \in 1..k |-> IF i = k THEN h[k - 1] \o seqs[k] ELSE h[i]]
  <2>3. \A i \in 1..k - 1 : h[i] = IF i = 1 THEN seqs[i] ELSE h[i - 1] \o seqs[i]
    BY <2>1, <2>2 DEF Flattens
  <2>4. \A i \in 1..k : g[i] = IF i = 1 THEN seqs[i] ELSE g[i - 1] \o seqs[i]
    BY <1>1, <1>3, <2>1, <2>3
  <2>5. g = [i \in 1..k |-> g[i]]
    OBVIOUS
  <2> HIDE DEF g
  <2>6. Flattens(g, seqs, k)
    BY <2>4, <2>5 DEF Flattens
  <2> QED
    BY <2>6
<1> QED
  BY <1>2, <1>3

\* Sequences over a set, one after the other, are a sequence over that set.
LEMMA FlattenedOverTheSame ==
  ASSUME NEW X, NEW seqs \in Seq(Seq(X))
  PROVE  FlattenSeq(seqs) \in Seq(X)
<1> DEFINE n == Len(seqs)
           f == CHOOSE g : Flattens(g, seqs, n)
<1>1. n \in Nat /\ \A i \in 1..n : seqs[i] \in Seq(X)
  OBVIOUS
<1>2. CASE n = 0
  BY <1>2 DEF FlattenSeq
<1>3. CASE n # 0
  <2>1. FlattenSeq(seqs) = f[n]
    BY <1>3 DEF FlattenSeq, Flattens
  <2>2. f = [i \in 1..n |-> IF i = 1 THEN seqs[i] ELSE f[i - 1] \o seqs[i]]
    <3>1. \E g : Flattens(g, seqs, n)
      BY <1>1, <1>3, FlattenExists
    <3>2. Flattens(f, seqs, n)
      BY <3>1
    <3> HIDE DEF f
    <3> QED
      BY <3>2 DEF Flattens
  <2> HIDE DEF f
  <2> DEFINE Bad == {i \in 1..n : f[i] \notin Seq(X)}
  <2>3. Bad = {}
    <3> SUFFICES ASSUME Bad # {} PROVE FALSE
      OBVIOUS
    <3>1. PICK i \in Bad : \A other \in Bad : i <= other
      <4>1. Bad \subseteq Nat
        BY <1>1
      <4> HIDE DEF Bad
      <4> QED
        BY <4>1, LeastNatural
    <3>2. CASE i = 1
      BY <1>1, <2>2, <3>1, <3>2
    <3>3. CASE i # 1
      <4>1. i - 1 \in 1..n /\ i - 1 \notin Bad
        BY <1>1, <3>1, <3>3
      <4>2. f[i] = f[i - 1] \o seqs[i] /\ f[i - 1] \in Seq(X) /\ seqs[i] \in Seq(X)
        BY <1>1, <2>2, <3>1, <3>3, <4>1
      <4>3. f[i] \in Seq(X)
        BY <4>2, ConcatProperties
      <4> QED
        BY <3>1, <4>3
    <3> QED
      BY <3>2, <3>3
  <2> QED
    BY <1>1, <1>3, <2>1, <2>3
<1> QED
  BY <1>2, <1>3

\* The longest of the documents has a length, and no document is longer.
LEMMA LongestIsNatural ==
  ASSUME NEW X, NEW documents \in Seq(Seq(X))
  PROVE  /\ LongestOf(documents) \in Nat
         /\ \A d \in 1..Len(documents) : Len(documents[d]) <= LongestOf(documents)
<1> DEFINE n == Len(documents)
           upTo(k) == {0} \cup {Len(documents[d]) : d \in 1..k}
           Bad == {k \in 0..n : ~ \E x \in upTo(k) : \A y \in upTo(k) : x >= y}
<1>1. n \in Nat /\ DOMAIN documents = 1..n /\ \A d \in 1..n : Len(documents[d]) \in Nat
  OBVIOUS
<1>2. Bad = {}
  <2> SUFFICES ASSUME Bad # {} PROVE FALSE
    OBVIOUS
  <2>1. PICK k \in Bad : \A other \in Bad : k <= other
    <3>1. Bad \subseteq Nat
      BY <1>1
    <3> HIDE DEF Bad
    <3> QED
      BY <3>1, LeastNatural
  <2>2. CASE k = 0
    BY <2>1, <2>2
  <2>3. CASE k # 0
    <3>1. k - 1 \in 0..n /\ k - 1 \notin Bad /\ k \in 1..n
      <4>1. k \in 0..n
        BY <2>1
      <4>2. k - 1 \in 0..n /\ k \in 1..n /\ ~ (k <= k - 1)
        BY <1>1, <2>3, <4>1
      <4> HIDE DEF Bad
      <4> QED
        BY <2>1, <4>2
    <3>2. PICK x \in upTo(k - 1) : \A y \in upTo(k - 1) : x >= y
      BY <3>1
    <3>3. upTo(k) = upTo(k - 1) \cup {Len(documents[k])}
      BY <1>1, <3>1
    <3>4. upTo(k) \subseteq Nat
      BY <1>1, <3>1
    <3> HIDE DEF upTo
    <3>5. \E z \in upTo(k) : \A y \in upTo(k) : z >= y
      <4>1. CASE x >= Len(documents[k])
        BY <3>2, <3>3, <4>1
      <4>2. CASE ~ (x >= Len(documents[k]))
        BY <3>2, <3>3, <3>4, <4>2
      <4> QED
        BY <4>1, <4>2
    <3> QED
      BY <2>1, <3>5
  <2> QED
    BY <2>2, <2>3
<1>3. \E x \in upTo(n) : \A y \in upTo(n) : x >= y
  <2> HIDE DEF upTo
  <2>1. n \in 0..n
    BY <1>1
  <2> QED
    BY <1>2, <2>1
<1>4. LongestOf(documents) = Max(upTo(n)) /\ upTo(n) \subseteq Nat
  BY <1>1 DEF LongestOf
<1>5. \A d \in 1..n : Len(documents[d]) \in upTo(n)
  OBVIOUS
<1> HIDE DEF upTo
<1>6. Max(upTo(n)) \in upTo(n) /\ \A y \in upTo(n) : Max(upTo(n)) >= y
  BY <1>3 DEF Max
<1> QED
  BY <1>1, <1>4, <1>5, <1>6

\* The smaller of two numbers.
LEMMA MinOfTwo ==
  ASSUME NEW a \in Nat, NEW b \in Nat
  PROVE  Min({a, b}) \in 0..b
<1> DEFINE S == {a, b}
<1>1. \E x \in S : \A y \in S : x =< y
  <2>1. CASE a <= b
    BY <2>1
  <2>2. CASE b <= a
    BY <2>2
  <2> QED
    BY <2>1, <2>2
<1>2. S \subseteq Nat /\ b \in S
  OBVIOUS
<1> HIDE DEF S
<1>3. Min(S) \in S /\ \A y \in S : Min(S) =< y
  BY <1>1 DEF Min
<1>4. Min(S) \in 0..b
  <2> DEFINE m == Min(S)
  <2>1. m \in S /\ m =< b
    BY <1>2, <1>3
  <2> HIDE DEF m
  <2>2. m \in Nat
    BY <1>2, <2>1
  <2>3. m \in 0..b
    BY <2>1, <2>2
  <2> QED
    BY <2>3 DEF m
<1> QED
  BY <1>4, Zenon DEF S

\* _select_report_anchors returns anchors of the documents it is given.
LEMMA SelectionIsOfTheDocuments ==
  ASSUME NEW X, NEW documents \in Seq(Seq(X)), NEW maxAnchors \in Nat
  PROVE  _select_report_anchors(documents, maxAnchors, 0) \in Seq(X)
<1> DEFINE limit == LongestOf(documents)
           row(n) == [d \in 1..Len(documents) |->
                        IF n <= Len(documents[d]) THEN <<documents[d][n]>> ELSE <<>>]
           rows == [n \in 1..limit |-> FlattenSeq(row(n))]
           all == FlattenSeq(rows)
           last == Min({maxAnchors, Len(all)})
<1>1. limit \in Nat
  BY LongestIsNatural
<1>2. ASSUME NEW n \in 1..limit PROVE FlattenSeq(row(n)) \in Seq(X)
  <2>1. ASSUME NEW d \in 1..Len(documents) PROVE row(n)[d] \in Seq(X)
    <3>1. documents[d] \in Seq(X)
      OBVIOUS
    <3>2. CASE n <= Len(documents[d])
      <4>1. n \in 1..Len(documents[d])
        BY <1>1, <3>1, <3>2
      <4>2. documents[d][n] \in X
        BY <3>1, <4>1
      <4> QED
        BY <3>2, <4>2
    <3> QED
      BY <3>2
  <2>2. row(n) = [d \in 1..Len(documents) |-> row(n)[d]]
    OBVIOUS
  <2> DEFINE r == row(n)
  <2> HIDE DEF row
  <2>3. r \in Seq(Seq(X))
    BY <2>1, <2>2
  <2> HIDE DEF r
  <2>4. FlattenSeq(r) \in Seq(X)
    BY <2>3, FlattenedOverTheSame
  <2> QED
    BY <2>4 DEF r
<1>3. _select_report_anchors(documents, maxAnchors, 0) = SubSeq(all, 1, last)
  BY DEF _select_report_anchors, RoundRobin
<1>4. rows \in Seq(Seq(X))
  <2> HIDE DEF row, limit
  <2> QED
    BY <1>1, <1>2
<1> HIDE DEF rows
<1>5. all \in Seq(X)
  BY <1>4, FlattenedOverTheSame
<1> HIDE DEF all
<1>6. last \in 0..Len(all)
  <2>1. Len(all) \in Nat
    BY <1>5
  <2> QED
    BY <2>1, MinOfTwo
<1> HIDE DEF last
<1>7. \A i \in 1..last : all[i] \in X
  BY <1>5, <1>6
<1>8. SubSeq(all, 1, last) \in Seq(X)
  BY <1>6, <1>7, SubSeqProperties
<1> QED
  BY <1>3, <1>8

\* The provider of the worker and of the edit requests sees sources of the report only.
LEMMA ShownIsPinned ==
  ASSUME NEW e \in Epoch
  PROVE  Shown[e] \subseteq Pinned[e]
<1> DEFINE X == UNION {ToSet(d) : d \in ToSet(Documents[e])}
           entries == [id : Anchor, size : Nat]
           selected == _select_report_anchors(Documents[e], MaxShown, 0)
<1>1. Documents[e] \in Seq(Seq(entries)) /\ MaxShown \in Nat
  BY SuggestionsAssumption DEF SuggestionsAssumption
<1>2. Documents[e] \in Seq(Seq(X))
  <2> DEFINE D == Documents[e]
  <2>1. D \in Seq(Seq(entries))
    BY <1>1
  <2> HIDE DEF entries, D
  <2>2. \A d \in DOMAIN D : D[d] \in Seq(entries)
    BY <2>1
  <2>3. ASSUME NEW d \in DOMAIN D PROVE D[d] \in Seq({D[d][i] : i \in DOMAIN D[d]})
    BY <2>2, <2>3
  <2>4. ASSUME NEW d \in DOMAIN D PROVE {D[d][i] : i \in DOMAIN D[d]} \subseteq X
    BY <2>4 DEF ToSet, D
  <2> HIDE DEF X
  <2>5. \A d \in DOMAIN D : D[d] \in Seq(X)
    BY <2>2, <2>4
  <2>6. D \in Seq(Seq(X))
    BY <2>1, <2>5
  <2> QED
    BY <2>6 DEF D
<1> HIDE DEF X, entries
<1>3. selected \in Seq(X)
  BY <1>1, <1>2, SelectionIsOfTheDocuments
<1> HIDE DEF selected
<1>4. ToSet(selected) \subseteq X
  BY <1>3 DEF ToSet
<1>5. Shown[e] = {a.id : a \in ToSet(selected)} /\ Pinned[e] = {a.id : a \in X}
  BY DEF Shown, Pinned, selected, X
<1> QED
  BY <1>4, <1>5

-------------------------------------------------------------------------------
(* The section of the sources is complete *)

\* The largest of the first numbers.
LEMMA MaxOfInterval ==
  ASSUME NEW k \in Nat \ {0}
  PROVE  Max(1..k) = k
<1>1. k \in 1..k /\ \A y \in 1..k : k >= y
  OBVIOUS
<1>2. \A x \in 1..k : (\A y \in 1..k : x >= y) => x = k
  BY <1>1
<1> QED
  BY <1>1, <1>2 DEF Max

\* A part of the first k numbers and not of the first k - 1 has k as its largest.
LEMMA MaxOfPart ==
  ASSUME NEW k \in Nat \ {0}, NEW s \in SUBSET (1..k), k \in s
  PROVE  Max(s) = k
<1>1. \A y \in s : k >= y
  OBVIOUS
<1>2. \A x \in s : (\A y \in s : x >= y) => x = k
  BY <1>1
<1> QED
  BY <1>1, <1>2 DEF Max

Nothing == [blocks |-> <<>>, chunk |-> <<>>]

\* FoldLeft is the value, at the whole of the domain, of a function over its parts.
TakesParts(iter, document, n) ==
  iter = [s \in SUBSET (1..n) |->
            IF s = {} THEN Nothing ELSE Take(iter[s \ {Max(s)}], document[Max(s)])]

\* There is such a function.
LEMMA TakesExists ==
  ASSUME NEW document, NEW n \in Nat
  PROVE  \E iter : TakesParts(iter, document, n)
<1> DEFINE S == {k \in Nat : \E iter : TakesParts(iter, document, k)}
<1>1. 0 \in S
  <2> DEFINE h == [s \in SUBSET (1..0) |-> Nothing]
  <2>1. \A s \in SUBSET (1..0) : s = {}
    OBVIOUS
  <2>2. TakesParts(h, document, 0)
    BY <2>1 DEF TakesParts
  <2> QED
    BY <2>2
<1>2. ASSUME NEW k \in 1..n, k - 1 \in S PROVE k \in S
  <2>1. PICK h : TakesParts(h, document, k - 1)
    BY <1>2
  <2> DEFINE g == [s \in SUBSET (1..k) |->
                     IF k \in s THEN Take(h[s \ {k}], document[k]) ELSE h[s]]
  <2>2. ASSUME NEW s \in SUBSET (1..k)
        PROVE  g[s] = IF s = {} THEN Nothing ELSE Take(g[s \ {Max(s)}], document[Max(s)])
    <3>1. CASE k \in s
      <4>1. Max(s) = k
        BY <3>1, MaxOfPart
      <4>2. s \ {k} \in SUBSET (1..k) /\ k \notin s \ {k}
        OBVIOUS
      <4>3. g[s \ {k}] = h[s \ {k}]
        BY <4>2
      <4>4. g[s] = Take(h[s \ {k}], document[k])
        BY <3>1
      <4> HIDE DEF g
      <4> QED
        BY <3>1, <4>1, <4>3, <4>4
    <3>2. CASE k \notin s
      <4> DEFINE m == Max(s)
      <4> HIDE DEF m
      <4>1. s \in SUBSET (1..k - 1) /\ s \ {m} \in SUBSET (1..k) /\ k \notin s \ {m}
        <5>1. \A i \in 1..k : i # k => i \in 1..k - 1
          OBVIOUS
        <5> QED
          BY <3>2, <5>1
      <4>2. g[s] = h[s] /\ g[s \ {m}] = h[s \ {m}]
        BY <3>2, <4>1
      <4>3. h[s] = IF s = {} THEN Nothing ELSE Take(h[s \ {m}], document[m])
        BY <2>1, <4>1 DEF TakesParts, m
      <4> HIDE DEF g
      <4> QED
        BY <4>2, <4>3 DEF m
    <3> QED
      BY <3>1, <3>2
  <2>3. g = [s \in SUBSET (1..k) |-> g[s]]
    OBVIOUS
  <2> HIDE DEF g
  <2>4. TakesParts(g, document, k)
    BY <2>2, <2>3 DEF TakesParts
  <2> QED
    BY <2>4
<1> HIDE DEF S
<1>3. n \in S
  BY <1>1, <1>2, UpTo
<1> QED
  BY <1>3 DEF S

\* The anchors are taken in turn.
LEMMA TakenInTurn ==
  ASSUME NEW X, NEW document \in Seq(X)
  PROVE  \E f : /\ f[0] = Nothing
                /\ \A n \in 1..Len(document) : f[n] = Take(f[n - 1], document[n])
                /\ FoldLeft(Take, Nothing, document) = f[Len(document)]
<1> DEFINE N == Len(document)
           iter == CHOOSE g : TakesParts(g, document, N)
           f == [n \in 0..N |-> iter[1..n]]
<1>1. N \in Nat /\ DOMAIN document = 1..N
  OBVIOUS
<1>2. TakesParts(iter, document, N)
  BY <1>1, TakesExists
<1>3. FoldLeft(Take, Nothing, document) = iter[1..N]
  BY <1>1 DEF FoldLeft, MapThenFoldSet, TakesParts
<1> HIDE DEF iter, N
<1>4. f[0] = Nothing
  <2>1. 1..0 = {}
    OBVIOUS
  <2> QED
    BY <1>1, <1>2, <2>1 DEF TakesParts
<1>5. ASSUME NEW n \in 1..N PROVE f[n] = Take(f[n - 1], document[n])
  <2>1. 1..n \in SUBSET (1..N) /\ 1..n # {} /\ Max(1..n) = n
    <3>1. n \in Nat \ {0} /\ n \in 1..n /\ \A i \in 1..n : i \in 1..N
      BY <1>1
    <3> QED
      BY <3>1, MaxOfInterval
  <2>2. (1..n) \ {n} = 1..n - 1 /\ n - 1 \in 0..N /\ n \in 0..N
    BY <1>1
  <2>3. iter[1..n] = Take(iter[(1..n) \ {Max(1..n)}], document[Max(1..n)])
    BY <1>2, <2>1 DEF TakesParts
  <2> QED
    BY <2>1, <2>2, <2>3
<1>6. f[N] = iter[1..N]
  BY <1>1
<1> HIDE DEF f
<1> QED
  BY <1>3, <1>4, <1>5, <1>6 DEF N

\* One sequence after the other.
JoinsInTurn(g, seqs) ==
  /\ g[0] = <<>>
  /\ \A i \in 1..Len(seqs) : g[i] = g[i - 1] \o seqs[i]
  /\ FlattenSeq(seqs) = g[Len(seqs)]

\* So FlattenSeq puts them.
LEMMA FlattenedInTurn ==
  ASSUME NEW X, NEW seqs \in Seq(Seq(X))
  PROVE  \E g : JoinsInTurn(g, seqs) /\ \A i \in 0..Len(seqs) : g[i] \in Seq(X)
<1> DEFINE n == Len(seqs)
           f == CHOOSE g : Flattens(g, seqs, n)
           h == [i \in 0..n |-> IF i = 0 THEN <<>> ELSE f[i]]
<1>1. n \in Nat /\ \A i \in 1..n : seqs[i] \in Seq(X)
  OBVIOUS
<1>2. FlattenSeq(seqs) = IF n = 0 THEN seqs ELSE f[n]
  BY DEF FlattenSeq, Flattens
<1>3. n = 0 => seqs = <<>>
  OBVIOUS
<1>4. ASSUME n # 0 PROVE Flattens(f, seqs, n)
  <2>1. \E g : Flattens(g, seqs, n)
    BY <1>1, <1>4, FlattenExists
  <2> QED
    BY <2>1
<1> HIDE DEF f
<1>5. ASSUME NEW i \in 1..n PROVE h[i] = h[i - 1] \o seqs[i]
  <2>1. n # 0 /\ i - 1 \in 0..n /\ i \in 0..n /\ i # 0
    BY <1>1
  <2>2. f[i] = IF i = 1 THEN seqs[i] ELSE f[i - 1] \o seqs[i]
    BY <1>4, <2>1 DEF Flattens
  <2>3. h[i] = f[i]
    BY <2>1
  <2>4. CASE i = 1
    <3>1. h[i - 1] = <<>>
      BY <2>1, <2>4
    <3>2. <<>> \o seqs[i] = seqs[i]
      BY <1>1, ConcatEmptySeq
    <3> QED
      BY <2>2, <2>3, <2>4, <3>1, <3>2
  <2>5. CASE i # 1
    <3>1. h[i - 1] = f[i - 1]
      BY <2>1, <2>5
    <3> QED
      BY <2>2, <2>3, <2>5, <3>1
  <2> QED
    BY <2>4, <2>5
<1>6. h[0] = <<>> /\ (n # 0 => h[n] = f[n])
  BY <1>1
<1> HIDE DEF h
<1>7. \A i \in 0..n : h[i] \in Seq(X)
  <2> DEFINE S == {i \in 0..n : h[i] \in Seq(X)}
  <2>1. 0 \in S
    <3>1. 0 \in 0..n /\ <<>> \in Seq(X)
      BY <1>1
    <3> QED
      BY <1>6, <3>1
  <2>2. ASSUME NEW k \in 1..n, k - 1 \in S PROVE k \in S
    <3>1. h[k] = h[k - 1] \o seqs[k] /\ h[k - 1] \in Seq(X) /\ seqs[k] \in Seq(X)
      BY <1>1, <1>5, <2>2
    <3>2. h[k] \in Seq(X)
      BY <3>1, ConcatProperties
    <3> QED
      BY <1>1, <3>2
  <2> HIDE DEF S
  <2>3. 0..n \subseteq S
    BY <1>1, <2>1, <2>2, UpTo
  <2> QED
    BY <2>3 DEF S
<1>8. FlattenSeq(seqs) = h[n]
  BY <1>2, <1>3, <1>6
<1> QED
  BY <1>5, <1>6, <1>7, <1>8 DEF JoinsInTurn

\* One sequence more at the end comes at the end.
LEMMA FlattenAppend ==
  ASSUME NEW X, NEW seqs \in Seq(Seq(X)), NEW s \in Seq(X)
  PROVE  FlattenSeq(Append(seqs, s)) = FlattenSeq(seqs) \o s
<1> DEFINE n == Len(seqs)
           more == Append(seqs, s)
<1>1. /\ n \in Nat /\ more \in Seq(Seq(X)) /\ Len(more) = n + 1
      /\ more[n + 1] = s /\ \A i \in 1..n : more[i] = seqs[i]
  OBVIOUS
<1> HIDE DEF more
<1>2. PICK g : JoinsInTurn(g, seqs)
  BY FlattenedInTurn
<1>3. /\ g[0] = <<>>
      /\ \A i \in 1..n : g[i] = g[i - 1] \o seqs[i]
      /\ FlattenSeq(seqs) = g[n]
  BY <1>2 DEF JoinsInTurn
<1>4. PICK h : JoinsInTurn(h, more)
  BY <1>1, FlattenedInTurn
<1>5. /\ h[0] = <<>>
      /\ \A i \in 1..n + 1 : h[i] = h[i - 1] \o more[i]
      /\ FlattenSeq(more) = h[n + 1]
  BY <1>1, <1>4 DEF JoinsInTurn
<1> DEFINE S == {i \in 0..n : g[i] = h[i]}
<1> HIDE DEF n
<1>6. 0 \in S
  BY <1>1, <1>3, <1>5
<1>7. ASSUME NEW k \in 1..n, k - 1 \in S PROVE k \in S
  <2>1. k \in 1..n + 1 /\ k \in 0..n
    BY <1>1
  <2>2. g[k] = g[k - 1] \o seqs[k] /\ h[k] = h[k - 1] \o more[k] /\ more[k] = seqs[k]
    BY <1>1, <1>3, <1>5, <2>1
  <2> QED
    BY <1>7, <2>1, <2>2
<1> HIDE DEF S
<1>8. 0..n \subseteq S
  BY <1>1, <1>6, <1>7, UpTo
<1>9. g[n] = h[n]
  BY <1>1, <1>8 DEF S
<1>10. h[n + 1] = h[n] \o s
  <2>1. n + 1 \in 1..n + 1 /\ (n + 1) - 1 = n
    BY <1>1
  <2>2. h[n + 1] = h[(n + 1) - 1] \o more[n + 1]
    BY <1>5, <2>1
  <2> QED
    BY <1>1, <2>1, <2>2
<1> QED
  BY <1>3, <1>5, <1>9, <1>10 DEF more

\* A beginning of a sequence, and the next longer one.
LEMMA PrefixGrows ==
  ASSUME NEW X, NEW s \in Seq(X), NEW n \in 1..Len(s)
  PROVE  SubSeq(s, 1, n) = SubSeq(s, 1, n - 1) \o <<s[n]>> /\ SubSeq(s, 1, n - 1) \in Seq(X)
<1>1. Len(s) \in Nat /\ 1 \in 1..Len(s) /\ n \in 1..Len(s) /\ n - 1 \in Int
  OBVIOUS
<1>2. \A i \in 1..n - 1 : s[i] \in X
  OBVIOUS
<1> QED
  BY <1>1, <1>2, SubSeqRecursiveSecond, SubSeqProperties

\* Appending to the second of two sequences.
LEMMA AppendAtEnd ==
  ASSUME NEW X, NEW s \in Seq(X), NEW t \in Seq(X), NEW x \in X
  PROVE  s \o Append(t, x) = (s \o t) \o <<x>>
<1> DEFINE u == <<x>>
<1>1. u \in Seq(X) /\ Append(t, x) = t \o u
  OBVIOUS
<1> HIDE DEF u
<1>2. s \o (t \o u) = (s \o t) \o u
  BY <1>1, ConcatAssociative
<1> QED
  BY <1>1, <1>2 DEF u

\* A block that the editor takes, unless it is a single anchor.
Fits(block) == Len(block) <= BlockAnchors /\ (TextLength(block) > ParagraphLength => Len(block) <= 1)

\* The first n anchors are in the blocks and the chunk in hand.
CoveredBy(blocks, chunk, document, n, X) ==
  /\ blocks \in Seq(Seq(X)) /\ chunk \in Seq(X)
  /\ FlattenSeq(blocks) \o chunk = SubSeq(document, 1, n)
  /\ \A i \in 1..Len(blocks) : Fits(blocks[i]) /\ blocks[i] # <<>>
  /\ Fits(chunk)

Covered(acc, document, n, X) == CoveredBy(acc.blocks, acc.chunk, document, n, X)

\* What is flushed is a block.
LEMMA FlushKeeps ==
  ASSUME NEW X, NEW blocks \in Seq(Seq(X)), NEW chunk \in Seq(X), Fits(chunk),
         \A i \in 1..Len(blocks) : Fits(blocks[i]) /\ blocks[i] # <<>>
  PROVE  LET new == Flush(blocks, chunk)
         IN  /\ new \in Seq(Seq(X))
             /\ FlattenSeq(new) = FlattenSeq(blocks) \o chunk
             /\ \A i \in 1..Len(new) : Fits(new[i]) /\ new[i] # <<>>
<1>1. FlattenSeq(blocks) \in Seq(X)
  BY FlattenedOverTheSame
<1>2. CASE chunk = <<>>
  <2>1. Flush(blocks, chunk) = blocks
    BY <1>2 DEF Flush
  <2>2. FlattenSeq(blocks) \o chunk = FlattenSeq(blocks)
    BY <1>1, <1>2, ConcatEmptySeq
  <2> QED
    BY <2>1, <2>2
<1>3. CASE chunk # <<>>
  <2> DEFINE new == Append(blocks, chunk)
  <2>1. Flush(blocks, chunk) = new
    BY <1>3 DEF Flush
  <2>2. FlattenSeq(new) = FlattenSeq(blocks) \o chunk
    BY FlattenAppend
  <2>3. /\ new \in Seq(Seq(X)) /\ Len(new) = Len(blocks) + 1 /\ new[Len(blocks) + 1] = chunk
        /\ \A i \in 1..Len(blocks) : new[i] = blocks[i]
    OBVIOUS
  <2> HIDE DEF new
  <2>4. \A i \in 1..Len(new) : i = Len(blocks) + 1 \/ i \in 1..Len(blocks)
    BY <2>3
  <2>5. \A i \in 1..Len(new) : Fits(new[i]) /\ new[i] # <<>>
    BY <1>3, <2>3, <2>4
  <2> QED
    BY <2>1, <2>2, <2>3, <2>5
<1> QED
  BY <1>2, <1>3

\* The next anchor is covered.
LEMMA TakeCovers ==
  ASSUME NEW X, NEW document \in Seq(X), NEW n \in 1..Len(document), NEW acc,
         Covered(acc, document, n - 1, X)
  PROVE  Covered(Take(acc, document[n]), document, n, X)
<1> DEFINE a == document[n]
           b == acc.blocks
           c == acc.chunk
           p == SubSeq(document, 1, n - 1)
<1>1. a \in X /\ SubSeq(document, 1, n) = p \o <<a>> /\ p \in Seq(X)
  BY PrefixGrows
<1>2. /\ b \in Seq(Seq(X)) /\ c \in Seq(X) /\ FlattenSeq(b) \o c = p /\ Fits(c)
      /\ \A i \in 1..Len(b) : Fits(b[i]) /\ b[i] # <<>>
  BY DEF Covered, CoveredBy
<1>3. FlattenSeq(b) \in Seq(X)
  BY <1>2, FlattenedOverTheSame
<1>4. BlockAnchors \in Nat \ {0} /\ ParagraphLength \in Nat
  BY AssemblyAssumption DEF AssemblyAssumption
<1>5. CASE Full(c, a)
  <2> DEFINE new == Flush(b, c)
  <2>1. Take(acc, a) = [blocks |-> new, chunk |-> <<a>>]
    BY <1>5 DEF Take
  <2>2. /\ new \in Seq(Seq(X)) /\ FlattenSeq(new) = p
        /\ \A i \in 1..Len(new) : Fits(new[i]) /\ new[i] # <<>>
    BY <1>2, FlushKeeps
  <2> HIDE DEF new, a, p
  <2>3. <<a>> \in Seq(X) /\ Fits(<<a>>)
    BY <1>1, <1>4 DEF Fits
  <2>4. CoveredBy(new, <<a>>, document, n, X)
    BY <1>1, <2>2, <2>3 DEF CoveredBy
  <2> QED
    BY <2>1, <2>4 DEF Covered, a
<1>6. CASE ~ Full(c, a)
  <2> DEFINE new == Append(c, a)
  <2>1. Take(acc, a) = [blocks |-> b, chunk |-> new]
    BY <1>6 DEF Take
  <2>2. new \in Seq(X) /\ Len(new) = Len(c) + 1
    BY <1>1, <1>2
  <2>3. Fits(new)
    <3>1. ~ (Len(c) >= BlockAnchors) /\ ~ (TextLength(new) > ParagraphLength)
      BY <1>6 DEF Full
    <3> HIDE DEF new
    <3> QED
      BY <1>2, <1>4, <2>2, <3>1 DEF Fits
  <2>4. FlattenSeq(b) \o new = p \o <<a>>
    <3> HIDE DEF a, c
    <3> QED
      BY <1>1, <1>2, <1>3, AppendAtEnd
  <2> HIDE DEF new, a, p, b
  <2>5. CoveredBy(b, new, document, n, X)
    BY <1>1, <1>2, <2>2, <2>3, <2>4 DEF CoveredBy
  <2> QED
    BY <2>1, <2>5 DEF Covered, a
<1> QED
  BY <1>5, <1>6

\* The section of the sources repeats any document, every anchor once and in order, in
\* blocks that are within the limits and not empty (_build_source_coverage_blocks).
THEOREM EveryAnchorIsQuoted ==
  ASSUME NEW X, NEW document \in Seq(X)
  PROVE  LET blocks == _build_source_coverage_blocks(document)
         IN  /\ blocks \in Seq(Seq(X))
             /\ FlattenSeq(blocks) = document
             /\ \A i \in 1..Len(blocks) : Fits(blocks[i]) /\ blocks[i] # <<>>
<1> DEFINE N == Len(document)
           end == FoldLeft(Take, Nothing, document)
<1>1. N \in Nat
  OBVIOUS
<1>2. PICK f : /\ f[0] = Nothing
               /\ \A n \in 1..N : f[n] = Take(f[n - 1], document[n])
               /\ end = f[N]
  BY TakenInTurn
<1> HIDE DEF end
<1> DEFINE S == {n \in 0..N : Covered(f[n], document, n, X)}
<1>3. 0 \in S
  <2>1. Fits(<<>>)
    BY AssemblyAssumption DEF Fits, AssemblyAssumption
  <2>2. FlattenSeq(<<>>) \o <<>> = <<>> /\ SubSeq(document, 1, 0) = <<>>
    BY DEF FlattenSeq
  <2>3. Nothing.blocks = <<>> /\ Nothing.chunk = <<>>
    BY DEF Nothing
  <2>4. CoveredBy(<<>>, <<>>, document, 0, X)
    <3>1. <<>> \in Seq(X) /\ <<>> \in Seq(Seq(X)) /\ 1..Len(<<>>) = {}
      BY EmptySeq
    <3> QED
      BY <2>1, <2>2, <3>1 DEF CoveredBy
  <2>5. Covered(Nothing, document, 0, X)
    BY <2>3, <2>4 DEF Covered
  <2> QED
    BY <1>1, <1>2, <2>5
<1>4. ASSUME NEW k \in 1..N, k - 1 \in S PROVE k \in S
  <2>1. k \in 0..N /\ Covered(f[k - 1], document, k - 1, X)
    BY <1>1, <1>4
  <2>2. Covered(Take(f[k - 1], document[k]), document, k, X)
    BY <2>1, TakeCovers
  <2> QED
    BY <1>2, <2>1, <2>2
<1> HIDE DEF S
<1>5. 0..N \subseteq S
  BY <1>1, <1>3, <1>4, UpTo
<1>6. Covered(end, document, N, X)
  BY <1>1, <1>2, <1>5 DEF S
<1>7. SubSeq(document, 1, N) = document
  OBVIOUS
<1>8. _build_source_coverage_blocks(document) = Flush(end.blocks, end.chunk)
  BY DEF _build_source_coverage_blocks, Nothing, end
<1> QED
  BY <1>6, <1>7, <1>8, FlushKeeps DEF Covered, CoveredBy

\* So it does of every document that is tried.
LEMMA CoverageOfAll == CoverageIsComplete
<1> SUFFICES ASSUME NEW document \in SampleDocuments(1)
             PROVE  LET blocks == _build_source_coverage_blocks(document)
                    IN  /\ FlattenSeq(blocks) = document
                        /\ \A b \in ToSet(blocks) :
                             /\ Len(b) \in 1..BlockAnchors
                             /\ TextLength(b) > ParagraphLength => Len(b) = 1
  BY DEF CoverageIsComplete
<1> DEFINE blocks == _build_source_coverage_blocks(document)
           X == {document[i] : i \in DOMAIN document}
<1>1. document \in Seq(X)
  <2>1. PICK n \in 0..MaxDocument : \E sizes \in [1..n -> Sizes] :
          document = [i \in 1..n |-> [id |-> <<1, i>>, size |-> sizes[i]]]
    BY DEF SampleDocuments
  <2>2. n \in Nat
    BY AssemblyAssumption DEF AssemblyAssumption
  <2>3. document = [i \in 1..n |-> document[i]] /\ DOMAIN document = 1..n
    BY <2>1
  <2> QED
    BY <2>2, <2>3
<1> HIDE DEF X
<1>2. /\ blocks \in Seq(Seq(X)) /\ FlattenSeq(blocks) = document
      /\ \A i \in 1..Len(blocks) : Fits(blocks[i]) /\ blocks[i] # <<>>
  BY <1>1, EveryAnchorIsQuoted
<1> HIDE DEF blocks
<1>3. ASSUME NEW b \in ToSet(blocks)
      PROVE  Len(b) \in 1..BlockAnchors /\ (TextLength(b) > ParagraphLength => Len(b) = 1)
  <2>1. PICK i \in 1..Len(blocks) : b = blocks[i]
    BY <1>2 DEF ToSet
  <2>2. b \in Seq(X) /\ b # <<>> /\ Fits(b)
    BY <1>2, <2>1
  <2> DEFINE n == Len(b)
  <2>3. n \in Nat \ {0}
    BY <2>2, EmptySeq
  <2>4. n <= BlockAnchors /\ (TextLength(b) > ParagraphLength => n <= 1)
    BY <2>2 DEF Fits
  <2> HIDE DEF n
  <2>5. n \in 1..BlockAnchors /\ (TextLength(b) > ParagraphLength => n = 1)
    BY <2>3, <2>4, AssemblyAssumption DEF AssemblyAssumption
  <2> QED
    BY <2>5 DEF n
<1> QED
  BY <1>2, <1>3 DEF blocks

-------------------------------------------------------------------------------
(* The comparison of two documents is stable *)

\* The fold of the candidates over the parts of their domain, as that of the anchors.
MatchesParts(iter, candidates, n) ==
  iter = [s \in SUBSET (1..n) |->
            IF s = {} THEN {} ELSE Match(iter[s \ {Max(s)}], candidates[Max(s)])]

\* There is such a function.
LEMMA MatchesExists ==
  ASSUME NEW candidates, NEW n \in Nat
  PROVE  \E iter : MatchesParts(iter, candidates, n)
<1> DEFINE S == {k \in Nat : \E iter : MatchesParts(iter, candidates, k)}
<1>1. 0 \in S
  <2> DEFINE h == [s \in SUBSET (1..0) |-> {}]
  <2>1. \A s \in SUBSET (1..0) : s = {}
    OBVIOUS
  <2>2. MatchesParts(h, candidates, 0)
    BY <2>1 DEF MatchesParts
  <2> QED
    BY <2>2
<1>2. ASSUME NEW k \in 1..n, k - 1 \in S PROVE k \in S
  <2>1. PICK h : MatchesParts(h, candidates, k - 1)
    BY <1>2
  <2> DEFINE g == [s \in SUBSET (1..k) |->
                     IF k \in s THEN Match(h[s \ {k}], candidates[k]) ELSE h[s]]
  <2>2. ASSUME NEW s \in SUBSET (1..k)
        PROVE  g[s] = IF s = {} THEN {} ELSE Match(g[s \ {Max(s)}], candidates[Max(s)])
    <3>1. CASE k \in s
      <4>1. Max(s) = k
        BY <3>1, MaxOfPart
      <4>2. s \ {k} \in SUBSET (1..k) /\ k \notin s \ {k}
        OBVIOUS
      <4>3. g[s \ {k}] = h[s \ {k}]
        BY <4>2
      <4>4. g[s] = Match(h[s \ {k}], candidates[k])
        BY <3>1
      <4> HIDE DEF g
      <4> QED
        BY <3>1, <4>1, <4>3, <4>4
    <3>2. CASE k \notin s
      <4> DEFINE m == Max(s)
      <4> HIDE DEF m
      <4>1. s \in SUBSET (1..k - 1) /\ s \ {m} \in SUBSET (1..k) /\ k \notin s \ {m}
        <5>1. \A i \in 1..k : i # k => i \in 1..k - 1
          OBVIOUS
        <5> QED
          BY <3>2, <5>1
      <4>2. g[s] = h[s] /\ g[s \ {m}] = h[s \ {m}]
        BY <3>2, <4>1
      <4>3. h[s] = IF s = {} THEN {} ELSE Match(h[s \ {m}], candidates[m])
        BY <2>1, <4>1 DEF MatchesParts, m
      <4> HIDE DEF g
      <4> QED
        BY <4>2, <4>3 DEF m
    <3> QED
      BY <3>1, <3>2
  <2>3. g = [s \in SUBSET (1..k) |-> g[s]]
    OBVIOUS
  <2> HIDE DEF g
  <2>4. MatchesParts(g, candidates, k)
    BY <2>2, <2>3 DEF MatchesParts
  <2> QED
    BY <2>4
<1> HIDE DEF S
<1>3. n \in S
  BY <1>1, <1>2, UpTo
<1> QED
  BY <1>3 DEF S

\* The candidates are considered in turn.
LEMMA MatchedInTurn ==
  ASSUME NEW candidates, NEW N \in Nat, DOMAIN candidates = 1..N
  PROVE  \E f : /\ f[0] = {}
                /\ \A n \in 1..N : f[n] = Match(f[n - 1], candidates[n])
                /\ FoldLeft(Match, {}, candidates) = f[N]
<1> DEFINE iter == CHOOSE g : MatchesParts(g, candidates, N)
           f == [n \in 0..N |-> iter[1..n]]
<1>1. MatchesParts(iter, candidates, N)
  BY MatchesExists
<1>2. FoldLeft(Match, {}, candidates) = iter[1..N]
  BY DEF FoldLeft, MapThenFoldSet, MatchesParts
<1> HIDE DEF iter
<1>3. f[0] = {}
  <2>1. 1..0 = {}
    OBVIOUS
  <2> QED
    BY <1>1, <2>1 DEF MatchesParts
<1>4. ASSUME NEW n \in 1..N PROVE f[n] = Match(f[n - 1], candidates[n])
  <2>1. 1..n \in SUBSET (1..N) /\ 1..n # {} /\ Max(1..n) = n
    <3>1. n \in Nat \ {0} /\ n \in 1..n /\ \A i \in 1..n : i \in 1..N
      OBVIOUS
    <3> QED
      BY <3>1, MaxOfInterval
  <2>2. (1..n) \ {n} = 1..n - 1 /\ n - 1 \in 0..N /\ n \in 0..N
    OBVIOUS
  <2>3. iter[1..n] = Match(iter[(1..n) \ {Max(1..n)}], candidates[Max(1..n)])
    BY <1>1, <2>1 DEF MatchesParts
  <2> QED
    BY <2>1, <2>2, <2>3
<1>5. f[N] = iter[1..N]
  OBVIOUS
<1> HIDE DEF f
<1> QED
  BY <1>2, <1>3, <1>4, <1>5

\* Candidates that can be put in order.
Comparable(left, right, similarity, C) ==
  /\ IsFiniteSet(C)
  /\ C \subseteq [l : Int, r : Int]
  /\ \A c \in C : Score(left, right, similarity, c) \in Int

\* Any two candidates have an order, and who is before is at least as similar.
LEMMA BeforeIsAnOrder ==
  ASSUME NEW left, NEW right, NEW similarity, NEW C, Comparable(left, right, similarity, C),
         NEW c \in C, NEW d \in C
  PROVE  LET before(x, y) == Before(left, right, similarity, x, y)
             score(x) == Score(left, right, similarity, x)
         IN  /\ ~ before(c, c)
             /\ c = d \/ before(c, d) \/ before(d, c)
             /\ before(c, d) => score(c) >= score(d)
             /\ \A e \in C : before(e, c) /\ before(c, d) => before(e, d)
<1> DEFINE score(x) == Score(left, right, similarity, x)
<1>1. /\ \A x \in C : x \in [l : Int, r : Int] /\ score(x) \in Int
      /\ \A x \in C : x.l \in Int /\ x.r \in Int /\ x = [l |-> x.l, r |-> x.r]
  BY DEF Comparable
<1>2. \A x, y : Before(left, right, similarity, x, y) <=>
        \/ score(x) > score(y)
        \/ score(x) = score(y) /\ x.l < y.l
        \/ score(x) = score(y) /\ x.l = y.l /\ x.r < y.r
  BY DEF Before
<1>3. (c.l = d.l /\ c.r = d.r) => c = d
  BY <1>1
<1> HIDE DEF score
<1>4. ~ Before(left, right, similarity, c, c)
  BY <1>1, <1>2
<1>5. c = d \/ Before(left, right, similarity, c, d) \/ Before(left, right, similarity, d, c)
  BY <1>1, <1>2, <1>3
<1>6. Before(left, right, similarity, c, d) => score(c) >= score(d)
  BY <1>1, <1>2
<1>7. ASSUME NEW e \in C, Before(left, right, similarity, e, c), Before(left, right, similarity, c, d)
      PROVE  Before(left, right, similarity, e, d)
  BY <1>1, <1>2, <1>7
<1> QED
  BY <1>4, <1>5, <1>6, <1>7 DEF score

\* The candidates that are before a candidate.
Ahead(left, right, similarity, C, c) == {d \in C : Before(left, right, similarity, d, c)}

\* Fewer are before the one that is before the other.
LEMMA AheadGrows ==
  ASSUME NEW left, NEW right, NEW similarity, NEW C, Comparable(left, right, similarity, C),
         NEW c \in C, NEW d \in C, Before(left, right, similarity, c, d)
  PROVE  Cardinality(Ahead(left, right, similarity, C, c))
           < Cardinality(Ahead(left, right, similarity, C, d))
<1> DEFINE A == Ahead(left, right, similarity, C, c)
           B == Ahead(left, right, similarity, C, d)
<1>1. A \subseteq B /\ c \in B /\ c \notin A /\ B \subseteq C
  BY BeforeIsAnOrder DEF Ahead
<1>2. IsFiniteSet(C)
  BY DEF Comparable
<1> HIDE DEF A, B
<1>3. IsFiniteSet(A) /\ IsFiniteSet(B)
  BY <1>1, <1>2, FS_Subset
<1>4. Cardinality(A) <= Cardinality(B) /\ Cardinality(A) # Cardinality(B)
  BY <1>1, <1>3, FS_Subset
<1>5. Cardinality(A) \in Nat /\ Cardinality(B) \in Nat
  BY <1>3, FS_CardinalityType
<1>6. Cardinality(A) < Cardinality(B)
  BY <1>4, <1>5
<1> QED
  BY <1>6 DEF A, B

\* Ordered has every candidate, each before the next ones.
LEMMA OrderedInOrder ==
  ASSUME NEW left, NEW right, NEW similarity, NEW C, Comparable(left, right, similarity, C)
  PROVE  LET ordered == Ordered(left, right, similarity, C)
             N == Cardinality(C)
         IN  /\ N \in Nat /\ DOMAIN ordered = 1..N
             /\ \A n \in 1..N : ordered[n] \in C
             /\ \A c \in C : \E n \in 1..N : ordered[n] = c
             /\ \A m, n \in 1..N : m < n => Before(left, right, similarity, ordered[m], ordered[n])
<1> DEFINE N == Cardinality(C)
           rank(c) == Cardinality(Ahead(left, right, similarity, C, c))
           ordered == Ordered(left, right, similarity, C)
           before(x, y) == Before(left, right, similarity, x, y)
<1>1. IsFiniteSet(C) /\ N \in Nat
  BY FS_CardinalityType DEF Comparable
<1>2. ASSUME NEW c \in C PROVE rank(c) \in 0..N - 1
  <2> DEFINE A == Ahead(left, right, similarity, C, c)
  <2>1. A \subseteq C /\ c \notin A
    BY BeforeIsAnOrder DEF Ahead
  <2> HIDE DEF A
  <2>2. IsFiniteSet(A) /\ Cardinality(A) <= N /\ Cardinality(A) # N
    BY <1>1, <2>1, FS_Subset
  <2>3. Cardinality(A) \in Nat
    BY <2>2, FS_CardinalityType
  <2>4. Cardinality(A) \in 0..N - 1
    BY <1>1, <2>2, <2>3
  <2> QED
    BY <2>4 DEF A
<1>3. \A c, d \in C : before(c, d) => rank(c) < rank(d)
  BY AheadGrows
<1>4. \A c, d \in C : c = d \/ before(c, d) \/ before(d, c)
  BY BeforeIsAnOrder
<1>5. ordered = [n \in 1..N |-> CHOOSE c \in C : rank(c) = n - 1]
  BY DEF Ordered, Ahead
<1> HIDE DEF rank, before, ordered
<1>6. \A c, d \in C : rank(c) = rank(d) => c = d
  BY <1>2, <1>3, <1>4
<1>7. \A k \in 0..N - 1 : \E c \in C : rank(c) = k
  <2> DEFINE f == [c \in C |-> rank(c)]
  <2>1. f \in Injection(C, 0..N - 1)
    <3>1. f \in [C -> 0..N - 1] /\ \A c, d \in C : f[c] = f[d] => c = d
      BY <1>2, <1>6
    <3> QED
      BY <3>1 DEF Injection, IsInjective
  <2>2. IsFiniteSet(0..N - 1) /\ Cardinality(0..N - 1) = N
    BY <1>1, FS_Interval
  <2> HIDE DEF f, N
  <2>3. f \in Surjection(C, 0..N - 1)
    BY <2>1, <2>2, FS_Injection DEF N
  <2>4. \A k \in 0..N - 1 : \E c \in C : f[c] = k
    BY <2>3 DEF Surjection
  <2> QED
    BY <2>4 DEF f
<1> HIDE DEF N
<1>8. ASSUME NEW n \in 1..N PROVE ordered[n] \in C /\ rank(ordered[n]) = n - 1
  <2>1. n - 1 \in 0..N - 1
    BY <1>1
  <2>2. \E c \in C : rank(c) = n - 1
    BY <1>7, <2>1
  <2> QED
    BY <1>5, <2>2
<1>9. ASSUME NEW c \in C PROVE \E n \in 1..N : ordered[n] = c
  <2>1. rank(c) \in 0..N - 1
    BY <1>2
  <2>2. rank(c) + 1 \in 1..N /\ (rank(c) + 1) - 1 = rank(c)
    BY <1>1, <2>1
  <2> QED
    BY <1>6, <1>8, <2>2
<1>10. ASSUME NEW m \in 1..N, NEW n \in 1..N, m < n PROVE before(ordered[m], ordered[n])
  <2>1. /\ ordered[m] \in C /\ ordered[n] \in C
        /\ rank(ordered[m]) = m - 1 /\ rank(ordered[n]) = n - 1
    BY <1>8
  <2>2. m - 1 # n - 1 /\ ~ (n - 1 < m - 1)
    BY <1>1, <1>10
  <2> QED
    BY <1>3, <1>4, <2>1, <2>2
<1>11. DOMAIN ordered = 1..N
  BY <1>5
<1> QED
  BY <1>1, <1>8, <1>9, <1>10, <1>11 DEF before, ordered, N

\* The first n candidates have been considered.
StableTo(M, ordered, n, left, right, similarity) ==
  /\ \A m \in M : \E i \in 1..n : m = ordered[i]
  /\ \A x, y \in M : x.l = y.l <=> x.r = y.r
  /\ \A i \in 1..n :
       \/ ordered[i] \in M
       \/ \E m \in M : /\ m.l = ordered[i].l \/ m.r = ordered[i].r
                       /\ Score(left, right, similarity, m)
                            >= Score(left, right, similarity, ordered[i])

\* The next candidate is a match, or it is passed over for a better one.
LEMMA MatchIsStable ==
  ASSUME NEW left, NEW right, NEW similarity, NEW ordered, NEW n \in Nat \ {0}, NEW M,
         StableTo(M, ordered, n - 1, left, right, similarity),
         \A i \in 1..n - 1 : Score(left, right, similarity, ordered[i])
                               >= Score(left, right, similarity, ordered[n])
  PROVE  StableTo(Match(M, ordered[n]), ordered, n, left, right, similarity)
<1> DEFINE c == ordered[n]
           score(x) == Score(left, right, similarity, x)
<1>1. /\ \A m \in M : \E i \in 1..n - 1 : m = ordered[i]
      /\ \A x, y \in M : x.l = y.l <=> x.r = y.r
      /\ \A i \in 1..n - 1 :
           \/ ordered[i] \in M
           \/ \E m \in M : (m.l = ordered[i].l \/ m.r = ordered[i].r) /\ score(m) >= score(ordered[i])
  BY DEF StableTo
<1>2. \A i \in 1..n - 1 : score(ordered[i]) >= score(c)
  OBVIOUS
<1>3. 1..n - 1 \subseteq 1..n /\ n \in 1..n /\ \A i \in 1..n : i = n \/ i \in 1..n - 1
  OBVIOUS
<1>4. CASE Free(M, c)
  <2> DEFINE new == M \cup {c}
  <2>1. Match(M, c) = new
    BY <1>4 DEF Match
  <2>2. \A m \in M : m.l # c.l /\ m.r # c.r
    BY <1>4 DEF Free
  <2>3. \A x, y \in new : x.l = y.l <=> x.r = y.r
    BY <1>1, <2>2
  <2>4. \A m \in new : \E i \in 1..n : m = ordered[i]
    BY <1>1, <1>3
  <2>5. \A i \in 1..n :
          \/ ordered[i] \in new
          \/ \E m \in new : (m.l = ordered[i].l \/ m.r = ordered[i].r) /\ score(m) >= score(ordered[i])
    BY <1>1, <1>3
  <2> QED
    BY <2>1, <2>3, <2>4, <2>5 DEF StableTo
<1>5. CASE ~ Free(M, c)
  <2>1. Match(M, c) = M
    BY <1>5 DEF Match
  <2>2. PICK m \in M : m.l = c.l \/ m.r = c.r
    BY <1>5 DEF Free
  <2>3. score(m) >= score(c)
    BY <1>1, <1>2
  <2>4. \A i \in 1..n :
          \/ ordered[i] \in M
          \/ \E x \in M : (x.l = ordered[i].l \/ x.r = ordered[i].r) /\ score(x) >= score(ordered[i])
    BY <1>1, <1>3, <2>2, <2>3
  <2>5. \A x \in M : \E i \in 1..n : x = ordered[i]
    BY <1>1, <1>3
  <2> QED
    BY <1>1, <2>1, <2>4, <2>5 DEF StableTo
<1> QED
  BY <1>4, <1>5

\* The matches of any candidates that can be put in order, of documents of any length:
\* an anchor is in at most one, and a candidate is passed over only for a match of one of
\* its two anchors that is as good (compare_anchor_sets).
THEOREM MatchesAreStable ==
  ASSUME NEW left, NEW right, NEW similarity, NEW C, Comparable(left, right, similarity, C)
  PROVE  LET matches == FoldLeft(Match, {}, Ordered(left, right, similarity, C))
             score(x) == Score(left, right, similarity, x)
         IN  /\ \A m, n \in matches : m.l = n.l <=> m.r = n.r
             /\ \A c \in C \ matches :
                  \E m \in matches : (m.l = c.l \/ m.r = c.r) /\ score(m) >= score(c)
<1> DEFINE N == Cardinality(C)
           ordered == Ordered(left, right, similarity, C)
           matches == FoldLeft(Match, {}, ordered)
           score(x) == Score(left, right, similarity, x)
<1>1. /\ N \in Nat /\ DOMAIN ordered = 1..N
      /\ \A n \in 1..N : ordered[n] \in C
      /\ \A c \in C : \E n \in 1..N : ordered[n] = c
      /\ \A m, n \in 1..N : m < n => Before(left, right, similarity, ordered[m], ordered[n])
  BY OrderedInOrder
<1>2. \A m, n \in 1..N : m < n => score(ordered[m]) >= score(ordered[n])
  BY <1>1, BeforeIsAnOrder
<1> HIDE DEF ordered, N
<1>3. PICK f : /\ f[0] = {}
               /\ \A n \in 1..N : f[n] = Match(f[n - 1], ordered[n])
               /\ matches = f[N]
  BY <1>1, MatchedInTurn
<1> HIDE DEF matches
<1> DEFINE S == {n \in 0..N : StableTo(f[n], ordered, n, left, right, similarity)}
<1>4. 0 \in S
  BY <1>1, <1>3 DEF StableTo
<1>5. ASSUME NEW n \in 1..N, n - 1 \in S PROVE n \in S
  <2>1. n \in Nat \ {0} /\ n \in 0..N /\ \A i \in 1..n - 1 : i \in 1..N /\ i < n
    BY <1>1
  <2>2. StableTo(f[n - 1], ordered, n - 1, left, right, similarity)
    BY <1>5
  <2>3. \A i \in 1..n - 1 : score(ordered[i]) >= score(ordered[n])
    BY <1>2, <2>1
  <2>4. StableTo(Match(f[n - 1], ordered[n]), ordered, n, left, right, similarity)
    BY <2>1, <2>2, <2>3, MatchIsStable
  <2> QED
    BY <1>3, <2>1, <2>4
<1> HIDE DEF S
<1>6. 0..N \subseteq S
  BY <1>1, <1>4, <1>5, UpTo
<1>7. StableTo(matches, ordered, N, left, right, similarity)
  BY <1>1, <1>3, <1>6 DEF S
<1>8. \A m, n \in matches : m.l = n.l <=> m.r = n.r
  BY <1>7 DEF StableTo
<1>9. ASSUME NEW c \in C \ matches
      PROVE  \E m \in matches : (m.l = c.l \/ m.r = c.r) /\ score(m) >= score(c)
  <2>1. PICK n \in 1..N : ordered[n] = c
    BY <1>1
  <2> QED
    BY <1>7, <2>1 DEF StableTo
<1> QED
  BY <1>8, <1>9 DEF matches, ordered

\* So are those of the two documents of two anchors that are tried.
LEMMA ComparisonOfAll == ComparisonIsStable
<1> DEFINE ids(d) == {<<d, i>> : i \in 1..2}
           anchors(d) == [i \in 1..2 |-> [id |-> <<d, i>>, size |-> 1]]
           left == anchors(1)
           right == anchors(2)
<1> SUFFICES ASSUME NEW near \in SUBSET (ids(1) \X ids(2)), NEW threshold \in Scores,
                    NEW similarity \in [ids(1) \X ids(2) -> Scores]
             PROVE  LET matches == compare_anchor_sets(left, right, near, similarity, threshold)
                        score(x) == Score(left, right, similarity, x)
                    IN  /\ \A m, n \in matches : m.l = n.l <=> m.r = n.r
                        /\ \A c \in Candidates(left, right, near, similarity, threshold) \ matches :
                             \E m \in matches : (m.l = c.l \/ m.r = c.r) /\ score(m) >= score(c)
  BY DEF ComparisonIsStable
<1> DEFINE C == Candidates(left, right, near, similarity, threshold)
           L == 1..2
<1>1. C \subseteq [l : L, r : L]
  BY DEF Candidates
<1>2. \A c \in [l : L, r : L] : Score(left, right, similarity, c) \in Int
  <2> SUFFICES ASSUME NEW c \in [l : L, r : L]
               PROVE  similarity[<<left[c.l].id, right[c.r].id>>] \in Int
    BY DEF Score
  <2>1. c.l \in L /\ c.r \in L
    OBVIOUS
  <2>2. left[c.l].id = <<1, c.l>> /\ right[c.r].id = <<2, c.r>>
    BY <2>1
  <2>3. left[c.l].id \in ids(1) /\ right[c.r].id \in ids(2)
    BY <2>1, <2>2
  <2>4. Scores \subseteq Int
    BY AssemblyAssumption DEF AssemblyAssumption
  <2> HIDE DEF left, right, ids
  <2> QED
    BY <2>3, <2>4
<1>3. IsFiniteSet([l : L, r : L])
  <2> DEFINE f == [p \in L \X L |-> [l |-> p[1], r |-> p[2]]]
  <2>1. IsFiniteSet(L \X L)
    <3>1. IsFiniteSet(L)
      <4>1. 1 \in Int /\ 2 \in Int
        OBVIOUS
      <4> QED
        BY <4>1, FS_Interval, Zenon
    <3> HIDE DEF L
    <3> QED
      BY <3>1, FS_Product
  <2>2. f \in Surjection(L \X L, [l : L, r : L])
    <3>1. f \in [L \X L -> [l : L, r : L]]
      OBVIOUS
    <3>2. \A c \in [l : L, r : L] : <<c.l, c.r>> \in L \X L /\ f[<<c.l, c.r>>] = c
      OBVIOUS
    <3> HIDE DEF f
    <3> QED
      BY <3>1, <3>2 DEF Surjection
  <2> HIDE DEF f, L
  <2> QED
    BY <2>1, <2>2, FS_Surjection
<1>4. Comparable(left, right, similarity, C)
  <2>1. IsFiniteSet(C)
    BY <1>1, <1>3, FS_Subset
  <2>2. [l : L, r : L] \subseteq [l : Int, r : Int]
    OBVIOUS
  <2> HIDE DEF left, right, C, L
  <2> QED
    BY <1>1, <1>2, <2>1, <2>2 DEF Comparable
<1>5. compare_anchor_sets(left, right, near, similarity, threshold)
        = FoldLeft(Match, {}, Ordered(left, right, similarity, C))
  BY DEF compare_anchor_sets
<1> HIDE DEF left, right, C
<1> QED
  BY <1>4, <1>5, MatchesAreStable DEF C

-------------------------------------------------------------------------------
(* The selection is fair *)

\* How many anchors of each of three documents have been shown after n rounds.
Capped(documents, n) ==
  [d \in 1..3 |-> IF n <= Len(documents[d]) THEN n ELSE Len(documents[d])]

\* No document is two anchors ahead of one that has more.
Even(count, most) ==
  \A d, e \in 1..3 : count[e] <= count[d] + 1 \/ count[d] = most[d]

\* Each next anchor is the next one of some document: count[n] tells how many of the
\* first n are of which.
Tour(count, s, documents, most) ==
  /\ count[0] = [d \in 1..3 |-> 0]
  /\ \A n \in 0..Len(s) : count[n] \in [1..3 -> Nat] /\ Even(count[n], most)
  /\ \A n \in 1..Len(s) : \E d \in 1..3 :
       /\ count[n] = [count[n - 1] EXCEPT ![d] = count[n - 1][d] + 1]
       /\ count[n][d] \in 1..Len(documents[d])
       /\ s[n] = documents[d][count[n][d]]

\* Such a sequence, with so many anchors of each document in all.
Reaches(s, total, documents, most) ==
  \E count : Tour(count, s, documents, most) /\ count[Len(s)] = total

\* One anchor more.
LEMMA TourGrows ==
  ASSUME NEW X, NEW documents, NEW most, NEW s \in Seq(X), NEW total,
         Reaches(s, total, documents, most), NEW d \in 1..3,
         NEW more, more = [total EXCEPT ![d] = total[d] + 1],
         more[d] \in 1..Len(documents[d]), documents[d][more[d]] \in X, Even(more, most)
  PROVE  Reaches(s \o <<documents[d][more[d]]>>, more, documents, most)
<1> DEFINE N == Len(s)
           a == documents[d][more[d]]
           t == s \o <<a>>
<1>1. /\ N \in Nat /\ Len(t) = N + 1 /\ t[N + 1] = a
      /\ \A n \in 1..N : t[n] = s[n]
  OBVIOUS
<1>2. PICK count : Tour(count, s, documents, most) /\ count[N] = total
  BY DEF Reaches
<1> DEFINE next == [n \in 0..N + 1 |-> IF n = N + 1 THEN more ELSE count[n]]
<1>3. /\ next[N + 1] = more /\ \A n \in 0..N : next[n] = count[n]
  BY <1>1
<1>4. \A n \in 0..N : count[n] \in [1..3 -> Nat] /\ Even(count[n], most)
  BY <1>2 DEF Tour
<1>5. more \in [1..3 -> Nat]
  <2>1. total \in [1..3 -> Nat]
    BY <1>1, <1>2, <1>4
  <2> QED
    BY <2>1
<1> HIDE DEF next, t, N, a
<1>6. next[0] = [e \in 1..3 |-> 0]
  BY <1>1, <1>2, <1>3 DEF Tour
<1>7. ASSUME NEW n \in 0..N + 1 PROVE next[n] \in [1..3 -> Nat] /\ Even(next[n], most)
  <2>1. n = N + 1 \/ n \in 0..N
    BY <1>1
  <2> QED
    BY <1>3, <1>4, <1>5, <2>1
<1>8. ASSUME NEW n \in 1..N + 1
      PROVE  \E e \in 1..3 :
               /\ next[n] = [next[n - 1] EXCEPT ![e] = next[n - 1][e] + 1]
               /\ next[n][e] \in 1..Len(documents[e])
               /\ t[n] = documents[e][next[n][e]]
  <2>1. CASE n = N + 1
    <3>1. next[n] = more /\ next[n - 1] = total /\ t[n] = a
      <4>1. n - 1 = N /\ N \in 0..N
        BY <1>1, <2>1
      <4> QED
        BY <1>1, <1>2, <1>3, <2>1, <4>1 DEF N
    <3> QED
      BY <3>1 DEF a
  <2>2. CASE n # N + 1
    <3>1. n \in 1..N /\ n \in 0..N /\ n - 1 \in 0..N
      BY <1>1, <2>2
    <3>2. next[n] = count[n] /\ next[n - 1] = count[n - 1] /\ t[n] = s[n]
      BY <1>1, <1>3, <3>1
    <3>3. \E e \in 1..3 :
               /\ count[n] = [count[n - 1] EXCEPT ![e] = count[n - 1][e] + 1]
               /\ count[n][e] \in 1..Len(documents[e])
               /\ s[n] = documents[e][count[n][e]]
      BY <1>2, <3>1 DEF Tour, N
    <3> QED
      BY <3>2, <3>3
  <2> QED
    BY <2>1, <2>2
<1>9. Tour(next, t, documents, most)
  BY <1>1, <1>6, <1>7, <1>8 DEF Tour
<1> QED
  BY <1>1, <1>3, <1>9 DEF Reaches, t, a

\* What a document gives to a round.
Piece(documents, n, d) == IF n <= Len(documents[d]) THEN <<documents[d][n]>> ELSE <<>>

\* In the middle of the n-th round: the documents up to d have given theirs.
Amid(documents, n, d) ==
  [e \in 1..3 |-> IF e <= d THEN Capped(documents, n)[e] ELSE Capped(documents, n - 1)[e]]

\* A document gives its piece to a round.
LEMMA PieceReaches ==
  ASSUME NEW X, NEW documents \in Seq(Seq(X)), Len(documents) = 3, NEW limit \in Nat,
         NEW n \in 1..limit, NEW d \in 1..3, NEW s \in Seq(X),
         Reaches(s, Amid(documents, n, d - 1), documents, Capped(documents, limit))
  PROVE  /\ s \o Piece(documents, n, d) \in Seq(X)
         /\ Reaches(s \o Piece(documents, n, d), Amid(documents, n, d), documents,
                    Capped(documents, limit))
<1> DEFINE L(e) == Len(documents[e])
           most == Capped(documents, limit)
           total == Amid(documents, n, d - 1)
           more == Amid(documents, n, d)
           cap(e, k) == IF k <= L(e) THEN k ELSE L(e)
<1>1. \A e \in 1..3 : documents[e] \in Seq(X) /\ L(e) \in Nat
  <2>1. \A e \in 1..3 : documents[e] \in Seq(X)
    BY ElementOfSeq
  <2> QED
    BY <2>1, LenProperties
<1>2. \A e \in 1..3 : \A k : Capped(documents, k)[e] = cap(e, k)
  BY DEF Capped
<1>3. /\ total = [e \in 1..3 |-> IF e <= d - 1 THEN cap(e, n) ELSE cap(e, n - 1)]
      /\ more = [e \in 1..3 |-> IF e <= d THEN cap(e, n) ELSE cap(e, n - 1)]
      /\ \A e \in 1..3 : most[e] = cap(e, limit)
  BY <1>2 DEF Amid
<1>4. \A e \in 1..3 : e <= d - 1 <=> (e <= d /\ e # d)
  OBVIOUS
<1> HIDE DEF total, more, most
<1>5. CASE n <= L(d)
  <2>1. more[d] = n /\ total[d] = n - 1 /\ n \in 1..L(d)
    <3> HIDE DEF L
    <3> QED
      BY <1>1, <1>3, <1>4, <1>5
  <2>2. more = [total EXCEPT ![d] = total[d] + 1]
    <3>1. \A e \in 1..3 : more[e] = IF e = d THEN total[d] + 1 ELSE total[e]
      <4> HIDE DEF cap, L
      <4> QED
        BY <1>3, <1>4, <2>1
    <3> HIDE DEF cap, L
    <3> QED
      BY <1>3, <3>1
  <2>3. Even(more, most)
    <3> SUFFICES ASSUME NEW a \in 1..3, NEW e \in 1..3
                 PROVE  more[e] <= more[a] + 1 \/ more[a] = most[a]
      BY DEF Even
    <3>1. L(a) \in Nat /\ L(e) \in Nat
      BY <1>1
    <3>2. more[e] \in {cap(e, n), cap(e, n - 1)} /\ more[a] \in {cap(a, n), cap(a, n - 1)}
      BY <1>3
    <3>3. more[e] <= n
      <4> HIDE DEF L
      <4> QED
        BY <3>1, <3>2
    <3>4. more[a] >= n - 1 \/ (more[a] = L(a) /\ L(a) < n - 1)
      <4> HIDE DEF L
      <4> QED
        BY <3>1, <3>2
    <3>5. L(a) < n - 1 => most[a] = L(a)
      <4> HIDE DEF L
      <4> QED
        BY <1>3, <3>1
    <3>6. more[a] \in Int /\ more[e] \in Int
      <4> HIDE DEF L
      <4> QED
        BY <3>1, <3>2
    <3> HIDE DEF L, cap
    <3> QED
      BY <3>3, <3>4, <3>5, <3>6
  <2>4. documents[d][n] \in X
    BY <1>1, <2>1
  <2>5. Piece(documents, n, d) = <<documents[d][more[d]]>>
    BY <1>5, <2>1 DEF Piece
  <2>6. Reaches(s, total, documents, most)
    BY DEF total, most
  <2> HIDE DEF cap
  <2>7. Reaches(s \o <<documents[d][more[d]]>>, more, documents, most)
    BY <2>1, <2>2, <2>3, <2>4, <2>6, TourGrows
  <2>8. s \o <<documents[d][more[d]]>> \in Seq(X)
    BY <2>1, <2>4
  <2> QED
    BY <2>5, <2>7, <2>8 DEF more, most
<1>6. CASE ~ (n <= L(d))
  <2>1. Piece(documents, n, d) = <<>> /\ s \o <<>> = s
    BY <1>6 DEF Piece
  <2>2. cap(d, n) = cap(d, n - 1)
    <3> HIDE DEF L
    <3> QED
      BY <1>1, <1>6, SMTT(30)
  <2>3. more = total
    <3> HIDE DEF cap, L
    <3> QED
      BY <1>3, <1>4, <2>2
  <2> QED
    BY <2>1, <2>3 DEF more, total
<1> QED
  BY <1>5, <1>6

\* The parts of the second of two sequences come one after the other.
LEMMA PartsInTurn ==
  ASSUME NEW X, NEW s \in Seq(X), NEW t \in Seq(X), NEW u \in Seq(X), NEW w, w = t \o u
  PROVE  s \o w = (s \o t) \o u
BY ConcatAssociative

\* The pieces of a round.
Row(documents, n) == [d \in 1..3 |-> Piece(documents, n, d)]

\* A round begins and ends with as many anchors of each document as there are rounds.
LEMMA AmidEnds ==
  ASSUME NEW documents, NEW n
  PROVE  /\ Amid(documents, n, 0) = Capped(documents, n - 1)
         /\ Amid(documents, n, 3) = Capped(documents, n)
<1>1. \A e \in 1..3 : ~ (e <= 0) /\ e <= 3
  OBVIOUS
<1>2. \A k : Capped(documents, k) = [e \in 1..3 |-> Capped(documents, k)[e]]
  BY DEF Capped
<1>3. Amid(documents, n, 0) = [e \in 1..3 |-> Capped(documents, n - 1)[e]]
  BY <1>1 DEF Amid
<1>4. Amid(documents, n, 3) = [e \in 1..3 |-> Capped(documents, n)[e]]
  BY <1>1 DEF Amid
<1> QED
  BY <1>2, <1>3, <1>4

\* A whole round.
LEMMA RoundReaches ==
  ASSUME NEW X, NEW documents \in Seq(Seq(X)), Len(documents) = 3, NEW limit \in Nat,
         NEW n \in 1..limit, NEW s \in Seq(X),
         Reaches(s, Capped(documents, n - 1), documents, Capped(documents, limit))
  PROVE  /\ FlattenSeq(Row(documents, n)) \in Seq(X)
         /\ Reaches(s \o FlattenSeq(Row(documents, n)), Capped(documents, n), documents,
                    Capped(documents, limit))
<1> DEFINE row == Row(documents, n)
           most == Capped(documents, limit)
           p(d) == Piece(documents, n, d)
<1>1. \A d \in 1..3 : p(d) \in Seq(X)
  <2> SUFFICES ASSUME NEW d \in 1..3 PROVE p(d) \in Seq(X)
    OBVIOUS
  <2>1. documents[d] \in Seq(X)
    BY ElementOfSeq
  <2>2. CASE n <= Len(documents[d])
    <3>1. n \in 1..Len(documents[d])
      BY <2>1, <2>2
    <3>2. documents[d][n] \in X
      BY <2>1, <3>1
    <3> QED
      BY <2>2, <3>2 DEF Piece
  <2>3. CASE ~ (n <= Len(documents[d]))
    BY <2>3, EmptySeq DEF Piece
  <2> QED
    BY <2>2, <2>3
<1>2. row \in Seq(Seq(X)) /\ Len(row) = 3 /\ row[1] = p(1) /\ row[2] = p(2) /\ row[3] = p(3)
  BY <1>1 DEF Row
<1> HIDE DEF row, p
<1>3. PICK g : JoinsInTurn(g, row)
  BY <1>2, FlattenedInTurn
<1>4. /\ g[0] = <<>> /\ g[1] = g[0] \o p(1) /\ g[2] = g[1] \o p(2) /\ g[3] = g[2] \o p(3)
      /\ FlattenSeq(row) = g[3]
  <2>1. \A i \in 1..3 : g[i] = g[i - 1] \o row[i]
    BY <1>2, <1>3 DEF JoinsInTurn
  <2>2. 1 \in 1..3 /\ 2 \in 1..3 /\ 3 \in 1..3 /\ 1 - 1 = 0 /\ 2 - 1 = 1 /\ 3 - 1 = 2
    OBVIOUS
  <2>3. g[0] = <<>> /\ FlattenSeq(row) = g[3]
    BY <1>2, <1>3 DEF JoinsInTurn
  <2> QED
    BY <1>2, <2>1, <2>2, <2>3
<1>5. g[1] = p(1) /\ g[1] \in Seq(X)
  BY <1>1, <1>4, ConcatEmptySeq
<1>6. g[2] \in Seq(X)
  BY <1>1, <1>4, <1>5, ConcatProperties
<1>7. g[3] \in Seq(X)
  BY <1>1, <1>4, <1>6, ConcatProperties
<1>8. s \o g[3] = ((s \o p(1)) \o p(2)) \o p(3)
  <2> DEFINE a == g[1]
             b == g[2]
             c == g[3]
             x == p(2)
             y == p(3)
  <2>1. a \in Seq(X) /\ x \in Seq(X) /\ b = a \o x
    BY <1>1, <1>4, <1>5
  <2>2. b \in Seq(X) /\ y \in Seq(X) /\ c = b \o y
    BY <1>1, <1>4, <1>6
  <2> HIDE DEF a, b, c, x, y
  <2>3. s \o c = (s \o b) \o y
    BY <2>2, PartsInTurn, SMTT(30)
  <2>4. s \o b = (s \o a) \o x
    BY <2>1, PartsInTurn
  <2>5. s \o c = ((s \o a) \o x) \o y
    BY <2>3, <2>4
  <2> QED
    BY <1>5, <2>5 DEF a, c, x, y
<1> DEFINE s1 == s \o p(1)
           s2 == s1 \o p(2)
           s3 == s2 \o p(3)
<1>9. Reaches(s, Amid(documents, n, 0), documents, most)
  BY AmidEnds
<1>10. s1 \in Seq(X) /\ Reaches(s1, Amid(documents, n, 1), documents, most)
  <2>1. 1 \in 1..3 /\ 1 - 1 = 0
    OBVIOUS
  <2> QED
    BY <1>9, <2>1, PieceReaches DEF p
<1> HIDE DEF s1
<1>11. s2 \in Seq(X) /\ Reaches(s2, Amid(documents, n, 2), documents, most)
  <2>1. 2 \in 1..3 /\ 2 - 1 = 1
    OBVIOUS
  <2> QED
    BY <1>10, <2>1, PieceReaches DEF p
<1> HIDE DEF s2
<1>12. s3 \in Seq(X) /\ Reaches(s3, Amid(documents, n, 3), documents, most)
  <2>1. 3 \in 1..3 /\ 3 - 1 = 2
    OBVIOUS
  <2> QED
    BY <1>11, <2>1, PieceReaches DEF p
<1>13. s \o FlattenSeq(row) = s3
  BY <1>4, <1>8 DEF s1, s2
<1> QED
  BY <1>4, <1>7, <1>12, <1>13, AmidEnds DEF row

\* All the rounds.
LEMMA RoundsReach ==
  ASSUME NEW X, NEW documents \in Seq(Seq(X)), Len(documents) = 3, NEW limit \in Nat
  PROVE  /\ RoundRobin(documents, limit) \in Seq(X)
         /\ Reaches(RoundRobin(documents, limit), Capped(documents, limit), documents,
                    Capped(documents, limit))
<1> DEFINE rows == [n \in 1..limit |-> FlattenSeq(Row(documents, n))]
           most == Capped(documents, limit)
<1>1. RoundRobin(documents, limit) = FlattenSeq(rows)
  BY DEF RoundRobin, Row, Piece
<1>2. \A d \in 1..3 : documents[d] \in Seq(X) /\ Len(documents[d]) \in Nat
  <2>1. \A d \in 1..3 : documents[d] \in Seq(X)
    BY ElementOfSeq
  <2> QED
    BY <2>1, LenProperties
<1>3. Reaches(<<>>, Capped(documents, 0), documents, most)
  <2> DEFINE zero == [d \in 1..3 |-> 0]
             count == [n \in {0} |-> zero]
  <2>1. Capped(documents, 0) = zero
    <3>1. \A d \in 1..3 : 0 <= Len(documents[d])
      BY <1>2
    <3> QED
      BY <3>1 DEF Capped
  <2>2. zero \in [1..3 -> Nat] /\ Even(zero, most)
    BY DEF Even
  <2>3. 1..0 = {} /\ 0..0 = {0} /\ Len(<<>>) = 0
    OBVIOUS
  <2>4. count[0] = zero
    OBVIOUS
  <2> HIDE DEF count, most
  <2>5. Tour(count, <<>>, documents, most)
    <3> HIDE DEF zero
    <3>1. \A n \in 0..Len(<<>>) : count[n] \in [1..3 -> Nat] /\ Even(count[n], most)
      BY <2>2, <2>3, <2>4
    <3>2. \A n \in 1..Len(<<>>) : FALSE
      BY <2>3
    <3> QED
      BY <2>4, <3>1, <3>2 DEF Tour, zero
  <2> QED
    BY <2>1, <2>3, <2>4, <2>5 DEF Reaches
<1>4. \A n \in 1..limit : rows[n] = FlattenSeq(Row(documents, n))
  OBVIOUS
<1>5. \A n \in 1..limit : rows[n] \in Seq(X)
  <2> SUFFICES ASSUME NEW n \in 1..limit PROVE FlattenSeq(Row(documents, n)) \in Seq(X)
    BY <1>4
  <2>1. ASSUME NEW d \in 1..3 PROVE Piece(documents, n, d) \in Seq(X)
    <3>1. CASE n <= Len(documents[d])
      <4>1. n \in 1..Len(documents[d]) /\ documents[d] \in Seq(X)
        BY <1>2, <3>1
      <4>2. documents[d][n] \in X
        BY <4>1
      <4> QED
        BY <3>1, <4>2 DEF Piece
    <3>2. CASE ~ (n <= Len(documents[d]))
      BY <3>2, EmptySeq DEF Piece
    <3> QED
      BY <3>1, <3>2
  <2>2. Row(documents, n) \in Seq(Seq(X))
    BY <2>1 DEF Row
  <2> QED
    BY <2>2, FlattenedOverTheSame
<1>6. rows \in Seq(Seq(X)) /\ Len(rows) = limit
  <2>1. rows = [n \in 1..limit |-> rows[n]]
    OBVIOUS
  <2> HIDE DEF rows
  <2> QED
    BY <1>5, <2>1, SMTT(30)
<1> HIDE DEF rows, most
<1>7. PICK g : JoinsInTurn(g, rows) /\ \A i \in 0..limit : g[i] \in Seq(X)
  BY <1>6, FlattenedInTurn
<1>8. /\ g[0] = <<>> /\ FlattenSeq(rows) = g[limit]
      /\ \A i \in 1..limit : g[i] = g[i - 1] \o rows[i]
  BY <1>6, <1>7 DEF JoinsInTurn
<1> DEFINE S == {n \in 0..limit : Reaches(g[n], Capped(documents, n), documents, most)}
<1>9. 0 \in S
  BY <1>3, <1>8
<1>10. ASSUME NEW n \in 1..limit, n - 1 \in S PROVE n \in S
  <2>1. n \in 0..limit /\ g[n - 1] \in Seq(X)
    BY <1>7
  <2>2. Reaches(g[n - 1], Capped(documents, n - 1), documents, Capped(documents, limit))
    BY <1>10 DEF most
  <2>3. Reaches(g[n - 1] \o FlattenSeq(Row(documents, n)), Capped(documents, n), documents,
                Capped(documents, limit))
    BY <2>1, <2>2, RoundReaches
  <2> QED
    BY <1>4, <1>8, <2>1, <2>3 DEF most
<1> HIDE DEF S
<1>11. 0..limit \subseteq S
  BY <1>9, <1>10, UpTo
<1>12. limit \in S /\ g[limit] \in Seq(X)
  BY <1>7, <1>11
<1> QED
  BY <1>1, <1>8, <1>12 DEF S, most

\* As many anchors of the three documents as there are in all.
LEMMA TourCounts ==
  ASSUME NEW documents, NEW most, NEW s, Len(s) \in Nat, NEW count,
         Tour(count, s, documents, most), NEW n \in 0..Len(s)
  PROVE  count[n][1] + count[n][2] + count[n][3] = n
<1> DEFINE N == Len(s)
           S == {k \in 0..N : count[k][1] + count[k][2] + count[k][3] = k}
<1>1. 0 \in S
  <2>1. count[0][1] = 0 /\ count[0][2] = 0 /\ count[0][3] = 0
    BY DEF Tour
  <2> QED
    BY <2>1
<1>2. ASSUME NEW k \in 1..N, k - 1 \in S PROVE k \in S
  <2>1. k - 1 \in 0..N /\ k \in 0..N
    OBVIOUS
  <2>2. count[k - 1] \in [1..3 -> Nat]
    BY <2>1 DEF Tour
  <2>3. PICK d \in 1..3 : count[k] = [count[k - 1] EXCEPT ![d] = count[k - 1][d] + 1]
    BY DEF Tour
  <2>4. \A e \in 1..3 : count[k][e] = IF e = d THEN count[k - 1][e] + 1 ELSE count[k - 1][e]
    BY <2>2, <2>3
  <2>5. count[k - 1][1] + count[k - 1][2] + count[k - 1][3] = k - 1
    BY <1>2
  <2>6. d = 1 \/ d = 2 \/ d = 3
    OBVIOUS
  <2>7. \A e \in 1..3 : count[k - 1][e] \in Nat
    BY <2>2
  <2> DEFINE x(e) == count[k][e]
             y(e) == count[k - 1][e]
  <2>8. /\ x(1) = IF d = 1 THEN y(1) + 1 ELSE y(1)
        /\ x(2) = IF d = 2 THEN y(2) + 1 ELSE y(2)
        /\ x(3) = IF d = 3 THEN y(3) + 1 ELSE y(3)
        /\ y(1) \in Nat /\ y(2) \in Nat /\ y(3) \in Nat /\ y(1) + y(2) + y(3) = k - 1
    BY <2>4, <2>5, <2>7
  <2> HIDE DEF x, y
  <2>9. x(1) + x(2) + x(3) = k
    BY <2>6, <2>8, SMTT(30)
  <2> QED
    BY <2>1, <2>9 DEF x
<1> HIDE DEF S
<1>3. 0..N \subseteq S
  BY <1>1, <1>2, UpTo
<1> QED
  BY <1>3 DEF S

\* Documents whose anchors tell which they are of.
Marked(documents) ==
  \A d \in 1..3 : \A i \in 1..Len(documents[d]) : documents[d][i].id[1] = d

\* The first m of two sequences are the same.
Agree(selected, s, m) == \A i \in 1..m : selected[i] = s[i]

\* CountOf finds as many as there are.
LEMMA CountsAgree ==
  ASSUME NEW documents, NEW most, NEW s, NEW count, NEW selected,
         NEW m \in 0..Len(s), NEW n \in 0..m, NEW d \in 1..3,
         Marked(documents), Len(s) \in Nat, Tour(count, s, documents, most), Agree(selected, s, m)
  PROVE  CountOf(selected, n, d) = count[n][d]
<1> DEFINE N == Len(s)
           of(k) == {i \in 1..k : selected[i].id[1] = d}
           S == {k \in 0..m : IsFiniteSet(of(k)) /\ Cardinality(of(k)) = count[k][d]}
<1>1. 0 \in S
  <2>1. of(0) = {} /\ count[0][d] = 0
    BY DEF Tour
  <2> QED
    BY <2>1, FS_EmptySet
<1>2. ASSUME NEW k \in 1..m, k - 1 \in S PROVE k \in S
  <2>1. k - 1 \in 0..N /\ k \in 0..m /\ k \in 1..N
    OBVIOUS
  <2>2. count[k - 1] \in [1..3 -> Nat]
    BY <2>1 DEF Tour
  <2>3. PICK e \in 1..3 : /\ count[k] = [count[k - 1] EXCEPT ![e] = count[k - 1][e] + 1]
                          /\ count[k][e] \in 1..Len(documents[e])
                          /\ s[k] = documents[e][count[k][e]]
    BY <2>1 DEF Tour
  <2>4. selected[k].id[1] = e
    BY <2>3, SMTT(30) DEF Marked, Agree
  <2>5. count[k][d] = IF d = e THEN count[k - 1][d] + 1 ELSE count[k - 1][d]
    BY <2>2, <2>3
  <2>6. of(k) = IF d = e THEN of(k - 1) \cup {k} ELSE of(k - 1)
    <3>1. \A i : i \in 1..k <=> (i = k \/ i \in 1..k - 1)
      BY <2>1
    <3> QED
      BY <2>4, <3>1
  <2>7. k \notin of(k - 1)
    OBVIOUS
  <2>8. IsFiniteSet(of(k - 1)) /\ Cardinality(of(k - 1)) = count[k - 1][d]
    BY <1>2
  <2> DEFINE before == of(k - 1)
  <2> HIDE DEF of
  <2>9. /\ IsFiniteSet(before \cup {k})
        /\ Cardinality(before \cup {k}) = Cardinality(before) + 1
    <3> HIDE DEF before
    <3>1. IsFiniteSet(before) /\ k \notin before
      BY <2>7, <2>8 DEF before
    <3> QED
      BY <3>1, FS_AddElement
  <2>10. IsFiniteSet(of(k)) /\ Cardinality(of(k)) = count[k][d]
    BY <2>5, <2>6, <2>8, <2>9
  <2> QED
    BY <2>1, <2>10
<1> HIDE DEF S
<1>3. m \in Nat
  OBVIOUS
<1>4. 0..m \subseteq S
  BY <1>1, <1>2, <1>3, UpTo
<1> QED
  BY <1>4 DEF S, CountOf

\* The smaller of two numbers is one of them.
LEMMA MinIs ==
  ASSUME NEW a \in Nat, NEW b \in Nat
  PROVE  Min({a, b}) = IF a <= b THEN a ELSE b
<1> DEFINE c == IF a <= b THEN a ELSE b
<1>1. c \in {a, b} /\ \A y \in {a, b} : c =< y
  OBVIOUS
<1>2. \A x \in {a, b} : (\A y \in {a, b} : x =< y) => x = c
  OBVIOUS
<1> HIDE DEF c
<1>3. Min({a, b}) = c
  BY <1>1, <1>2 DEF Min
<1> QED
  BY <1>3 DEF c

\* What SelectionIsFair says of three documents, of which most[d] anchors are wanted.
FairSelection(selected, documents, most, maxAnchors) ==
  LET all == Len(selected)
  IN  /\ all = Min({maxAnchors, most[1] + most[2] + most[3]})
      /\ \A n \in 1..all : \E d \in 1..3 :
           /\ CountOf(selected, n, d) \in DOMAIN documents[d]
           /\ selected[n] = documents[d][CountOf(selected, n, d)]
      /\ \A d \in 1..3 :
           \/ CountOf(selected, all, d) = most[d]
           \/ \A e \in 1..3 : CountOf(selected, all, e) <= CountOf(selected, all, d) + 1

\* A beginning of a tour is a fair selection.
LEMMA PrefixIsFair ==
  ASSUME NEW X, NEW documents \in Seq(Seq(X)), Len(documents) = 3, Marked(documents),
         NEW s \in Seq(X), NEW most, NEW count, Tour(count, s, documents, most),
         count[Len(s)] = most, NEW maxAnchors \in Nat,
         NEW m, m = Min({maxAnchors, Len(s)}), NEW selected, selected = SubSeq(s, 1, m)
  PROVE  FairSelection(selected, documents, most, maxAnchors)
<1>1. Len(s) \in Nat /\ \A i \in 1..Len(s) : s[i] \in X
  OBVIOUS
<1>2. most[1] + most[2] + most[3] = Len(s)
  <2>1. Len(s) \in 0..Len(s)
    BY <1>1
  <2>2. count[Len(s)][1] + count[Len(s)][2] + count[Len(s)][3] = Len(s)
    BY <1>1, <2>1, TourCounts
  <2> QED
    BY <2>2
<1>3. m \in 0..Len(s)
  BY <1>1, MinOfTwo
<1>4. Len(selected) = m /\ Agree(selected, s, m)
  <2>1. \A i \in 1..m : s[i] \in X
    BY <1>1, <1>3
  <2>2. /\ Len(SubSeq(s, 1, m)) = IF 1 <= m THEN m - 1 + 1 ELSE 0
        /\ \A i \in 1..m - 1 + 1 : SubSeq(s, 1, m)[i] = s[1 + i - 1]
    <3>1. 1 \in Int /\ m \in Int
      BY <1>1, <1>3
    <3> QED
      BY <2>1, <3>1, SubSeqProperties
  <2>3. m \in Nat /\ m - 1 + 1 = m /\ \A i \in 1..m : 1 + i - 1 = i
    BY <1>1, <1>3
  <2>4. Len(SubSeq(s, 1, m)) = m
    BY <2>2, <2>3
  <2>5. \A i \in 1..m : SubSeq(s, 1, m)[i] = s[i]
    BY <2>2, <2>3
  <2> QED
    BY <2>4, <2>5 DEF Agree
<1>5. \A n \in 0..m, d \in 1..3 : CountOf(selected, n, d) = count[n][d]
  BY <1>1, <1>3, <1>4, CountsAgree
<1>6. \A d \in 1..3 : DOMAIN documents[d] = 1..Len(documents[d])
  <2>1. \A d \in 1..3 : documents[d] \in Seq(X)
    BY ElementOfSeq
  <2> QED
    BY <2>1, LenProperties
<1>7. ASSUME NEW n \in 1..m
      PROVE  \E d \in 1..3 : /\ CountOf(selected, n, d) \in DOMAIN documents[d]
                             /\ selected[n] = documents[d][CountOf(selected, n, d)]
  <2>1. n \in 0..m /\ n \in 1..Len(s)
    BY <1>1, <1>3
  <2>2. PICK d \in 1..3 : /\ count[n][d] \in 1..Len(documents[d])
                          /\ s[n] = documents[d][count[n][d]]
    BY <2>1 DEF Tour
  <2> QED
    BY <1>4, <1>5, <1>6, <2>1, <2>2 DEF Agree
<1>8. ASSUME NEW d \in 1..3
      PROVE  \/ CountOf(selected, m, d) = most[d]
             \/ \A e \in 1..3 : CountOf(selected, m, e) <= CountOf(selected, m, d) + 1
  <2>1. m \in 0..m /\ m \in 0..Len(s)
    BY <1>1, <1>3
  <2>2. Even(count[m], most)
    BY <2>1 DEF Tour
  <2> QED
    BY <1>5, <2>1, <2>2 DEF Even
<1> QED
  BY <1>2, <1>4, <1>7, <1>8 DEF FairSelection

\* What is selected of any three documents.
LEMMA SelectedFairly ==
  ASSUME NEW X, NEW documents \in Seq(Seq(X)), Len(documents) = 3, Marked(documents),
         NEW maxAnchors \in Nat, NEW limit \in Nat,
         NEW all, all = RoundRobin(documents, limit)
  PROVE  FairSelection(SubSeq(all, 1, Min({maxAnchors, Len(all)})), documents,
                       Capped(documents, limit), maxAnchors)
<1>1. /\ all \in Seq(X)
      /\ Reaches(all, Capped(documents, limit), documents, Capped(documents, limit))
  BY RoundsReach
<1>2. PICK count : /\ Tour(count, all, documents, Capped(documents, limit))
                   /\ count[Len(all)] = Capped(documents, limit)
  BY <1>1 DEF Reaches
<1> QED
  BY <1>1, <1>2, PrefixIsFair

\* So it is of the documents that are tried.
LEMMA SelectionOfAll == SelectionIsFair
<1> SUFFICES ASSUME NEW d1 \in Lengths(1), NEW d2 \in Lengths(2), NEW d3 \in Lengths(3),
                    NEW maxAnchors \in 1..(2 * MaxDocument), NEW perDocument \in 0..MaxDocument
             PROVE  LET documents == <<d1, d2, d3>>
                        selected == _select_report_anchors(documents, maxAnchors, perDocument)
                        most(d) == IF perDocument = 0 THEN Len(documents[d])
                                   ELSE Min({perDocument, Len(documents[d])})
                        all == Len(selected)
                    IN  /\ all = Min({maxAnchors, most(1) + most(2) + most(3)})
                        /\ \A n \in 1..all : \E d \in 1..3 :
                             /\ CountOf(selected, n, d) \in DOMAIN documents[d]
                             /\ selected[n] = documents[d][CountOf(selected, n, d)]
                        /\ \A d \in 1..3 :
                             \/ CountOf(selected, all, d) = most(d)
                             \/ \A e \in 1..3 : CountOf(selected, all, e) <= CountOf(selected, all, d) + 1
  BY DEF SelectionIsFair
<1> DEFINE documents == <<d1, d2, d3>>
           X == [id : (1..3) \X Nat, size : {1}]
           limit == IF perDocument = 0 THEN LongestOf(documents) ELSE perDocument
           selected == _select_report_anchors(documents, maxAnchors, perDocument)
           most(d) == IF perDocument = 0 THEN Len(documents[d])
                      ELSE Min({perDocument, Len(documents[d])})
<1>1. MaxDocument \in Nat
  BY AssemblyAssumption DEF AssemblyAssumption
<1>2. maxAnchors \in Nat /\ perDocument \in Nat
  BY <1>1
<1>3. \A d \in 1..3 : \A document \in Lengths(d) :
        document \in Seq(X) /\ \A i \in 1..Len(document) : document[i].id[1] = d
  <2> SUFFICES ASSUME NEW d \in 1..3, NEW document \in Lengths(d)
               PROVE  document \in Seq(X) /\ \A i \in 1..Len(document) : document[i].id[1] = d
    OBVIOUS
  <2>1. PICK n \in 0..MaxDocument : document = [i \in 1..n |-> [id |-> <<d, i>>, size |-> 1]]
    BY DEF Lengths
  <2>2. n \in Nat
    BY <1>1
  <2>3. \A i \in 1..n : [id |-> <<d, i>>, size |-> 1] \in X
    BY <2>2
  <2> HIDE DEF X
  <2>4. document \in Seq(X) /\ Len(document) = n
    BY <2>1, <2>2, <2>3
  <2>5. \A i \in 1..n : document[i].id = <<d, i>>
    BY <2>1
  <2> QED
    BY <2>4, <2>5
<1> HIDE DEF X
<1>4. /\ documents \in Seq(Seq(X)) /\ Len(documents) = 3
      /\ documents[1] = d1 /\ documents[2] = d2 /\ documents[3] = d3
  <2>1. d1 \in Seq(X) /\ d2 \in Seq(X) /\ d3 \in Seq(X)
    BY <1>3
  <2> QED
    BY <2>1
<1> HIDE DEF documents
<1>5. \A d \in 1..3 : documents[d] \in Lengths(d)
  <2>1. \A d \in 1..3 : d = 1 \/ d = 2 \/ d = 3
    OBVIOUS
  <2> QED
    BY <1>4, <2>1
<1>6. Marked(documents)
  BY <1>3, <1>5 DEF Marked
<1>7. \A d \in 1..3 : Len(documents[d]) \in Nat
  <2>1. \A d \in 1..3 : documents[d] \in Seq(X)
    BY <1>3, <1>5
  <2> QED
    BY <2>1, LenProperties
<1>8. /\ LongestOf(documents) \in Nat
      /\ \A d \in 1..3 : Len(documents[d]) <= LongestOf(documents)
  BY <1>4, LongestIsNatural
<1>9. limit \in Nat
  BY <1>2, <1>8
<1>10. \A d \in 1..3 : Capped(documents, limit)[d] = most(d)
  <2> SUFFICES ASSUME NEW d \in 1..3 PROVE Capped(documents, limit)[d] = most(d)
    OBVIOUS
  <2> DEFINE l == Len(documents[d])
  <2>1. Capped(documents, limit)[d] = IF limit <= l THEN limit ELSE l
    BY DEF Capped
  <2>2. l \in Nat /\ l <= LongestOf(documents)
    BY <1>7, <1>8
  <2>3. CASE perDocument = 0
    <3>1. most(d) = l /\ limit = LongestOf(documents)
      BY <2>3
    <3> HIDE DEF limit, l, most
    <3> QED
      BY <1>9, <2>1, <2>2, <3>1
  <2>4. CASE perDocument # 0
    <3>1. most(d) = Min({perDocument, l}) /\ limit = perDocument
      BY <2>4
    <3> HIDE DEF limit, l, most
    <3> QED
      BY <1>2, <2>1, <2>2, <3>1, MinIs
  <2> QED
    BY <2>3, <2>4
<1> DEFINE capped == Capped(documents, limit)
           N == Len(selected)
           s == RoundRobin(documents, limit)
<1>11. selected = SubSeq(s, 1, Min({maxAnchors, Len(s)}))
  BY DEF _select_report_anchors
<1> HIDE DEF limit, selected, most
<1>12. FairSelection(selected, documents, capped, maxAnchors)
  <2>1. s = RoundRobin(documents, limit)
    OBVIOUS
  <2> HIDE DEF s
  <2>2. FairSelection(SubSeq(s, 1, Min({maxAnchors, Len(s)})), documents, capped, maxAnchors)
    BY <1>2, <1>4, <1>6, <1>9, <2>1, SelectedFairly
  <2> QED
    BY <1>11, <2>2
<1>13. /\ N = Min({maxAnchors, capped[1] + capped[2] + capped[3]})
       /\ \A n \in 1..N : \E d \in 1..3 :
            /\ CountOf(selected, n, d) \in DOMAIN documents[d]
            /\ selected[n] = documents[d][CountOf(selected, n, d)]
       /\ \A d \in 1..3 :
            \/ CountOf(selected, N, d) = capped[d]
            \/ \A e \in 1..3 : CountOf(selected, N, e) <= CountOf(selected, N, d) + 1
  BY <1>12 DEF FairSelection
<1>14. capped[1] = most(1) /\ capped[2] = most(2) /\ capped[3] = most(3)
  BY <1>10
<1> HIDE DEF capped, N
<1>15. N = Min({maxAnchors, most(1) + most(2) + most(3)})
  BY <1>13, <1>14
<1>16. \A d \in 1..3 :
         \/ CountOf(selected, N, d) = most(d)
         \/ \A e \in 1..3 : CountOf(selected, N, e) <= CountOf(selected, N, d) + 1
  BY <1>10, <1>13 DEF capped
<1> QED
  BY <1>13, <1>15, <1>16 DEF documents, selected, most, N

-------------------------------------------------------------------------------
(* Reports and suggestions *)

\* A bounded set of naturals that is not empty has a largest member.
LEMMA LargestNatural ==
  ASSUME NEW bound \in Nat, NEW S \in SUBSET (0 .. bound), S # {}
  PROVE  \E n \in S : \A other \in S : other <= n
<1> DEFINE Distance == {d \in Nat : bound - d \in S}
<1>1. \A n \in S : bound - n \in Nat /\ bound - (bound - n) = n
  OBVIOUS
<1>2. Distance # {}
  BY <1>1
<1> HIDE DEF Distance
<1>3. Distance \subseteq Nat
  BY DEF Distance
<1>4. PICK d \in Distance : \A other \in Distance : d <= other
  BY <1>2, <1>3, LeastNatural
<1>5. bound - d \in S
  BY DEF Distance
<1>6. \A other \in S : other <= bound - d
  BY <1>1, <1>4 DEF Distance
<1> QED
  BY <1>5, <1>6

\* load_report_identity finds a complete report whenever there is one.
LEMMA ReportIsComplete ==
  ASSUME complete \subseteq Epoch, complete # {}
  PROVE  Report \in Epoch
<1>1. MaxEpoch \in Nat /\ complete \in SUBSET (0 .. MaxEpoch)
  BY SuggestionsAssumption DEF SuggestionsAssumption, Epoch
<1>2. \E e \in complete : \A other \in complete : other <= e
  BY <1>1, LargestNatural
<1> QED
  BY <1>2 DEF Report

\* The parts of the invariant that are not the queue's.
RowsInv ==
  DomainTyped /\ IdsTellWriters /\ OneWriter /\ AnchorsBelongToReport /\ RequestsCiteReports

\* A step that writes none of the rows and lets no job succeed, but for which the
\* session, the reports and the members may change.
LEMMA RowsUntouched ==
  ASSUME RowsInv,
         UNCHANGED <<results, drafts, suggestions, agent>>,
         complete' \subseteq Epoch,
         session' \in [state : {"open", "processing", "ready", "needs_attention"}, epoch : Epoch],
         members' \subseteq Member,
         \A k \in Epoch : jobs'[k].state = "succeeded" => jobs[k].state = "succeeded"
  PROVE  RowsInv'
<1>1. DomainTyped' /\ IdsTellWriters'
  BY DEF RowsInv, DomainTyped, IdsTellWriters, IsSuggestion
<1>2. OneWriter'
  BY DEF RowsInv, OneWriter, Automatic
<1>3. AnchorsBelongToReport' /\ RequestsCiteReports'
  BY DEF RowsInv, AnchorsBelongToReport, RequestsCiteReports
<1> QED
  BY <1>1, <1>2, <1>3 DEF RowsInv

\* A step of an edit request that keeps what it has in hand typed and cited.
LEMMA RequestsOnly ==
  ASSUME RowsInv, NEW m \in Editor, NEW held \in Request \cup {Idle},
         held # Idle =>
           \A i \in DOMAIN held.made :
             held.made[i].anchor # NoAnchor => held.made[i].anchor \in Pinned[held.made[i].report],
         agent' = [agent EXCEPT ![m] = held],
         UNCHANGED <<jobs, results, complete, session, drafts, suggestions, members>>
  PROVE  RowsInv'
<1>1. agent \in [Editor -> Request \cup {Idle}]
  BY DEF RowsInv, DomainTyped
<1>2. DomainTyped' /\ IdsTellWriters'
  BY <1>1 DEF RowsInv, DomainTyped, IdsTellWriters, IsSuggestion
<1>3. OneWriter' /\ AnchorsBelongToReport'
  BY DEF RowsInv, OneWriter, Automatic, AnchorsBelongToReport
<1>4. RequestsCiteReports'
  <2>1. ASSUME NEW k \in Editor PROVE agent'[k] = IF k = m THEN held ELSE agent[k]
    BY <1>1
  <2> QED
    BY <2>1 DEF RowsInv, RequestsCiteReports
<1> QED
  BY <1>2, <1>3, <1>4 DEF RowsInv

\* What members write is nobody's execution, whatever report it is about.
LEMMA MembersWrite ==
  ASSUME RowsInv, NEW new,
         \A s \in new :
           /\ IsSuggestion(s)
           /\ s.by = 0
           /\ s.id[1] = 0
           /\ s.anchor # NoAnchor => s.anchor \in Pinned[s.report],
         suggestions' = suggestions \cup new,
         UNCHANGED <<jobs, results, complete, session, drafts, members>>,
         agent' \in [Editor -> Request \cup {Idle}],
         RequestsCiteReports'
  PROVE  RowsInv'
<1>1. \A s \in suggestions' : s \in suggestions \/ s \in new
  OBVIOUS
<1>2. DomainTyped'
  BY <1>1 DEF RowsInv, DomainTyped, IsSuggestion
<1>3. IdsTellWriters'
  BY <1>1 DEF RowsInv, IdsTellWriters
<1>4. \A e \in Epoch : Automatic(e)' = Automatic(e)
  BY DEF Automatic
<1>5. OneWriter'
  BY <1>4 DEF RowsInv, OneWriter
<1>6. AnchorsBelongToReport'
  BY <1>1 DEF RowsInv, AnchorsBelongToReport
<1> QED
  BY <1>2, <1>3, <1>5, <1>6 DEF RowsInv

\* A suggestion keeps everything but its status when the host decides it.
LEMMA ResolveKeepsRows ==
  ASSUME RowsInv, NEW s \in suggestions, NEW decision \in {"accepted", "rejected"},
         resolve(s, decision)
  PROVE  RowsInv'
<1> DEFINE t == [s EXCEPT !.status = decision]
<1>1. IsSuggestion(s)
  BY DEF RowsInv, DomainTyped
<1>2. /\ t.id = s.id /\ t.report = s.report /\ t.anchor = s.anchor /\ t.by = s.by
      /\ IsSuggestion(t)
  BY <1>1 DEF IsSuggestion
<1>3. /\ suggestions' = (suggestions \ {s}) \cup {t}
      /\ UNCHANGED <<jobs, results, complete, session, drafts, members, agent>>
  BY DEF resolve, queue
<1> HIDE DEF t
<1>4. \A u \in suggestions' : u \in suggestions \/ u = t
  BY <1>3
<1>5. DomainTyped'
  BY <1>2, <1>3, <1>4 DEF RowsInv, DomainTyped, IsSuggestion
<1>6. IdsTellWriters' /\ AnchorsBelongToReport' /\ RequestsCiteReports'
  BY <1>2, <1>3, <1>4 DEF RowsInv, IdsTellWriters, AnchorsBelongToReport, RequestsCiteReports
<1>7. OneWriter'
  <2> SUFFICES ASSUME NEW e \in Epoch
               PROVE  /\ \A u \in Automatic(e)' : u.by = results[e]
                      /\ Automatic(e) # {} => Automatic(e)' # {}
    BY <1>3 DEF RowsInv, OneWriter
  <2>1. \A u \in Automatic(e)' : u.by = results[e]
    BY <1>2, <1>4 DEF RowsInv, OneWriter, Automatic
  <2>2. ASSUME NEW u \in Automatic(e) PROVE Automatic(e)' # {}
    <3>1. CASE u = s
      BY <1>2, <1>3, <2>2, <3>1 DEF Automatic
    <3>2. CASE u # s
      BY <1>3, <2>2, <3>2 DEF Automatic
    <3> QED
      BY <3>1, <3>2
  <2> QED
    BY <2>1, <2>2
<1> QED
  BY <1>5, <1>6, <1>7 DEF RowsInv

\* A member's first save makes the row only where there is none.
LEMMA SaveKeepsRows ==
  ASSUME RowsInv, NEW m \in Member, Save(m)
  PROVE  RowsInv'
<1>1. Report \in Epoch
  BY ReportIsComplete DEF Save, RowsInv, DomainTyped
<1>2. /\ drafts' = [drafts EXCEPT ![Report] = MembersRow]
      /\ drafts[Report] = NoRow
      /\ UNCHANGED <<jobs, results, complete, session, suggestions, members, agent>>
  BY DEF Save, queue
<1>3. drafts \in [Epoch -> [by : {"nobody", "member", "worker"}, generation : Nat]]
  BY DEF RowsInv, DomainTyped
<1>4. MembersRow # NoRow /\ MembersRow \in [by : {"nobody", "member", "worker"}, generation : Nat]
  BY DEF MembersRow, NoRow
<1> DEFINE r == Report
<1> HIDE DEF r
<1>5. \A e \in Epoch : drafts'[e] = IF e = r THEN MembersRow ELSE drafts[e]
  BY <1>1, <1>2, <1>3 DEF r
<1>6. DomainTyped'
  <2>1. drafts' \in [Epoch -> [by : {"nobody", "member", "worker"}, generation : Nat]]
    BY <1>1, <1>2, <1>3, <1>4
  <2> QED
    BY <1>2, <2>1 DEF RowsInv, DomainTyped, IsSuggestion
<1>7. OneWriter'
  BY <1>2, <1>4, <1>5 DEF RowsInv, OneWriter, Automatic
<1>8. IdsTellWriters' /\ AnchorsBelongToReport' /\ RequestsCiteReports'
  BY <1>2 DEF RowsInv, IdsTellWriters, AnchorsBelongToReport, RequestsCiteReports
<1> QED
  BY <1>6, <1>7, <1>8 DEF RowsInv

\* create checks its anchor against the report it stamps the suggestion with.
LEMMA CreateKeepsRows ==
  ASSUME RowsInv, NEW m \in Member, NEW anchor \in Anchor \cup {NoAnchor}, create(m, anchor)
  PROVE  RowsInv'
<1> DEFINE s == Suggestion(<<0, NextId>>, Report, anchor, 0)
           new == {s}
<1>1. Report \in Epoch /\ (anchor = NoAnchor \/ anchor \in Pinned[Report])
  BY ReportIsComplete DEF create, Creatable, RowsInv, DomainTyped
<1>2. IsSuggestion(s) /\ s.by = 0 /\ s.id[1] = 0 /\ s.report = Report /\ s.anchor = anchor
  BY <1>1 DEF Suggestion, IsSuggestion
<1>3. /\ suggestions' = suggestions \cup new
      /\ UNCHANGED <<jobs, results, complete, session, drafts, members, agent>>
  BY DEF create, queue
<1>4. /\ agent' \in [Editor -> Request \cup {Idle}]
      /\ RequestsCiteReports'
  BY <1>3 DEF RowsInv, DomainTyped, RequestsCiteReports
<1>5. \A u \in new : /\ IsSuggestion(u)
                     /\ u.by = 0
                     /\ u.id[1] = 0
                     /\ u.anchor # NoAnchor => u.anchor \in Pinned[u.report]
  <2> HIDE DEF s
  <2> QED
    BY <1>1, <1>2
<1> HIDE DEF new
<1> QED
  BY <1>3, <1>4, <1>5, MembersWrite

\* What an edit request commits was checked when it was proposed.
LEMMA CommitEditKeepsRows ==
  ASSUME RowsInv, NEW m \in Editor, CommitEdit(m)
  PROVE  RowsInv'
<1> DEFINE made == agent[m].made
           row(i) == Suggestion(<<0, NextId + i - 1>>, made[i].report, made[i].anchor, 0)
           new == {row(i) : i \in DOMAIN made}
<1>1. agent \in [Editor -> Request \cup {Idle}]
  BY DEF RowsInv, DomainTyped
<1>2. agent[m] # Idle /\ agent[m] \in Request
  BY <1>1 DEF CommitEdit, Idle
<1>3. made \in Seq([report : Epoch, anchor : Anchor])
  BY <1>2 DEF Request
<1>4. \A i \in DOMAIN made : made[i].anchor # NoAnchor => made[i].anchor \in Pinned[made[i].report]
  BY <1>2 DEF RowsInv, RequestsCiteReports
<1>5. /\ suggestions' = suggestions \cup new
      /\ agent' = [agent EXCEPT ![m] = Idle]
      /\ UNCHANGED <<jobs, results, complete, session, drafts, members>>
  BY DEF CommitEdit, queue
<1>6. ASSUME NEW i \in DOMAIN made
      PROVE  /\ IsSuggestion(row(i))
             /\ row(i).by = 0
             /\ row(i).id[1] = 0
             /\ row(i).anchor # NoAnchor => row(i).anchor \in Pinned[row(i).report]
  <2> DEFINE entries == [report : Epoch, anchor : Anchor]
  <2>1. made \in Seq(entries)
    BY <1>3
  <2> HIDE DEF made, entries
  <2>2. made[i] \in entries
    <3>1. DOMAIN made = 1..Len(made) /\ \A k \in 1..Len(made) : made[k] \in entries
      BY <2>1
    <3> QED
      BY <3>1
  <2>3. made[i].report \in Epoch /\ made[i].anchor \in Anchor
    BY <2>2 DEF entries
  <2> QED
    BY <1>4, <2>3 DEF Suggestion, IsSuggestion
<1>7. \A u \in new : /\ IsSuggestion(u)
                     /\ u.by = 0
                     /\ u.id[1] = 0
                     /\ u.anchor # NoAnchor => u.anchor \in Pinned[u.report]
  <2> HIDE DEF row
  <2> QED
    BY <1>6
<1>8. agent' \in [Editor -> Request \cup {Idle}] /\ RequestsCiteReports'
  BY <1>1, <1>5 DEF RowsInv, RequestsCiteReports
<1> HIDE DEF new
<1> QED
  BY <1>5, <1>7, <1>8, MembersWrite

\* An edit request begins with nothing in hand, and each proposal is checked against
\* the report of the moment.
LEMMA EditingKeepsRows ==
  ASSUME RowsInv, NEW m \in Editor,
         StartEdit(m) \/ AbandonEdit(m) \/ \E anchor \in Anchor : Propose(m, anchor)
  PROVE  RowsInv'
<1>1. agent \in [Editor -> Request \cup {Idle}]
  BY DEF RowsInv, DomainTyped
<1>2. CASE StartEdit(m)
  <2> DEFINE held == [phase |-> "asking", basis |-> Report, made |-> <<>>]
  <2>1. Report \in Epoch
    BY <1>2, ReportIsComplete DEF StartEdit, RowsInv, DomainTyped
  <2>2. held \in Request /\ DOMAIN held.made = {}
    BY <2>1 DEF Request
  <2>3. /\ agent' = [agent EXCEPT ![m] = held]
        /\ UNCHANGED <<jobs, results, complete, session, drafts, suggestions, members>>
    BY <1>2 DEF StartEdit, queue
  <2> HIDE DEF held
  <2> QED
    BY <2>2, <2>3, RequestsOnly
<1>3. CASE AbandonEdit(m)
  <2>1. /\ agent' = [agent EXCEPT ![m] = Idle]
        /\ UNCHANGED <<jobs, results, complete, session, drafts, suggestions, members>>
    BY <1>3 DEF AbandonEdit, queue
  <2> QED
    BY <2>1, RequestsOnly
<1>4. ASSUME NEW anchor \in Anchor, Propose(m, anchor) PROVE RowsInv'
  <2>1. UNCHANGED <<jobs, results, complete, session, drafts, suggestions, members>>
    BY <1>4 DEF Propose, queue
  <2>2. agent[m] \in Request /\ agent[m] # Idle
    BY <1>1, <1>4 DEF Propose, Idle
  <2>3. CASE ~ Creatable(m, anchor)
    <3>1. agent' = [agent EXCEPT ![m] = Idle]
      BY <1>4, <2>3 DEF Propose
    <3> QED
      BY <2>1, <3>1, RequestsOnly
  <2>4. CASE Creatable(m, anchor)
    <3> DEFINE entry == [report |-> Report, anchor |-> anchor]
               made == agent[m].made
               longer == Append(made, entry)
               held == [phase |-> "writing", basis |-> agent[m].basis, made |-> longer]
    <3>1. Report \in Epoch /\ (anchor # NoAnchor => anchor \in Pinned[Report])
      BY <2>4, ReportIsComplete DEF Creatable, RowsInv, DomainTyped
    <3>2. agent' = [agent EXCEPT ![m] = held]
      BY <1>4, <2>4 DEF Propose
    <3>3. made \in Seq([report : Epoch, anchor : Anchor]) /\ agent[m].basis \in Epoch
      BY <2>2 DEF Request
    <3>4. entry \in [report : Epoch, anchor : Anchor]
      BY <3>1
    <3>5. \A i \in DOMAIN made : made[i].anchor # NoAnchor => made[i].anchor \in Pinned[made[i].report]
      BY <2>2 DEF RowsInv, RequestsCiteReports
    <3>6. entry.anchor # NoAnchor => entry.anchor \in Pinned[entry.report]
      BY <3>1
    <3> HIDE DEF entry, made
    <3>7. /\ longer \in Seq([report : Epoch, anchor : Anchor])
          /\ \A i \in DOMAIN longer : longer[i] = entry \/ (i \in DOMAIN made /\ longer[i] = made[i])
      BY <3>3, <3>4
    <3>8. \A i \in DOMAIN longer :
            longer[i].anchor # NoAnchor => longer[i].anchor \in Pinned[longer[i].report]
      BY <3>5, <3>6, <3>7
    <3> HIDE DEF longer
    <3>9. held \in Request /\ held.made = longer
      BY <3>3, <3>7 DEF Request
    <3> HIDE DEF held
    <3> QED
      BY <2>1, <3>2, <3>8, <3>9, RequestsOnly
  <2> QED
    BY <2>3, <2>4
<1> QED
  BY <1>2, <1>3, <1>4

\* The effects of a success: its report had no worker's row and no worker's suggestion.
LEMMA SucceedKeepsRows ==
  ASSUME P!IInv, RowsInv, NEW w \in Worker, NEW cited \in SUBSET Anchor, Succeed(w, cited)
  PROVE  P!IInv' /\ RowsInv'
<1> DEFINE e == worker[w].job
           g == worker[w].lease_generation
           new == NewProposals(e, g, cited)
<1>1. "succeeded" \in P!CompletionState /\ Queue!Complete(w, "succeeded")
  BY DEF Succeed, P!CompletionState
<1>2. /\ P!IInv'
      /\ e \in Epoch
      /\ g \in Nat \ {0}
      /\ results[e] = 0
      /\ \A k \in Epoch : jobs'[k].state = IF k = e THEN "succeeded" ELSE jobs[k].state
      /\ \A k \in Epoch : results'[k] = IF k = e THEN g ELSE results[k]
  BY <1>1, CompleteKeepsQueue
<1>3. /\ cited # {} /\ cited \subseteq Shown[e]
      /\ drafts' = [drafts EXCEPT ![e] = IF drafts[e] = NoRow THEN Draft(g) ELSE drafts[e]]
      /\ suggestions' = suggestions \cup new
      /\ UNCHANGED <<complete, session, members, agent>>
  BY DEF Succeed, Grounded, Publish
<1>4. Automatic(e) = {}
  BY <1>2 DEF RowsInv, OneWriter, Automatic
<1>5. ASSUME NEW a \in cited, NEW s \in suggestions PROVE s.id # <<e, a>>
  <2>1. e # 0 /\ s.id[1] \in {0, s.report}
    BY <1>2 DEF Epoch, RowsInv, IdsTellWriters
  <2>2. s.by # 0 => s.id[1] = s.report /\ s.report # e
    BY <1>4, <1>5 DEF RowsInv, IdsTellWriters, Automatic
  <2>3. s.by = 0 => s.id[1] = 0
    BY <1>5 DEF RowsInv, IdsTellWriters
  <2> QED
    BY <2>1, <2>2, <2>3
<1>6. new = {Suggestion(<<e, a>>, e, a, g) : a \in cited}
  <2>1. {a \in cited : \A s \in suggestions : s.id # <<e, a>>} = cited
    BY <1>5
  <2> QED
    BY <2>1 DEF NewProposals
<1>7. cited \subseteq Pinned[e]
  BY <1>2, <1>3, ShownIsPinned
<1> HIDE DEF e, g, new
<1>8. \A s \in new : /\ IsSuggestion(s)
                     /\ s.report = e
                     /\ s.by = g
                     /\ s.id[1] = e
                     /\ s.anchor \in Pinned[s.report]
  <2> DEFINE row(a) == Suggestion(<<e, a>>, e, a, g)
  <2>1. ASSUME NEW a \in cited
        PROVE  /\ IsSuggestion(row(a))
               /\ row(a).report = e
               /\ row(a).by = g
               /\ row(a).id[1] = e
               /\ row(a).anchor = a
    BY <1>2, <2>1 DEF Suggestion, IsSuggestion
  <2>2. new = {row(a) : a \in cited}
    BY <1>6
  <2> HIDE DEF row
  <2> QED
    BY <1>7, <2>1, <2>2
<1>9. new # {}
  BY <1>3, <1>6
<1>10. drafts \in [Epoch -> [by : {"nobody", "member", "worker"}, generation : Nat]]
  BY DEF RowsInv, DomainTyped
<1>11. /\ Draft(g) # NoRow
       /\ Draft(g) \in [by : {"nobody", "member", "worker"}, generation : Nat]
  BY <1>2 DEF Draft, NoRow
<1>12. \A k \in Epoch : drafts'[k] = IF k = e /\ drafts[e] = NoRow THEN Draft(g) ELSE drafts[k]
  BY <1>3, <1>10
<1>13. DomainTyped'
  <2>1. drafts' \in [Epoch -> [by : {"nobody", "member", "worker"}, generation : Nat]]
    BY <1>2, <1>3, <1>10, <1>11
  <2> QED
    BY <1>3, <1>8, <2>1 DEF RowsInv, DomainTyped, IsSuggestion
<1>14. IdsTellWriters'
  BY <1>2, <1>3, <1>8 DEF RowsInv, IdsTellWriters
<1>15. AnchorsBelongToReport' /\ RequestsCiteReports'
  BY <1>3, <1>8 DEF RowsInv, AnchorsBelongToReport, RequestsCiteReports
<1>16. OneWriter'
  <2> SUFFICES ASSUME NEW k \in Epoch
               PROVE  /\ \A s \in Automatic(k)' : s.by = results'[k]
                      /\ \/ drafts'[k] \in {NoRow, MembersRow}
                         \/ results'[k] # 0 /\ drafts'[k] = Draft(results'[k])
                      /\ jobs'[k].state = "succeeded" => Automatic(k)' # {} /\ drafts'[k] # NoRow
    BY DEF OneWriter
  <2>1. CASE k = e
    <3>1. Automatic(k)' = new
      BY <1>2, <1>3, <1>4, <1>8, <2>1 DEF Automatic
    <3>2. drafts[e] \in {NoRow, MembersRow}
      BY <1>2 DEF RowsInv, OneWriter
    <3>3. MembersRow # NoRow
      BY DEF MembersRow, NoRow
    <3> QED
      BY <1>2, <1>8, <1>9, <1>11, <1>12, <2>1, <3>1, <3>2, <3>3
  <2>2. CASE k # e
    <3>1. Automatic(k)' = Automatic(k)
      BY <1>3, <1>8, <2>2 DEF Automatic
    <3> QED
      BY <1>2, <1>12, <2>2, <3>1 DEF RowsInv, OneWriter
  <2> QED
    BY <2>1, <2>2
<1> QED
  BY <1>2, <1>13, <1>14, <1>15, <1>16 DEF RowsInv

-------------------------------------------------------------------------------
(* The specification *)

\* What the code starts from.
LEMMA InitIsSound == Init => IInv
<1> SUFFICES ASSUME Init PROVE IInv
  OBVIOUS
<1>1. P!IInv
  BY SameInit, QueueAssumed, P!InitIInv DEF Init
<1>2. 1 \in Epoch
  BY SuggestionsAssumption DEF SuggestionsAssumption, Epoch
<1>3. DomainTyped
  BY <1>2 DEF Init, DomainTyped, NoRow
<1>4. IdsTellWriters /\ AnchorsBelongToReport /\ RequestsCiteReports
  BY DEF Init, IdsTellWriters, AnchorsBelongToReport, RequestsCiteReports
<1>5. OneWriter
  BY DEF Init, Queue!Init, OneWriter, Automatic
<1> QED
  BY <1>1, <1>3, <1>4, <1>5 DEF IInv

\* The steps of the session and of the members who leave.
LEMMA SessionKeepsIInv ==
  ASSUME IInv, SessionNext
  PROVE  IInv'
<1>1. P!IInv /\ RowsInv
  BY DEF IInv, RowsInv
<1>2. /\ complete \subseteq Epoch
      /\ session \in [state : {"open", "processing", "ready", "needs_attention"}, epoch : Epoch]
      /\ members \subseteq Member
  BY DEF IInv, DomainTyped
<1>3. ASSUME NEW e \in Epoch, ReportCompleted(e) PROVE IInv'
  <2>1. /\ P!IInv'
        /\ UNCHANGED results
        /\ \A k \in Epoch : jobs'[k].state = "succeeded" => jobs[k].state = "succeeded"
    BY <1>1, <1>3, EnqueueKeepsQueue DEF ReportCompleted
  <2>2. RowsInv'
    BY <1>1, <1>2, <1>3, <2>1, RowsUntouched DEF ReportCompleted
  <2> QED
    BY <2>1, <2>2 DEF IInv, RowsInv
<1>4. ASSUME UNCHANGED <<queue, complete, drafts, suggestions, ledger, agent>>,
             session' \in [state : {"open", "processing", "ready", "needs_attention"}, epoch : Epoch],
             members' \subseteq Member
      PROVE  IInv'
  <2>1. UNCHANGED <<jobs, attempts, results, worker>>
    BY <1>4 DEF queue
  <2>2. P!IInv'
    BY <1>1, <2>1, SameQueue
  <2>3. RowsInv'
    BY <1>1, <1>2, <1>4, <2>1, RowsUntouched
  <2> QED
    BY <2>2, <2>3 DEF IInv, RowsInv
<1>5. ASSUME NEW e \in Epoch, RunFails(e) PROVE IInv'
  BY <1>2, <1>4, <1>5 DEF RunFails
<1>6. CASE Reopen
  BY <1>2, <1>4, <1>6 DEF Reopen
<1>7. CASE Close
  <2>1. session.epoch + 1 \in Epoch
    BY <1>2, <1>7, SuggestionsAssumption DEF Close, Epoch, SuggestionsAssumption
  <2> QED
    BY <1>2, <1>4, <1>7, <2>1 DEF Close
<1>8. ASSUME NEW m \in Member, Leave(m) PROVE IInv'
  BY <1>2, <1>4, <1>8 DEF Leave
<1> QED
  BY <1>3, <1>5, <1>6, <1>7, <1>8 DEF SessionNext

\* The steps of the workers.
LEMMA WorkersKeepIInv ==
  ASSUME IInv, WorkerNext
  PROVE  IInv'
<1>1. P!IInv /\ RowsInv
  BY DEF IInv, RowsInv
<1>2. /\ complete \subseteq Epoch
      /\ session \in [state : {"open", "processing", "ready", "needs_attention"}, epoch : Epoch]
      /\ members \subseteq Member
  BY DEF IInv, DomainTyped
<1>3. ASSUME P!IInv',
             UNCHANGED results,
             \A k \in Epoch : jobs'[k].state = "succeeded" => jobs[k].state = "succeeded",
             session' \in [state : {"open", "processing", "ready", "needs_attention"}, epoch : Epoch],
             UNCHANGED <<complete, drafts, suggestions, members, agent>>
      PROVE  IInv'
  <2>1. RowsInv'
    BY <1>1, <1>2, <1>3, RowsUntouched
  <2> QED
    BY <1>3, <2>1 DEF IInv, RowsInv
<1>4. ASSUME NEW w \in Worker, Claim(w) PROVE IInv'
  BY <1>1, <1>2, <1>3, <1>4, ClaimKeepsQueue DEF Claim
<1>5. ASSUME NEW w \in Worker, Late(w) PROVE IInv'
  BY <1>1, <1>2, <1>3, <1>5, ForgettingKeepsQueue DEF Late
<1>6. ASSUME NEW w \in Worker, Crash(w) PROVE IInv'
  BY <1>1, <1>2, <1>3, <1>6, ForgettingKeepsQueue DEF Crash
<1>7. ASSUME NEW w \in Worker, Requeue(w) PROVE IInv'
  BY <1>1, <1>2, <1>3, <1>7, RequeueKeepsQueue DEF Requeue
<1>8. ASSUME NEW w \in Worker, NEW cited \in SUBSET Anchor, Succeed(w, cited) PROVE IInv'
  BY <1>1, <1>8, SucceedKeepsRows DEF IInv, RowsInv
<1>9. ASSUME NEW w \in Worker, NEW transient \in BOOLEAN, Fail(w, transient) PROVE IInv'
  <2>1. PICK target \in {"failed_retryable", "failed_terminal"} : Queue!Complete(w, target)
    BY <1>9 DEF Fail
  <2>2. target \in P!CompletionState /\ target # "succeeded"
    BY DEF P!CompletionState
  <2>3. /\ P!IInv'
        /\ UNCHANGED results
        /\ worker[w].job \in Epoch
        /\ \A k \in Epoch : jobs'[k].state = IF k = worker[w].job THEN target ELSE jobs[k].state
    BY <1>1, <2>1, <2>2, CompleteKeepsQueue
  <2>4. \A k \in Epoch : jobs'[k].state = "succeeded" => jobs[k].state = "succeeded"
    BY <2>2, <2>3
  <2>5. /\ UNCHANGED <<complete, drafts, suggestions, members, agent>>
        /\ \/ session' = session
           \/ session' = [session EXCEPT !.state = IF session.state = "ready"
                                                     THEN "needs_attention" ELSE session.state]
    BY <1>9 DEF Fail
  <2>6. session' \in [state : {"open", "processing", "ready", "needs_attention"}, epoch : Epoch]
    BY <1>2, <2>5
  <2> QED
    BY <1>3, <2>3, <2>4, <2>5, <2>6
<1>10. CASE Tick
  BY <1>1, <1>2, <1>3, <1>10, TickKeepsQueue DEF Tick
<1> QED
  BY <1>4, <1>5, <1>6, <1>7, <1>8, <1>9, <1>10 DEF WorkerNext

\* The steps of the members.
LEMMA MembersKeepIInv ==
  ASSUME IInv, MemberNext
  PROVE  IInv'
<1>1. P!IInv /\ RowsInv
  BY DEF IInv, RowsInv
<1>2. UNCHANGED <<jobs, attempts, results, worker>>
  BY DEF MemberNext, Save, create, StartEdit, CommitEdit, AbandonEdit, Propose, resolve, queue
<1>3. P!IInv'
  BY <1>1, <1>2, SameQueue
<1>4. RowsInv'
  BY <1>1, SaveKeepsRows, CreateKeepsRows, CommitEditKeepsRows, EditingKeepsRows, ResolveKeepsRows
  DEF MemberNext
<1> QED
  BY <1>3, <1>4 DEF IInv, RowsInv

\* The invariant is inductive: whatever the session, the workers and the members do, in
\* any order.
THEOREM Inductive == Spec => []IInv
<1>1. Init => IInv
  BY InitIsSound
<1>2. IInv /\ [Next]_vars => IInv'
  <2> SUFFICES ASSUME IInv, [Next]_vars PROVE IInv'
    OBVIOUS
  <2>1. CASE UNCHANGED vars
    <3>1. P!IInv' /\ RowsInv'
      BY <2>1, SameQueue, RowsUntouched DEF vars, IInv, RowsInv, DomainTyped
    <3> QED
      BY <3>1 DEF IInv, RowsInv
  <2> QED
    BY <2>1, SessionKeepsIInv, WorkersKeepIInv, MembersKeepIInv DEF Next
<1> QED
  BY <1>1, <1>2, PTL DEF Spec

\* The rows keep their types: those of the queue, of the session, of the drafts and of
\* the suggestions.
THEOREM TypeCorrect == Spec => []TypeOK
<1>1. IInv => TypeOK
  BY SameTypes DEF IInv, P!IInv, TypeOK, DomainTyped, IsSuggestion
<1> QED
  BY <1>1, Inductive, PTL

\* However often leases run out, processes die and completions come late, the automatic
\* suggestions of a report and its draft are the work of the one execution whose success
\* fenced_completion recorded.
THEOREM OneExecutionWrites == Spec => []OneExecution
<1>1. IInv => OneExecution
  BY DEF IInv, OneWriter, OneExecution
<1> QED
  BY <1>1, Inductive, PTL

\* Every suggestion cites a source of the snapshot it is about, whether the worker, a
\* member or an edit request that outlived a close of the session wrote it.
THEOREM AnchorsAreOfTheReport == Spec => []AnchorsBelongToReport
<1>1. IInv => AnchorsBelongToReport
  BY DEF IInv
<1> QED
  BY <1>1, Inductive, PTL

\* A draft quotes its sources in full, and no source was crowded out of its prompt,
\* whatever the sources and the limits (_build_source_coverage_blocks and
\* _select_report_anchors).
THEOREM DraftsAlwaysQuote == Spec => []DraftsQuoteTheirSources
<1>1. DraftsQuoteTheirSources
  BY CoverageOfAll, SelectionOfAll DEF DraftsQuoteTheirSources
<1> QED
  BY <1>1, PTL

\* The sources of a report are compared soundly, whatever their similarities
\* (compare_anchor_sets).
THEOREM SourcesAlwaysCompareSoundly == Spec => []SourcesCompareSoundly
<1>1. SourcesCompareSoundly
  BY ComparisonOfAll DEF SourcesCompareSoundly
<1> QED
  BY <1>1, PTL

===============================================================================
