------------------------------ MODULE Suggestions ------------------------------
(***************************************************************************)
(* Suggestions on the integrated report: the worker that drafts the merged *)
(* document and proposes edits (automatic_report_suggestions.py), the      *)
(* members' own suggestions and their review (report_suggestions.py) and   *)
(* the edits a member asks the model for (grok_edit_agent.py).             *)
(*                                                                         *)
(* The worker uses the queue of JobQueue: one job an epoch, which the      *)
(* completion of the report enqueues.  A worker's call of the provider has *)
(* its result chosen when the worker completes the job, the only time at   *)
(* which it shows.  An edit request reads the report, waits for the        *)
(* provider and writes one suggestion after the other, in one transaction  *)
(* whose statements each see what is committed by then.                    *)
(***************************************************************************)
EXTENDS ReportAssembly

CONSTANTS
  Worker,          \* orchestrator processes
  Member,          \* members of the room
  Host,            \* the member who hosts the session
  Editor,          \* members who ask the model for edits
  Anchor,          \* source anchors
  Documents,       \* Documents[e]: the sources that the snapshot of epoch e has pinned
  MaxEpoch,        \* bound on how often the session is closed
  MaxShown,        \* _MAX_PROVIDER_ANCHORS and _MAX_ANCHORS
  MaxAttempts,     \* _MAX_PROVIDER_ATTEMPTS
  LeaseTicks,
  MaxGeneration,   \* bound on lease_generation
  MaxWritten,      \* bound on the suggestions that members write
  MaxReviewed      \* bound on the suggestions that the host decides

Epoch == 1..MaxEpoch

ASSUME SuggestionsAssumption ==
  /\ Host \in Member
  /\ Editor \subseteq Member
  /\ MaxEpoch \in Nat \ {0}
  /\ DOMAIN Documents = Epoch
  /\ \A e \in Epoch : Documents[e] \in Seq(Seq([id : Anchor, size : Nat]))
  /\ MaxShown \in Nat \ {0}
  /\ MaxAttempts \in Nat \ {0}
  /\ LeaseTicks \in Nat \ {0}
  /\ MaxGeneration \in Nat \ {0}

VARIABLES
  jobs, attempts, results, worker,   \* the queue, see JobQueue
  complete,      \* the epochs whose snapshot has its summary and its research
  session,       \* state and generation_epoch of the session
  drafts,        \* merged_document_states: who made the row of a report
  suggestions,   \* report_suggestions
  ledger,        \* the events of suggestions
  members,       \* members who have not left the room
  agent          \* the edit requests under way

queue == <<jobs, attempts, results, worker>>
vars == <<jobs, attempts, results, worker, complete, session, drafts, suggestions,
          ledger, members, agent>>

Queue == INSTANCE JobQueue WITH
  Job <- Epoch, Lane <- [w \in Worker |-> Epoch],
  AutoRequeue <- Epoch, Revivable <- {}

NoAnchor == "no anchor"
NoRow == [by |-> "nobody", generation |-> 0]
Draft(g) == [by |-> "worker", generation |-> g]
MembersRow == [by |-> "member", generation |-> 0]
Idle == [phase |-> "idle"]

\* by is the lease generation that wrote an automatic suggestion, 0 for a member's.
\* A member's id is a fresh one, an automatic id is made of the report and the proposal.
Suggestion(id, report, anchor, by) ==
  [id |-> id, report |-> report, anchor |-> anchor, by |-> by, status |-> "open"]

TypeOK ==
  /\ Queue!TypeOK
  /\ complete \subseteq Epoch
  /\ session.epoch \in Epoch
  /\ session.state \in {"open", "processing", "ready", "needs_attention"}
  /\ drafts \in [Epoch -> [by : {"nobody", "member", "worker"}, generation : Nat]]
  /\ \A s \in suggestions :
       /\ s.report \in Epoch /\ s.anchor \in Anchor \cup {NoAnchor} /\ s.by \in Nat
       /\ s.status \in {"open", "accepted", "rejected"}
  /\ members \subseteq Member

\* The session has just been closed for the first time.
Init ==
  /\ Queue!Init
  /\ complete = {}
  /\ session = [state |-> "processing", epoch |-> 1]
  /\ drafts = [e \in Epoch |-> NoRow]
  /\ suggestions = {}
  /\ ledger = {}
  /\ members = Member
  /\ agent = [m \in Editor |-> Idle]

-------------------------------------------------------------------------------
(* The session.  When a run may succeed or fail is the business of              *)
(* GenerationSession; here it may do so at any time.                            *)

\* The usable anchors of a snapshot, and those of them that the provider is shown.
Pinned == [e \in Epoch |-> {a.id : a \in UNION {ToSet(d) : d \in ToSet(Documents[e])}}]
Shown == [e \in Epoch |-> {a.id : a \in ToSet(_select_report_anchors(Documents[e], MaxShown, 0))}]

\* load_report_identity: the newest snapshot with both documents.
Report == CHOOSE e \in complete : \A other \in complete : other <= e

\* The second run of a snapshot succeeds.  recompute_aggregate projects the runs of
\* one snapshot to the session, whatever epoch the session is in, and enqueues the job.
ReportCompleted(e) ==
  /\ e <= session.epoch
  /\ e \notin complete
  /\ complete' = complete \cup {e}
  /\ session' = [session EXCEPT !.state = "ready"]
  /\ Queue!Enqueue(e)
  /\ UNCHANGED <<drafts, suggestions, ledger, members, agent>>

RunFails(e) ==
  /\ e <= session.epoch
  /\ e \notin complete
  /\ session' = [session EXCEPT !.state = "needs_attention"]
  /\ UNCHANGED <<queue, complete, drafts, suggestions, ledger, members, agent>>

Reopen ==
  /\ session.state \in {"ready", "needs_attention"}
  /\ session' = [session EXCEPT !.state = "open"]
  /\ UNCHANGED <<queue, complete, drafts, suggestions, ledger, members, agent>>

Close ==
  /\ session.state = "open"
  /\ session.epoch < MaxEpoch
  /\ session' = [state |-> "processing", epoch |-> session.epoch + 1]
  /\ UNCHANGED <<queue, complete, drafts, suggestions, ledger, members, agent>>

Leave(m) ==
  /\ m \in members \ {Host}
  /\ members' = members \ {m}
  /\ UNCHANGED <<queue, complete, session, drafts, suggestions, ledger, agent>>

-------------------------------------------------------------------------------
(* The suggestion worker *)

Claim(w) ==
  /\ \E e \in Epoch : Queue!Claim(w, e)
  /\ UNCHANGED <<complete, session, drafts, suggestions, ledger, members, agent>>

\* _parse_blocks and _parse_suggestions take an answer only if everything it cites
\* was among what was retrieved for it.
Grounded(e, cited) == cited # {} /\ cited \subseteq Shown[e]

\* The effects of fenced_completion: the row unless there is one, and the proposals
\* of the answer, whose ids are made of the snapshot and of what they propose, unless
\* they are there.
NewProposals(e, g, cited) ==
  {Suggestion(<<e, a>>, e, a, g) : a \in {a \in cited : \A s \in suggestions : s.id # <<e, a>>}}

Publish(w, cited) ==
  LET e == worker[w].job
      new == NewProposals(e, worker[w].lease_generation, cited)
  IN  /\ drafts' = [drafts EXCEPT ![e] = IF @ = NoRow THEN Draft(worker[w].lease_generation) ELSE @]
      /\ suggestions' = suggestions \cup new
      /\ ledger' = ledger \cup {<<"created", s.id>> : s \in new}

Succeed(w, cited) ==
  /\ worker[w].phase = "executing"
  /\ Grounded(worker[w].job, cited)
  /\ Queue!Complete(w, "succeeded")
  /\ Publish(w, cited)
  /\ UNCHANGED <<complete, session, members, agent>>

\* The answer is refused, or the provider failed: the same job is tried again only
\* if the provider says so, and not after the last attempt.
Retryable(w, transient) == transient /\ worker[w].lease_generation < MaxAttempts

\* _attention_effect does not ask whether the report is the newest.
Fail(w, transient) ==
  /\ worker[w].phase = "executing"
  /\ IF Retryable(w, transient)
       THEN Queue!Complete(w, "failed_retryable") /\ UNCHANGED session
       ELSE /\ Queue!Complete(w, "failed_terminal")
            /\ session' = [session EXCEPT !.state = IF @ = "ready" THEN "needs_attention" ELSE @]
  /\ UNCHANGED <<complete, drafts, suggestions, ledger, members, agent>>

\* Fault: the effects run in a transaction of their own, before the compare-and-set.
StalePublishes(w) ==
  /\ Queue!CompleteStale(w)
  /\ Publish(w, Pinned[worker[w].job])
  /\ UNCHANGED <<complete, session, members, agent>>

\* A success that comes too late is dropped.  A failure that comes too late raises out
\* of run_once and ends the process; either way nothing is written.
Late(w) ==
  /\ Queue!CompleteStale(w)
  /\ UNCHANGED <<complete, session, drafts, suggestions, ledger, members, agent>>

Requeue(w) ==
  /\ Queue!Requeue(w)
  /\ UNCHANGED <<complete, session, drafts, suggestions, ledger, members, agent>>

\* The process dies: from outside, or because the database refuses an effect (a text
\* of more than 10,000 characters, which nothing has checked) and the exception is
\* not caught.  The job is leased until the lease runs out.
Crash(w) ==
  /\ Queue!Crash(w)
  /\ UNCHANGED <<complete, session, drafts, suggestions, ledger, members, agent>>

Tick ==
  /\ Queue!Tick
  /\ UNCHANGED <<complete, session, drafts, suggestions, ledger, members, agent>>

-------------------------------------------------------------------------------
(* The members *)

\* The first save of a member makes the row, if the draft has not (MergedDocument).
Save(m) ==
  /\ m \in members
  /\ complete # {}
  /\ drafts[Report] = NoRow
  /\ drafts' = [drafts EXCEPT ![Report] = MembersRow]
  /\ UNCHANGED <<queue, complete, session, suggestions, ledger, members, agent>>

Written == {s \in suggestions : s.by = 0}
NextId == Cardinality(Written) + 1

\* Fault: the anchor is looked up among all the anchors.
AnyAnchor(m, anchor) == m \in members /\ complete # {}

\* create stamps a suggestion with the newest report and refuses an anchor of another.
Creatable(m, anchor) ==
  /\ m \in members
  /\ complete # {}
  /\ anchor = NoAnchor \/ anchor \in Pinned[Report]

create(m, anchor) ==
  /\ NextId <= MaxWritten
  /\ Creatable(m, anchor)
  /\ suggestions' = suggestions \cup {Suggestion(<<0, NextId>>, Report, anchor, 0)}
  /\ ledger' = ledger \cup {<<"created", <<0, NextId>>>>}
  /\ UNCHANGED <<queue, complete, session, drafts, members, agent>>

resolve(s, decision) ==
  /\ Host \in members
  /\ s.status = "open"
  /\ Cardinality({other \in suggestions : other.status # "open"}) < MaxReviewed
  /\ suggestions' = (suggestions \ {s}) \cup {[s EXCEPT !.status = decision]}
  /\ ledger' = ledger \cup {<<decision, s.id>>}
  /\ UNCHANGED <<queue, complete, session, drafts, members, agent>>

\* run reads the merged document, of the newest report, and its anchors.  Without a
\* row the document is made of the summary of the current epoch, which may be there
\* before the epoch's report is.
StartEdit(m) ==
  /\ agent[m] = Idle
  /\ m \in members
  /\ complete # {}
  /\ Shown[Report] # {}
  /\ agent' = [agent EXCEPT ![m] = [phase |-> "asking", basis |-> Report, made |-> <<>>]]
  /\ UNCHANGED <<queue, complete, session, drafts, suggestions, ledger, members>>

\* The provider's answer cites the anchors it was given; each proposal goes through
\* create, which reads the newest report again.
Propose(m, anchor) ==
  /\ agent[m].phase \in {"asking", "writing"}
  /\ anchor \in Shown[agent[m].basis]
  /\ NextId + Len(agent[m].made) <= MaxWritten
  /\ agent' = [agent EXCEPT ![m] =
                 IF Creatable(m, anchor)
                   THEN [phase |-> "writing", basis |-> agent[m].basis,
                         made |-> Append(agent[m].made, [report |-> Report, anchor |-> anchor])]
                   ELSE Idle]
  /\ UNCHANGED <<queue, complete, session, drafts, suggestions, ledger, members>>

\* The request's transaction commits all of its suggestions.
CommitEdit(m) ==
  /\ agent[m].phase = "writing"
  /\ NextId + Len(agent[m].made) - 1 <= MaxWritten
  /\ LET new == {Suggestion(<<0, NextId + i - 1>>, agent[m].made[i].report, agent[m].made[i].anchor, 0) :
                   i \in DOMAIN agent[m].made}
     IN  /\ suggestions' = suggestions \cup new
         /\ ledger' = ledger \cup {<<"created", s.id>> : s \in new}
  /\ agent' = [agent EXCEPT ![m] = Idle]
  /\ UNCHANGED <<queue, complete, session, drafts, members>>

\* The provider fails, its answer is refused, the member's connection breaks, or the
\* process dies: nothing is kept.
AbandonEdit(m) ==
  /\ agent[m] # Idle
  /\ agent' = [agent EXCEPT ![m] = Idle]
  /\ UNCHANGED <<queue, complete, session, drafts, suggestions, ledger, members>>

-------------------------------------------------------------------------------
SessionNext ==
  \/ \E e \in Epoch : ReportCompleted(e) \/ RunFails(e)
  \/ Reopen \/ Close
  \/ \E m \in Member : Leave(m)

WorkerNext ==
  \/ \E w \in Worker :
       \/ Claim(w) \/ Late(w) \/ Requeue(w) \/ Crash(w)
       \/ \E cited \in SUBSET Anchor : Succeed(w, cited)
       \/ \E transient \in BOOLEAN : Fail(w, transient)
  \/ Tick

MemberNext ==
  \/ \E m \in Member :
       \/ Save(m)
       \/ \E anchor \in Anchor \cup {NoAnchor} : create(m, anchor)
  \/ \E m \in Editor :
       \/ StartEdit(m) \/ CommitEdit(m) \/ AbandonEdit(m)
       \/ \E anchor \in Anchor : Propose(m, anchor)
  \/ \E s \in suggestions, decision \in {"accepted", "rejected"} : resolve(s, decision)

Next == SessionNext \/ WorkerNext \/ MemberNext

Spec == Init /\ [][Next]_vars

-------------------------------------------------------------------------------
(* Properties *)

Automatic(e) == {s \in suggestions : s.by # 0 /\ s.report = e}

\* Whatever expires, fails and is tried again, the automatic suggestions of a report
\* and its draft are the work of one execution, the one whose success the queue has
\* recorded: none of them without it, and it never without them.
OneExecution ==
  \A e \in Epoch :
    /\ \A s \in Automatic(e) : s.by = results[e]
    /\ drafts[e] \in {NoRow, MembersRow, Draft(results[e])}
    /\ jobs[e].state = "succeeded" => Automatic(e) # {} /\ drafts[e] # NoRow

\* A suggestion cites a source of the report it is about, also when the session has
\* been closed again while the provider was thinking.
AnchorsBelongToReport ==
  \A s \in suggestions : s.anchor # NoAnchor => s.anchor \in Pinned[s.report]

\* A draft repeats the sources of its report in full, in order and in paragraphs that the
\* editor takes, and none of them was crowded out of the prompt it was made from: so for
\* sources of every shape up to the bounds.
DraftsQuoteTheirSources ==
  (\E e \in Epoch : drafts[e] \notin {NoRow, MembersRow}) => CoverageIsComplete /\ SelectionIsFair

\* The sources of a complete report are compared soundly, whatever their similarities.
SourcesCompareSoundly == complete # {} => ComparisonIsStable
===============================================================================
