------------------------------ MODULE Grounding ------------------------------
(***************************************************************************)
(* One attempt of a generation job, from the claim to the rows it leaves:  *)
(* the choice of the source anchors (generation_retrieval.py and           *)
(* generation_context.py), the calls of the model and the checks of what   *)
(* it answers (grok_provider.py, grok_research_provider.py and             *)
(* summary_grounding.py), the completion (generation_runner.py), its       *)
(* persistence (generation_repository.py) and the way back from a citation *)
(* to its source (citation_resolver.py).  GenerationSession takes the      *)
(* outcome of an attempt as a choice; this module says how it comes about. *)
(*                                                                         *)
(* Text is not modelled.  A quote is a literal part of its anchor, all of  *)
(* it, or rewritten by the model; a text of the summary is clean when it   *)
(* holds no URL and no word of a verdict.  The model answers in the shape  *)
(* of the strict JSON schema it is given, and fills it as it likes.        *)
(***************************************************************************)
EXTENDS Integers, Sequences, FiniteSets, SequencesExt

CONSTANTS
  Rows,         \* all source anchors, by revision, ordinal and id
  Revisions,    \* the source revisions, in the order of their ids
  Databases,    \* what the anchors may be like
  Items,        \* summary items that the model may answer with
  Findings,     \* research findings that the model may answer with
  MaxAnswer,    \* bound on the items or findings of an answer
  Url,          \* URLs
  Page,         \* Page[u]: _normalize_url of u, shared by spellings of one page
  UnsafeUrl,    \* URLs that the checks of the table web_evidence refuse
  MaxAnchors,   \* retrieval_max_anchors
  Budget,       \* max_estimated_tokens, in units of an anchor's size
  MaxCalls,     \* _MAX_DOCUMENT_STAGE_CALLS
  MaxItems,     \* cap on the items of a summary
  PoolSize,     \* threads that summarise documents
  Users,        \* accounts
  Members       \* the accounts that are members of the room

Anchors == ToSet(Rows)
Kinds == {"summary", "research"}
Verdicts == {"supported", "refuted", "mixed", "unverifiable"}

ASSUME GroundingAssumption ==
  /\ Rows \in Seq(Anchors) /\ IsInjective(Rows)
  /\ Revisions \in Seq(ToSet(Revisions)) /\ IsInjective(Revisions)
  /\ \A d \in Databases : \A a \in Anchors :
       /\ d.anchor[a].rev \in ToSet(Revisions)
       /\ {d.anchor[a].pinned, d.anchor[a].accepted, d.anchor[a].instruction} \subseteq BOOLEAN
       /\ d.anchor[a].size \in Nat \ {0} /\ d.anchor[a].score \in Int
  /\ \A i \in Items : {i.id, i.support} \subseteq Anchors /\ i.quote \in {"literal", "rewritten"}
  /\ \A f \in Findings : f.anchor \in Anchors /\ f.verdict \in Verdicts /\ f.urls \in Seq(Url)
  /\ DOMAIN Page = Url /\ UnsafeUrl \subseteq Url
  /\ {MaxAnswer, MaxAnchors, Budget, MaxCalls, MaxItems, PoolSize} \subseteq Nat \ {0}
  /\ Members \subseteq Users

\* The retrieval lets more anchors through than there are calls, 64 and 32, or there are
\* not that many sources; and a summary has room, 100 items, for one of each call.
ASSUME CapsAssumption ==
  /\ MaxCalls < MaxAnchors \/ Len(Revisions) <= MaxAnchors
  /\ MaxCalls <= MaxItems

VARIABLES
  db,        \* source_anchors: revision, whether the snapshot pins it, its text
  kind,      \* of the claimed job
  stage,     \* "claimed", "calling", "draining", "executed", "stored", "refused"
  docs,      \* plan.documents: the anchors of each call, in plan order
  call,      \* call[d]: what the future of document d holds
  next,      \* the document whose result executor.map yields next
  execution, \* the GenerationExecution, or the exception that leaves execute
  rows       \* generated_segments, citations, web_evidence and research_claims

groundingVars == <<db, kind, stage, docs, call, next, execution, rows>>

Index(s, e) == CHOOSE i \in DOMAIN s : s[i] = e
Failed(code, retryable) == [state |-> "failed", code |-> code, retryable |-> retryable]
Raised == [state |-> "raised"]
Undecided == [state |-> "none"]
NoRows == [content |-> <<>>, segments |-> <<>>, citations |-> <<>>, evidence |-> {}, claims |-> <<>>]

(***************************************************************************)
(* The choice of the anchors.                                              *)
(***************************************************************************)

\* The elements of s that are in S, in their order, without those that repeat one kept
\* before them: Same holds the sets of elements that repeat one another.
Sieve(s, S, Same) ==
  LET kept[n \in 0..Len(s)] ==
        IF n = 0 THEN <<>>
        ELSE IF s[n] \in S /\ \A k \in DOMAIN kept[n - 1] : {kept[n - 1][k], s[n]} \notin Same
          THEN Append(kept[n - 1], s[n])
          ELSE kept[n - 1]
  IN  kept[Len(s)]

Pinned == Sieve(Rows, {a \in Anchors : db.anchor[a].pinned}, {})
Eligible == Sieve(Pinned, {a \in Anchors : db.anchor[a].accepted}, {})

\* The order of the hybrid score; ties go to the earlier row.
Before(a, b) ==
  \/ db.anchor[a].score > db.anchor[b].score
  \/ db.anchor[a].score = db.anchor[b].score /\ Index(Rows, a) < Index(Rows, b)

Top(S, n) == {a \in S : Cardinality({b \in S : Before(b, a)}) < n}

\* Fault: the best anchors, whichever document they are of.
BestScoresOnly == Sieve(Eligible, Top(ToSet(Eligible), MaxAnchors), {})

\* The best anchor of as many documents as the limit allows, then the best of the others.
retrieve_generation_anchors ==
  LET eligible == ToSet(Eligible)
      best == {a \in eligible : \A b \in eligible \ {a} :
                 db.anchor[b].rev = db.anchor[a].rev => Before(a, b)}
      limit == IF MaxAnchors < Len(Eligible) THEN MaxAnchors ELSE Len(Eligible)
      first == Top(best, limit)
      chosen == first \cup Top(eligible \ first, limit - Cardinality(first))
  IN  Sieve(Eligible, chosen, {})

\* The anchors of one revision, without those that repeat one kept before them.
Deduplicated(anchors, r) == Sieve(anchors, {a \in Anchors : db.anchor[a].rev = r}, db.duplicates)

Documents(anchors) ==
  LET grouped == [i \in DOMAIN Revisions |-> Deduplicated(anchors, Revisions[i])]
  IN  Sieve(grouped, ToSet(grouped) \ {<<>>}, {})

Size(documents) ==
  FoldLeft(LAMBDA n, a : n + db.anchor[a].size, 0, FlattenSeq(documents))

(***************************************************************************)
(* The answers of the model, and what the providers make of them.          *)
(***************************************************************************)

Answers(S, least) == UNION {[1..n -> S] : n \in least..MaxAnswer}

\* An error of the transport or of the response, without the answer: the exceptions
\* that create_response maps, an incomplete response, one without a single output
\* text, and an exception that create_response does not catch.
Errors == {"unavailable", "rejected", "incomplete", "textless", "malformed", "reset"}

ErrorResult(error, k) ==
  IF error = "reset" THEN Raised
  ELSE Failed(error, \/ error \in {"unavailable", "incomplete"}
                     \/ error = "textless" /\ k = "research")

InstructionLike(anchors) == \E a \in ToSet(anchors) : db.anchor[a].instruction

\* A support whose quote is not in its anchor is given all of the anchor's text.
summary_support(item) ==
  [heading |-> item.heading, text |-> item.text, anchor |-> item.support,
   quote |-> IF item.quote = "rewritten" THEN "whole" ELSE item.quote]

\* _summary_candidate_from_response, then ground_live_summary.
generate_summary(anchors, items) ==
  IF InstructionLike(anchors) THEN Failed("source_prompt_injection", FALSE)
  ELSE IF \E i \in ToSet(items) : ~ {i.id, i.support} \subseteq ToSet(anchors)
    THEN Failed("foreign_anchor", FALSE)
  ELSE IF \E i \in ToSet(items) : \/ ~ i.clean \/ i.id # i.support
                                 \/ summary_support(i).quote = "rewritten"
    THEN Failed("not_grounded", FALSE)
  ELSE [state |-> "grounded", items |-> [n \in DOMAIN items |-> summary_support(items[n])]]

\* The evidence that stands in when no finding has any.
Placeholder == "urn:axit:no-web-evidence"

\* _normalize_url takes http and https only.
ASSUME PlaceholderAssumption == Placeholder \notin Url \cup Anchors

\* _trusted_citations: the page was searched, under the URL that is named last.
Searched(u, sources) == \E s \in ToSet(sources) : Page[s] = Page[u]
Canonical(u, sources) ==
  sources[CHOOSE i \in DOMAIN sources :
            /\ Page[sources[i]] = Page[u]
            /\ \A j \in DOMAIN sources : Page[sources[j]] = Page[u] => j <= i]

Unsearched(finding, sources) ==
  \E n \in DOMAIN finding.urls : ~ Searched(finding.urls[n], sources)

\* Fault: the evidence that was searched stays with the finding.
KeepsSearchedEvidence(finding, sources) ==
  LET known == SelectSeq(finding.urls, LAMBDA u : Searched(u, sources))
  IN  [anchor |-> finding.anchor, verdict |-> finding.verdict,
       evidence |-> [n \in DOMAIN known |-> Canonical(known[n], sources)]]

\* A finding that names a page nobody searched loses all its evidence and its verdict.
fact_check(finding, sources) ==
  IF Unsearched(finding, sources)
    THEN [anchor |-> finding.anchor, verdict |-> "unverifiable", evidence |-> <<>>]
    ELSE [anchor |-> finding.anchor, verdict |-> finding.verdict,
          evidence |-> [n \in DOMAIN finding.urls |-> Canonical(finding.urls[n], sources)]]

web_evidence(findings, sources) ==
  {Canonical(u, sources) :
     u \in {v \in UNION {ToSet(f.urls) : f \in ToSet(findings)} : Searched(v, sources)}}

\* Fault: no stand-in.
NoPlaceholder(findings, sources) == web_evidence(findings, sources)

evidence_rows(findings, sources) ==
  IF findings # <<>> /\ web_evidence(findings, sources) = {}
    THEN {Placeholder} ELSE web_evidence(findings, sources)

\* _result_from_response of the research provider.
generate_research(anchors, findings, sources) ==
  IF InstructionLike(anchors) THEN Failed("source_prompt_injection", FALSE)
  ELSE IF \E f \in ToSet(findings) : f.anchor \notin ToSet(anchors) THEN Failed("foreign_anchor", FALSE)
  ELSE IF \E f \in ToSet(findings) : ~ f.quoted THEN Failed("quote_mismatch", FALSE)
  ELSE [state |-> "grounded", findings |-> findings, sources |-> sources,
        checks |-> [n \in DOMAIN findings |-> fact_check(findings[n], sources)],
        evidence |-> evidence_rows(findings, sources)]

(***************************************************************************)
(* The completion that execute builds from the grounded results.           *)
(***************************************************************************)

\* The first items of all documents, then their second items, and so on.
Nth(n, result) == IF n <= Len(result.items) THEN <<result.items[n]>> ELSE <<>>
Round(n, results) == FlattenSeq([d \in DOMAIN results |-> Nth(n, results[d])])
RoundRobin(results) == FlattenSeq([n \in 1..MaxAnswer |-> Round(n, results)])

\* Items of one text and one anchor.
Signatures(items) ==
  UNION {{{i, j} : j \in {k \in ToSet(items) : k.text = i.text /\ k.anchor = i.anchor}} :
           i \in ToSet(items)}
Distinct(items) == Sieve(items, ToSet(items), Signatures(items))

\* The sections, in the order in which their headings first appear, laid end to end.
Headings(items) ==
  LET all == {items[n].heading : n \in DOMAIN items}
  IN  Sieve([n \in DOMAIN items |-> items[n].heading], all, {{h} : h \in all})
Section(items, heading) == Sieve(items, {i \in ToSet(items) : i.heading = heading}, {})
Sections(items) ==
  FlattenSeq([n \in DOMAIN Headings(items) |-> Section(items, Headings(items)[n])])

Synthesized(results) ==
  LET items == Distinct(RoundRobin(results))
  IN  SubSeq(items, 1, IF MaxItems < Len(items) THEN MaxItems ELSE Len(items))

SourceCitation(n, a) == [segment |-> n - 1, type |-> "source_anchor", target |-> a]
WebCitation(n, u) == [segment |-> n - 1, type |-> "web_evidence", target |-> u]

SummaryRows(content, items) ==
  [content |-> content,
   segments |-> [n \in DOMAIN items |-> items[n].text],
   citations |-> [n \in DOMAIN items |-> SourceCitation(n, items[n].anchor)],
   evidence |-> {}, claims |-> <<>>]

\* Fault: segments are numbered in the order in which the items were merged.
SegmentsAsSynthesized(items) == SummaryRows(Sections(items), items)

\* Segments are numbered in the order of the sections.
_summary_completion(items) == SummaryRows(Sections(items), Sections(items))

_research_completion(result) ==
  [content |-> result.checks,
   segments |-> [n \in DOMAIN result.checks |-> "explanation"],
   citations |-> FlattenSeq([n \in DOMAIN result.checks |->
     <<SourceCitation(n, result.checks[n].anchor)>> \o
     [e \in DOMAIN result.checks[n].evidence |-> WebCitation(n, result.checks[n].evidence[e])]]),
   evidence |-> result.evidence,
   claims |-> [n \in DOMAIN result.checks |->
     [anchor |-> result.checks[n].anchor, verdict |-> result.checks[n].verdict]]]

\* GenerationCompletion.__post_init__.
CompletionIsValid(k, c) ==
  /\ \A n \in DOMAIN c.citations :
       /\ c.citations[n].segment + 1 \in DOMAIN c.segments
       /\ c.citations[n].type = "web_evidence" => c.citations[n].target \in c.evidence
  /\ IF k = "summary"
       THEN /\ c.segments # <<>> /\ c.evidence = {} /\ c.claims = <<>>
            /\ IsInjective(c.citations)
            /\ {c.citations[n].segment + 1 : n \in DOMAIN c.citations} = DOMAIN c.segments
       ELSE c.claims # <<>> => c.evidence # {}

Concluded(k, results) ==
  LET c == IF k = "summary" THEN _summary_completion(Synthesized(results))
                            ELSE _research_completion(results[1])
  IN  IF CompletionIsValid(k, c) THEN [state |-> "succeeded", completion |-> c] ELSE Raised

(***************************************************************************)
(* The attempt.                                                            *)
(***************************************************************************)

GroundingInit ==
  /\ db \in Databases
  /\ kind \in Kinds
  /\ stage = "claimed"
  /\ docs = <<>> /\ call = <<>> /\ next = 1
  /\ execution = Undecided
  /\ rows = NoRows

Execute(result) == stage' = "executed" /\ execution' = result

\* execute up to the first call.  A snapshot without an anchor is a GenerationRunnerError,
\* which the worker makes a terminal failure, one without an eligible anchor a failed
\* execution; research is one call with all the anchors.
Retrieve ==
  /\ stage = "claimed"
  /\ LET anchors == retrieve_generation_anchors
         plan == IF kind = "summary" THEN Documents(anchors) ELSE <<anchors>>
     IN  IF Eligible = <<>>
           THEN Execute(Failed("retrieval_context_invalid", FALSE)) /\ UNCHANGED <<docs, call>>
         ELSE IF kind = "summary" /\ (Size(plan) > Budget \/ Len(plan) > MaxCalls)
           THEN Execute(Failed("context_budget_exceeded", FALSE)) /\ UNCHANGED <<docs, call>>
         ELSE /\ docs' = plan
              /\ call' = [d \in DOMAIN plan |-> [state |-> "queued"]]
              /\ stage' = "calling"
              /\ UNCHANGED execution
  /\ UNCHANGED <<db, kind, next, rows>>

Running == {d \in DOMAIN call : call[d].state = "running"}

\* A thread of the pool takes the document that was submitted first.
StartCall ==
  /\ stage = "calling"
  /\ Cardinality(Running) < PoolSize
  /\ \E d \in DOMAIN call :
       /\ call[d].state = "queued"
       /\ \A e \in 1..(d - 1) : call[e].state # "queued"
       /\ call' = [call EXCEPT ![d].state = "running"]
  /\ UNCHANGED <<db, kind, stage, docs, next, execution, rows>>

\* A call ends with an error, unless its anchors were refused before the model was asked.
CallFails ==
  \E d \in Running, error \in Errors :
    /\ call' = [call EXCEPT ![d] =
         IF InstructionLike(docs[d]) THEN Failed("source_prompt_injection", FALSE)
                                     ELSE ErrorResult(error, kind)]
    /\ UNCHANGED <<db, kind, stage, docs, next, execution, rows>>

SummaryAnswered ==
  /\ kind = "summary"
  /\ \E d \in Running, items \in Answers(Items, 1) :
       call' = [call EXCEPT ![d] = generate_summary(docs[d], items)]
  /\ UNCHANGED <<db, kind, stage, docs, next, execution, rows>>

ResearchAnswered ==
  /\ kind = "research"
  /\ \E d \in Running, findings \in Answers(Findings, 0), sources \in Answers(Url, 0) :
       call' = [call EXCEPT ![d] = generate_research(docs[d], findings, sources)]
  /\ UNCHANGED <<db, kind, stage, docs, next, execution, rows>>

Settled(d) == call[d].state \in {"grounded", "failed", "raised"}

\* Fault: the first exception, whichever document it is of.
YieldAsCompleted(d) ==
  /\ stage = "calling"
  /\ IF call[d].state = "grounded"
       THEN d = next /\ next' = next + 1 /\ UNCHANGED <<stage, call, execution>>
       ELSE /\ Settled(d)
            /\ stage' = "draining"
            /\ execution' = call[d]
            /\ call' = [e \in DOMAIN call |->
                 IF call[e].state = "queued" THEN [state |-> "cancelled"] ELSE call[e]]
            /\ UNCHANGED next
  /\ UNCHANGED <<db, kind, docs, rows>>

\* executor.map yields the results in the order of the documents, not in that of their
\* ends.  At the first exception it cancels the calls that have not started.
Yield(d) ==
  /\ stage = "calling" /\ d = next
  /\ Settled(d)
  /\ IF call[d].state = "grounded"
       THEN next' = next + 1 /\ UNCHANGED <<stage, call, execution>>
       ELSE /\ stage' = "draining"
            /\ execution' = call[d]
            /\ call' = [e \in DOMAIN call |->
                 IF call[e].state = "queued" THEN [state |-> "cancelled"] ELSE call[e]]
            /\ UNCHANGED next
  /\ UNCHANGED <<db, kind, docs, rows>>

YieldResult == \E d \in DOMAIN call : Yield(d)

\* The exception leaves the with statement once the threads are done.
Drained ==
  /\ stage = "draining"
  /\ Running = {}
  /\ Execute(execution)
  /\ UNCHANGED <<db, kind, docs, call, next, rows>>

Complete ==
  /\ stage = "calling"
  /\ next > Len(call)
  /\ Execute(Concluded(kind, call))
  /\ UNCHANGED <<db, kind, docs, call, next, rows>>

\* What the triggers and the checks of the tables refuse.
TablesAccept(c) ==
  /\ \A n \in DOMAIN c.citations :
       IF c.citations[n].type = "web_evidence" THEN kind = "research"
       ELSE db.anchor[c.citations[n].target].pinned
  /\ \A n \in DOMAIN c.claims : db.anchor[c.claims[n].anchor].pinned
  /\ c.evidence \cap UnsafeUrl = {}

\* persist_success, after the queue has fenced the lease.
Persist ==
  /\ stage = "executed"
  /\ execution.state = "succeeded"
  /\ IF TablesAccept(execution.completion)
       THEN stage' = "stored" /\ rows' = execution.completion
       ELSE stage' = "refused" /\ UNCHANGED rows
  /\ UNCHANGED <<db, kind, docs, call, next, execution>>

\* The attempt is over; what becomes of the job is up to the worker.
Over ==
  /\ \/ stage \in {"stored", "refused"}
     \/ stage = "executed" /\ execution.state # "succeeded"
  /\ UNCHANGED groundingVars

GroundingNext ==
  \/ Retrieve \/ StartCall \/ CallFails \/ SummaryAnswered \/ ResearchAnswered
  \/ YieldResult \/ Drained \/ Complete \/ Persist \/ Over

GroundingSpec == GroundingInit /\ [][GroundingNext]_groundingVars

(***************************************************************************)
(* From a citation back to its source.                                     *)
(***************************************************************************)

Unavailable == "unavailable"

\* CitationResolver.resolve: through the run, the snapshot and the membership.
resolve(n, user) ==
  LET c == rows.citations[n]
  IN  IF /\ user \in Members
         /\ IF c.type = "source_anchor" THEN db.anchor[c.target].pinned
                                        ELSE c.target \in rows.evidence
        THEN c.target ELSE Unavailable

resolve_source_anchor_for_viewer(revision, a, user) ==
  IF user \in Members /\ db.anchor[a].rev = revision THEN a ELSE Unavailable

resolve_source_anchor_for_member(a, user) == IF user \in Members THEN a ELSE Unavailable

resolve_web_evidence_for_member(u, user) ==
  IF /\ user \in Members
     /\ \E n \in DOMAIN rows.citations :
          rows.citations[n].type = "web_evidence" /\ rows.citations[n].target = u
    THEN u ELSE Unavailable

\* _summary_content_with_citation_ids: the citations that an item of the content is given.
CitationsOf(n) ==
  {m \in DOMAIN rows.citations : /\ rows.citations[m].segment = n - 1
                                 /\ rows.citations[m].target = rows.content[n].anchor}

\* get_rag_contributions_for_member: the units of a revision, and those its summary uses.
\* The gate of the database, rag_eligible, is taken to agree with assess_source_anchor.
rag_units(r) == {a \in ToSet(Pinned) : db.anchor[a].rev = r /\ db.anchor[a].accepted}
used_anchor_ids(r) ==
  {rows.citations[n].target :
     n \in {m \in DOMAIN rows.citations : /\ rows.citations[m].type = "source_anchor"
                                         /\ db.anchor[rows.citations[m].target].rev = r}}

(***************************************************************************)
(* Properties.                                                             *)
(***************************************************************************)

\* No source of the closed session drops out of its summary on the way through the
\* retrieval limit, the deduplication, the parallel calls and the cap of the synthesis:
\* of every pinned revision with usable anchors, a stored summary cites one or more, and
\* no anchor that is not one of them.
DocumentsAreRepresented ==
  stage = "stored" /\ kind = "summary" =>
    \A r \in ToSet(Revisions) :
      /\ rag_units(r) # {} => used_anchor_ids(r) # {}
      /\ used_anchor_ids(r) \subseteq rag_units(r)

\* A member can read a stored summary, each of its items with the one citation of its
\* support, and follow every citation of a document to the pinned source or to the page;
\* nobody else can follow any.
ReadersReachTheirSources ==
  stage = "stored" =>
    /\ kind = "summary" => \A n \in DOMAIN rows.content :
         Cardinality(CitationsOf(n)) = 1 /\ rows.segments[n] = rows.content[n].text
    /\ \A n \in DOMAIN rows.citations, user \in Users :
         LET c == rows.citations[n]
             found == resolve(n, user)
             shown == IF c.type = "web_evidence" THEN resolve_web_evidence_for_member(c.target, user)
                      ELSE resolve_source_anchor_for_viewer(db.anchor[c.target].rev, c.target, user)
         IN  /\ found = shown
             /\ c.type = "source_anchor" => resolve_source_anchor_for_member(c.target, user) = found
             /\ found = IF user \in Members THEN c.target ELSE Unavailable

\* What the grounding lets pass is never thrown away by a later check: the completion
\* accepts it, and the tables refuse it only for the URL of a page.
NothingIsRefused ==
  /\ stage = "refused" => execution.completion.evidence \cap UnsafeUrl # {}
  /\ execution.state = "raised" => \E d \in DOMAIN call : call[d].state = "raised"

\* However the threads are scheduled, an attempt fails as the first document of the plan
\* that fails: with its code, and for a retry only if that document's failure allows one.
FirstFailureDecides ==
  stage = "executed" /\ execution.state \in {"failed", "raised"} /\ docs # <<>> =>
    \E d \in DOMAIN call :
      /\ execution = call[d]
      /\ \A e \in 1..(d - 1) : call[e].state = "grounded"

\* A stored research document names no page that the search did not return, a finding
\* that named one has lost its verdict and its evidence, and the stand-in is cited by none.
OnlySearchedPagesAreCited ==
  stage = "stored" /\ kind = "research" =>
    /\ rows.evidence \subseteq ToSet(call[1].sources) \cup {Placeholder}
    /\ \A n \in DOMAIN rows.citations : rows.citations[n].target # Placeholder
    /\ \A n \in DOMAIN call[1].findings :
         LET cited == {m \in DOMAIN rows.citations : /\ rows.citations[m].segment = n - 1
                                                     /\ rows.citations[m].type = "web_evidence"}
         IN  Unsearched(call[1].findings[n], call[1].sources) =>
               cited = {} /\ rows.claims[n].verdict = "unverifiable"
===============================================================================
