# A TLA+ verification of AXit

AXit collects the texts and files that the members of a room submit to a *talk
session*, and, when the host closes the session, has two documents generated
from them: a summary and a piece of research. Members then edit a merged
document together. Its back end, `src/apps/api/app`, is a set of FastAPI services over
PostgreSQL and a handful of worker threads that take jobs from a table. Almost
everything that is hard about it follows from that table: leases that run out,
workers that die, completions that arrive late, retries by the system and by
people, and a session that is reopened while old work is still under way. The rest is
hard for other reasons: a parser that may not be trusted, a language model whose answers
must be checked, browsers whose sessions end while their requests run, and members who
leave while others write to them.

This directory holds TLA+ modules translated from that code, the instances that
TLC checks, and proofs that TLAPS checks. `PROJECT.json` maps every definition
that models code to its lines.

## 1. Inventory

Paths are relative to `src/apps/api/app` unless they start with `src/`.

| Component | State it keeps | Operations | Interacts with |
|---|---|---|---|
| Durable job queue: `queue_repository.py`, `domain/queue.py` | `jobs` (state, lease generation, token, expiry), `job_attempts`, `job_results` | `enqueue`, `claim_next`, `heartbeat`, `complete_with_effects`, `requeue_retryable` | all workers; services write `jobs.state` themselves in retries |
| Generation workers: `generation_worker.py`, `generation_runner.py` | a `ClaimedJob` in memory, a pool of threads | claim, execute, complete with an effect, requeue research | queue, generation results, providers |
| Retrieval and context: `generation_retrieval.py`, `generation_context.py`, `source_anchor_quality.py`, `citation_resolver.py` | none | choose anchors, plan the calls, resolve a citation | the runner; readers of documents |
| Providers and grounding: `grok_provider.py`, `grok_research_provider.py`, `summary_grounding.py` | none | call the model, check its answer against the anchors and the searched pages | the runner |
| Generation results: `generation_repository.py`, `domain/policies.py` | `generation_runs`, `generated_documents`, segments, citations, evidence, claims, the session's state, notices | `persist_success`, `persist_failure`, `recompute_aggregate` | called inside the queue's completion |
| Close and reopen: `session_service.py` | `talk_sessions`, `generation_snapshots`, `snapshot_revisions`, `snapshot_exclusions` | `close`, `reopen` | sources, runs, queue |
| Host retry: `session_retry_service.py` | runs, jobs, session | `retry` | races with the lanes |
| Text submissions: `text_submission_service.py` | `submissions`, `source_revisions` | `submit`, `replace`, `delete` | locks the session row |
| File submissions: `file_submission_service.py` | the same and blob files | `submit`, `retry_extraction`, orphan sweep, previews | queue, blob directory |
| File extraction: `file_extraction_worker.py` | `processing_state`, anchors | reconcile, claim, load, parse, complete, requeue | queue, parser sandbox |
| Parser sandbox: `sandbox_ipc.py`, `parser_protocol.py`, `src/spikes/document-ingestion/sandbox_runner.py` and its `worker.py` | a child process or a container, two reader threads, the capture | start, poll, kill, remove, judge the answer | extraction workers |
| Orchestrator: `orchestrator.py`, `orchestrator_runner.py` | threads | one polling loop for each job kind | starts the lanes |
| Merged document: `merged_document_service.py`, `integrated_report.py` | `merged_document_states`, `merged_document_version_snapshots` | `get`, `save`, `create_version` | report identity, browser editors, AI draft |
| Automatic suggestions: `automatic_report_suggestions.py`, `document_comparison.py` | `report_suggestions`, first draft | its own lane; anchors, coverage section, comparison of two sources | queue, merged document |
| Report suggestions: `report_suggestions.py`, `grok_edit_agent.py` | `report_suggestions` | create, review, edits by the model | current report |
| Comments: `comments_service.py`, `comments_repository.py` | `comments` with versions | create, update, delete | notifications |
| Notifications, activity: `notification_*.py`, `activity_*.py` | `notifications`, `email_outbox`, `audit_events` with unique keys | record, mark read, preferences | every service |
| Collaboration: `collaboration_service.py` | friendships, rooms, memberships, invitations | request, answer, invite, leave, archive | guards of every service |
| Accounts: `auth_service.py`, `security.py`, `profile_service.py` | users, auth sessions | sign in, sign out, authenticate | every route |
| Routes: `contracts.py`, `api_errors.py`, `main.py` | none | one function for each route, answers to typed failures | the services above |
| Frontend: `src/AXit_project-main_goal_frontend` | the editor's cache | load, edit, save | merged document |

What makes each of them correct:

- **Queue.** Only the worker of the latest claim, in time, decides a job. A job
  has at most one canonical result, exactly when it succeeded. The attempt log
  is append only and has one row for each lease. Waiting and abandoned jobs are taken up.
- **Generation and session.** Job, run, document and session state agree after
  every interleaving of lanes, retries and reopening. A success is never
  touched again. The suggestions job is created when both documents exist,
  whichever lane comes last. Research attempts are bounded. A session does not
  process for ever.
- **Sources.** A revision is `queued` exactly while some job can still settle
  it. What a snapshot pins stays ready. A close accounts for every current
  revision. Nothing strands a file when a worker dies between two transactions.
- **Merged document.** The version number identifies the contents of a report's
  document, so a matching `expected_version` means nothing was overwritten;
  a named version never differs from the document of that version.
- **Files.** A committed revision has its blob, whatever fails between the rename
  and the commit and whenever the directory is swept; what no revision refers to
  is removed in the end.
- **Grounding.** Every source of the session is represented in its summary. What was
  paid for and grounded is not thrown away by a later check. Readers get from each
  statement to its source. Nothing is cited that was not searched. Whether an attempt may
  be retried does not depend on the schedule of threads.
- **Sandbox.** A job succeeds only on a whole answer; a parser that was stopped for being
  late is not blamed for it; the host comes back; nothing survives it that it could have
  removed; the two validators of one protocol agree.
- **Suggestions.** Draft and automatic proposals of a report are the work of one
  execution; a suggestion cites sources of the report it is about; a draft repeats its
  sources in full; a comparison pairs each passage at most once and passes over a similar
  pair only for one that is as good.
- **People.** Whoever is in a room is a friend of its host; the ledger tells who is in it;
  every version of a comment is recorded once; a mention reaches the member it names, and
  only members.
- **Requests.** One live session an account, the one of the last sign-in; nothing is
  written for a session that was over when the request was sent.

## 2. Modules

| Module | What it models |
|---|---|
| `LogicalJob` | Abstract: what the queue promises of one job. Opened, decided once together with its result; only a failure may be reopened |
| `JobQueue` | Every transaction on `jobs`, `job_attempts`, `job_results`, with worker memory and the database clock; shown to implement `LogicalJob` |
| `JobQueueProofs` | TLAPS proofs about `JobQueue` |
| `GenerationSession` | A session through its epochs: close, reopen, retry, both lanes, projection, notice, suggestions job. Instantiates `JobQueue` |
| `SessionSources` | Submissions, extraction workers, and the side of close that pins sources. Instantiates `JobQueue` |
| `MergedDocument` | Members' editors, saves, named versions and the AI draft, across two reports of a session |
| `BlobStore` | Uploads and sweeps of the blob directory, which no transaction covers |
| `Grounding` | One attempt of a generation job from the claim to its rows, and the way back from a citation |
| `ReportAssembly` | Algorithms of the suggestion worker: the anchors shown, the section of the sources, the comparison of two sources |
| `Suggestions` | The suggestion lane, members' suggestions, review and the model's edits. Extends `ReportAssembly`, instantiates `JobQueue` |
| `ParserProtocol` | What an envelope of a parser may say, by two validators |
| `ParserSandbox` | One extraction in a process or in a container. Extends `ParserProtocol` |
| `Activity` | Ledger, notices, outbox, preferences |
| `Collaboration` | Friends, rooms, invitations, memberships. Extends `Activity` |
| `Comments` | Comments and their transactions, composed with the two above |
| `Routes` | The routes as a table: authentication, failures raised, failures caught, answers |
| `Requests` | Sign-in, sign-out and the life of a request. Extends `Routes` |
| `GenerationSessionProofs`, `SessionSourcesProofs`, `SuggestionsProofs` | TLAPS proofs about the modules that use the queue. Each instantiates `JobQueueProofs` and cites its lemmas for the queue's steps |
| `MergedDocumentProofs`, `CommentsProofs`, `RequestsProofs` | TLAPS proofs about these modules and what they extend |
| `SourceProofs` | TLAPS proofs about the way of a source: `BlobStore`, `ParserSandbox` and `Grounding` |
| `MC...` | Model values, inputs, lanes and symmetry for TLC, one for each specification |

Definitions introduced by a comment `Fault:` are slips a developer could make
(a dropped guard, a forgotten reset). They are in no specification; `PROJECT.json`
(`mutants`) says which definition each replaces to show that a property notices.

### JobQueue

One action for each transaction: `Enqueue`, `Claim`, `Heartbeat`, `Complete`,
`Requeue`, and `RequeueFailed` and `Revive` for the two places where a service
writes `jobs.state` itself. A transaction touches the rows of one job, locked by
`FOR UPDATE` or by the UPDATE, so one action is faithful. `HoldsLease` is the WHERE
clause that heartbeat and completion share; when it matches no row the worker
gets `StaleLeaseError` (`CompleteStale`). `Crash` covers the death of a worker at
any point: what it knows is only in its memory.

- Lease expiry is relative: `lease_left` is the time to `lease_until`, and `Tick`
  lets it pass for every job at once. Only comparisons with the current time
  matter in the code, so no absolute clock is needed.
- `lease_token` is a random UUID; the generation it was issued with stands for it.
- `Claim` takes any claimable job of the lane: the code orders by age, but
  `SKIP LOCKED` passes over rows another transaction holds.
- `heartbeat` is modelled because it is part of the queue; the application never
  calls it. `mark_running`, likewise without callers, is why no run is ever
  `running` in `GenerationSession`.

### GenerationSession

A job is an epoch's snapshot and a kind. A completion is `Q!Complete` and `Persist`
in one action, because `complete_with_effects` runs the effect in its
transaction. `RecomputeAggregate` writes the projection of *that snapshot's* runs to the
session, whatever epoch and state the session is in; several findings come from
this line. `Retry` is all or nothing: one job that is no longer `failed_retryable`
rolls everything back. `RetryResearch` puts the job back and leaves the run as it was.

### SessionSources

Submit, replace, delete, close and reopen lock the session row and are therefore
one action each; extraction does not, and is split at every transaction: claim,
load, complete, requeue. `GenerationProjects` stands for `GenerationSession`: the
session may be given any state the lanes project, at any time after the first
close. That allows more than the lanes do, which is sound for the safety
properties here. `RetryExtraction` reads the revision before it locks it; both are
one action, since a job that is `failed_terminal` is changed by nobody else.
The limit on current revisions counts deleted submissions, and a deleted text can
still be replaced: both are what the code does.

### MergedDocument

A request reads in its first statement which report is the newest, and in a later
one that report's row: `Begin` and one of `EndLoad`, `EndSave`, `RefuseSave`, `EndName`.
The browser's part is what the server's guarantees depend on: `cache` is the last
answer, `shown` the blocks being edited, and `Synchronised` the effect in `Editor.tsx`
that takes blocks over only when the version *number* changed. A document is
the set of contributions it is made of, so "lost" means "no longer in the set".
`NextEpoch` and `RunSucceeds` again allow more than `GenerationSession`.
The two statements of `get` that read the row and, without one, the summary are one
action, so the model leaves out a summary that changes between them. A member has
one request at a time, and text typed during a request is left out, as is the list
of sources that `get` appends to old drafts.

### BlobStore

`submit` runs inside the transaction that the route's authentication has begun, so its own
`connection.transaction()` is a savepoint. The rows are committed when the route closes
its connection, *after* `submit` and its error path: hence `Store` (rename and inserts,
uncommitted), then `Commit`, `CommitUnanswered` (committed, but the member sees an error)
or `Abandon`. `Refuse` is the error path; the deletion in it may fail. A sweep is split
where another process can get in between: the cutoff, the query for references, each entry
of the directory. `mtime` is compared with a cutoff taken at the start, so the list of old
files is fixed by then. Ages have three values, as only the cutoff of 24 hours matters.

One assumption is made by the code and by `Grow`: no upload takes 24 hours from its last
write to its commit. A rename does not renew the time of the last write.

### Grounding

`GenerationSession` takes the outcome of an attempt as a choice; here it is made. `Retrieve`
is `execute` up to the first call: the anchors that the snapshot pins, their quality, the
limit of the retrieval, the plan of one call a document. `StartCall`, `CallFails`,
`SummaryAnswered`, `ResearchAnswered` are the threads of the pool, `YieldResult` and `Drained`
what `executor.map` and the end of its `with` make of them (external). `Complete` is the
synthesis and the completion, `Persist` the transaction with its triggers and CHECKs.

- The model answers in the shape of the strict JSON schema and fills it as it likes: any
  anchor, any quote, any verdict, any URL. Outside the schema `ground_live_summary` would
  accept two quotes of one anchor in an item, which `GenerationCompletion` then refuses.
- A connection that is reset while the response is read is not among the exceptions that
  `create_response` maps, and leaves `execute` as it is: `Raised`.
- `rag_eligible`, the gate of the database, is taken to agree with `assess_source_anchor`.
- The constants respect what the code has, 64 anchors, 32 calls and 100 items: the retrieval
  lets more anchors through than there are calls, and a summary has room for an item of each
  call (`CapsAssumption`). `DocumentsAreRepresented` needs no more than that.
- Every order the code takes from a sorted list is the order of `Rows`; `Sieve` keeps it. The
  tests of `_raise_service_problem`, of the checks and of the validators are ordered, first
  come, first served: IF chains, not CASE, whose arms are in no order.

### Suggestions and ReportAssembly

The worker's transactions are those of `JobQueue` with the draft and the proposals as their
effect. What the provider answers shows only at the completion and is chosen there. An
edit request (`agent`) reads the report, waits, and writes its suggestions one by one in
one transaction whose statements each see what is committed by then. Reviews decide
a suggestion once. `build_automatic_proposals` runs only without a provider, which only
tests do, and is left out.

`ReportAssembly` has no state. Its operators are compared with what they promise for all
documents of up to five anchors of three lengths, and for all similarities of two small
documents: `CoverageIsComplete`, `SelectionIsFair` and `ComparisonIsStable`, evaluated in
the states in which they matter by `DraftsQuoteTheirSources` and `SourcesCompareSoundly`.

### ParserSandbox and ParserProtocol

The two implementations of `execute_sandbox` have the same shape and one module, with
`request.harness` telling them apart. A poll of the host takes two steps, as a reader thread
can meet the limit between the test of the overflow flag and the later ones. The child may
write, close its streams, exit, hang, or leave a descendant in its process group or in a
session of its own; the docker client may be late to create its container. Sizes are in
units of a read. A probe of the container runner is answered by an envelope that says `ok`
or is refused (`_validate_probe_payload`). In `ParserProtocol` a digest is the value it is the digest of; the two
validators differ in source, and `ProtocolsAgree` says that what the first accepts the
second accepts.

### Activity, Collaboration, Comments

An event is its key. `Record` is the call every service makes inside its transaction: a key
that is in the ledger sends nothing. Operations of `Collaboration` lock what they read and
are one action each. A comment call is two, because it reads the members under a shared
lock and tells them at its end; who changes memberships waits for it (`RoomLocked`).
Repeating a call after a lost answer is taking the action again.

### Routes and Requests

A request authenticates, works and commits in separate steps. Authentication takes no lock;
sign-in locks the user's row, revokes the live sessions and inserts the new one. `Routes` is
the table that says what each service raises and what its route catches; `StatusOf` follows
the order of tests in `_raise_service_problem`.

## 3. Runs

| Run | Instance | Distinct states | Question |
|---|---|---|---|
| `job_queue` | 2 jobs, 2 workers, lease of 2 ticks, 4 generations | 197,661 | Do leases fence, do attempts and results agree with jobs, does the queue implement `LogicalJob`, are waiting and abandoned jobs taken up? |
| `session` | 2 epochs, a second thread for research, research cap 2, 3 generations | 2,112,885 | Do jobs, runs, documents and session agree? |
| `session_liveness` | 2 epochs, one lane for each kind | 606,058 | Does processing end? |
| `sources` | a text (2 revisions), a file, 2 workers, 2 epochs, cap 2, 3 generations | 208,367 | Do revisions and jobs agree, do snapshots account for all sources, is a queued file settled? |
| `merged_document` | 2 members, 2 reports, 2 versions of each, 2 named versions | 734,649 | Do versions identify contents? |
| `blob_store` | 2 uploads, 2 sweeping workers | 6,584 | Does every revision keep its blob, and is everything else removed? |
| `comments` | 2 users, a room, a comment of 3 versions, a change of preferences | 162,234 | Do memberships, ledger and notices agree? |
| `requests` | 3 browsers of 2 accounts, 2 sign-ins | 187,704 | Who may write, and for which session? |
| `suggestions` | 2 epochs, 2 processes, 2 attempts, a suggestion by a member, a review | 2,174,160 | One execution for each report? Are sources those of the report, quoted in full and compared soundly? |
| `sandbox` | both harnesses, all probes, 15 envelopes, streams of 2 units | 43,758 | Is the verdict fair, does the host come back, what survives it? |
| `grounding` | 3 sources of 4 anchors and a stale one, 2 threads, answers of 2 items or findings | 168,070 | Is every source represented and reachable, and is nothing grounded thrown away? |
| `reopened_can_close` | as `sources` | violated | Section 5 |

Why the bounds are enough. Two workers are the smallest number where a late
completion meets a new claim, and four generations allow an expired claim, a failed
one, a retried one and a success of the same job. Two epochs are needed for every
hazard of reopening, and no code relates more than two. In `session` the orchestrator's
one thread for each kind is joined by a second one for research, as when an old and a new
orchestrator overlap, so that completions come late there as well. Caps on attempts are 2
instead of 3, with one more generation than the cap, so that the cap and not the bound
decides.
In `sources` two files multiply the states by a hundred without adding a relation:
files do not share rows. In `merged_document` two versions cover draft then save, save
then save, and the conflict of two first saves; three versions were also explored once,
without a different result. In `blob_store` files of different uploads only meet in a sweep's
lists, and two sweeps are enough for one to remove what the other has listed; the proofs
cover every number. In `comments` every pair of roles is met by two users, as host and guest;
three versions allow a mention to be put in, taken out and put in again. In `requests` two
browsers of one account race for its row, and the third shows that accounts do not
interfere. In `suggestions` the second report has lost a source of the first, which is what a
late edit would cite. In `sandbox` a limit of 2 units is the smallest with a document below,
at and above it; the envelopes differ from a good one in one respect each, of those the
validators tell apart. In `grounding` the limits on anchors, calls and items equal the
number of sources, the tightest case the code allows, and one source alone has as many good
anchors as the others together; two threads for three documents leave one that can be
cancelled.

`MaxGeneration`, `MaxEpoch`, `MaxRevision`, `MaxVersion` and `MaxNamed` occur only in
guards: they stop behaviours, and allow none the code does not have. A liveness
property that such a bound can stop names it (`lease_generation = MaxGeneration`).

The deadlock check is off in `comments` and `requests` only: there everything is a call by a
person, and when the bounds are used up nobody calls. In the others something (time, a
member, the host, or an explicit end) can always still happen.

The type invariants of `JobQueue`, `BlobStore`, `ParserSandbox` and `Grounding` are proved; those of `GenerationSession` and
`SessionSources` are conjuncts of `RunsAndJobsAgree` and `FilesAndJobsAgree`. These two
and `OneVersionOneText` join several relations between the same tables: of runs, jobs, documents
and attempts; of revisions, jobs and attempts; of versions, copies and named versions.

## 4. Fairness

- Lanes poll in endless loops (`orchestrator.py`, `file_extraction_worker.py`), and
  what they call returns: provider and sandbox calls have timeouts. So finishing and
  requeueing are weakly fair.
- Claims are strongly fair: a claim is disabled while a worker is busy or a job is
  leased, and becomes enabled again and again. The query orders by age, so that no
  claimable job is passed over for ever.
- `Reconcile` runs before every claim of an extraction worker: strongly fair.
- Time passes: `Tick` and `Grow` are weakly fair.
- The extraction workers' loop sweeps every hour. Not every sweep breaks off, and the
  file system does not refuse a removal for ever: `ReadReferences` and `Remove` are
  strongly fair. A request comes to an end, if only by `Abandon`.
- In `sandbox` the host and its reader threads run and the deadline passes. Nothing at all is
  asked of the parser, its descendants or the docker client.
- Members, hosts, crashes and heartbeats owe nothing. Crashes may go on for as long as
  generations last.

## 5. Where the code does something other than what is said of it

`reopened_can_close` is a run that TLC finds violated, and `PROJECT.json` (`findings`) quotes the
sentence it contradicts: a source excluded at an earlier close that is still not ready
violates a unique constraint at every later close, so that the session cannot be closed
until the file is parsed or its submission deleted. Section 7 has more of the kind.

## 6. What is proved

`JobQueueProofs` proves, for every set of jobs and workers, every lane and every
length of a lease, from `QueueAssumption` alone (lanes are sets of jobs; the two numbers are
positive):

| Theorem | States |
|---|---|
| `TypeCorrect` | `[]TypeOK` |
| `Fencing` | `[]AtMostOneHolder` |
| `HolderCompletes` | `[]CompletionNeverBlocked` |
| `OneResult` | `[]ResultMatchesSuccess` |
| `LogOfLeases` | `[]AttemptLogMatchesLease` |
| `DecisionsInTime` | `DecidedInTime` |
| `LogAppendOnly` | `AttemptsAppendOnly` |
| `QueueImplementsLogicalJob` | `ImplementsLogicalJob` |
| `Inductive` | `[]IInv` |

`AtMostOneHolder` is not inductive: from a state in which two workers hold the same
generation and one job row carries it, everything else still looks right. `IInv` adds
what the code relies on without saying so:

- `LeaseShape`: a row is leased exactly while it runs, and its token is that of its
  latest generation;
- `ClaimsIssued`: no worker holds a generation the queue has not issued;
- `ClaimsDistinct`: no two workers hold the same claim;
- `AttemptLogMatchesLease` and `ResultMatchesSuccess`, which hold only together: that
  an attempt is open only under the lease makes a success the first one.

The argument: a claim issues a generation greater than all issued before, hence
distinct from every claim in memory; between two claims workers only forget
(`Forgets`); so the holder of the row's generation is unique, and what completes a job is the
latest claim. There is one lemma for each action that matters (`ClaimKeepsIInv`,
`CompleteKeepsIInv`, `PuttingBackKeepsIInv`, `LeaseTimeKeepsIInv`, `ForgettingKeepsIInv`),
and `NextKeepsIInv` puts them together. The refinement has the same shape: a decision is a step
of `LogicalJob`, putting a job back opens it or stutters, and all the rest stutters.
`MaxGeneration` occurs in a guard of `Claim` only and the proofs do not use it, so they
hold without the bound.

### The way of a source

`SourceProofs` follows a source from the upload to the citation.

| Theorem | States |
|---|---|
| `DirectoryTypeCorrect` | `[]TypeOK` (`BlobStore`) |
| `BlobsAreKept` | `[]RevisionHasBlob` |
| `UploadsAreSpared` | `[]SweepSparesUploads` |
| `SandboxTypeCorrect` | `[]SandboxTypeOK` |
| `SandboxVerdictIsFair` | `[]VerdictIsFair` |
| `OnlyExactLimitLost` | `[]OnlyTheExactLimitIsLost` |
| `SurvivorsOnlyFromStartup` | `[]SurvivorOnlyFromStartup` |
| `ProtocolsAlwaysAgree` | `[]ProtocolsAgree` |
| `DocumentsAlwaysRepresented` | `[]DocumentsAreRepresented` |
| `ReadersAlwaysReach` | `[]ReadersReachTheirSources` |
| `NothingIsEverRefused` | `[]NothingIsRefused` |
| `FirstFailureAlwaysDecides` | `[]FirstFailureDecides` |
| `OnlySearchedPagesEverCited` | `[]OnlySearchedPagesAreCited` |
| `DirectoryInductive`, `SandboxInductive`, `GroundingInductive` | the inductive invariant of each |

*Blob directory* (for every set of uploads and sweepers, without further assumption).
`RevisionHasBlob` alone says nothing of a sweep that has listed a blob and not yet removed
it. `BlobIInv` adds `WrittenIsYoung` (what an upload needs is young), `FilesHaveUploads` and
`SweptIsFinished` (what is old, or on a sweep's list, belongs to an upload that is over),
and `ReferencesAreKnown`: because the cutoff comes before the query, a listed blob whose
revision is committed is in the references that were read.

*Sandbox* (`LimitAssumption`: the limit is positive; any envelopes). `SandboxIInv` says
what each phase of the host may rely on. `ReadersReadToTheEnd`: a reader that is done met the
limit or read everything that was written, and nobody can write any more. `JudgedWhenRead`: the
host judges without a boundary only when both readers are done. So a reader thread that comes
between two tests of the host can change which refusal is reported, and never turns one
into a success. `ContainerIsGone`: once the host has gone on from the removal, a container that is
there was missed by it. The two validators agree because of `ContainerProtocolIsStricter`,
which takes their rules one by one.

*Grounding* (`GroundingAssumption`: the rows and the revisions are sequences without
repetitions, and anchors, items and findings have their fields; `CapsAssumption`;
`PlaceholderAssumption`: the stand-in is the URL of no page). `GroundingIInv` carries along the
attempt what the checks of one call let pass:

- `PlanIsSound`: the calls of a summary are of usable anchors, each of one source, and every
  source that has a usable anchor has a call;
- `CallIsSound`: a grounded result has items of its own document, one or more, or findings of
  its anchors with what `fact_check` left of them;
- `YieldedInOrder` and `ExecutionIsEarned`: all results before the next one were grounded, so
  the execution is the first failure of the plan or the completion of all results;
- `RowsAreOfTheExecution`: what is stored is that completion, and the tables took it.

The operators do the rest. Of every source the retrieval keeps the best anchor or it keeps more
sources than there are calls, and then there is no summary (`RetrievalSpreads`, by counting:
`TopSize`, `SourcesBound`). An anchor that the deduplication drops repeats one of its own source
(`DocumentsHoldTheAnchors`). The round robin begins with the first item of every call,
so the cap on items cuts none of those off, and a repetition leaves its place to an item of the same
anchor (`RoundRobinBeginsWithAll`, `DistinctKeepsAnchors`, `SectionsHoldTheItems`). What
`Sieve` and `FlattenSeq` compute is recursive; that the function exists, that a step keeps
what is known of it, and what is known of its value are three lemmas for each, by the least
place where they would fail (`LeastNatural`).

The proofs corrected the model in two places: a probe was accepted on an envelope that
says it failed, and tests that the code makes in order were arms of one CASE, which TLC tries
in order and the language does not.

### The modules that use the queue

`GenerationSession`, `SessionSources` and `Suggestions` take the queue's transactions and
add effects to them. Their proofs take the queue's inductive invariant in the same way: each has
`P == INSTANCE JobQueueProofs WITH ...`, puts `P!IInv` into its own `IInv`, and cites the
instantiated lemmas for what a claim, a completion or a tick does to the queue. What is
left to prove is what the effects do.

| Theorem | States |
|---|---|
| `GenerationSessionProofs!RunsFollowJobs` | `[]RunsAndJobsAgree` |
| `GenerationSessionProofs!SuggestionsAskedFor` | `[]SuggestedWhenComplete` |
| `GenerationSessionProofs!SuccessesAreFinal` | `SuccessIsFinal` |
| `SessionSourcesProofs!FilesFollowJobs` | `[]FilesAndJobsAgree` |
| `SessionSourcesProofs!PinnedRevisionsStay` | `[]PinnedStayReady` |
| `SessionSourcesProofs!ClosesAccount` | `CloseAccountsForSources` |
| `SuggestionsProofs!TypeCorrect` | `[]TypeOK` |
| `SuggestionsProofs!OneExecutionWrites` | `[]OneExecution` |
| `SuggestionsProofs!AnchorsAreOfTheReport` | `[]AnchorsBelongToReport` |
| `SuggestionsProofs!DraftsAlwaysQuote` | `[]DraftsQuoteTheirSources` |
| `SuggestionsProofs!SourcesAlwaysCompareSoundly` | `[]SourcesCompareSoundly` |
| `SuggestionsProofs!EveryAnchorIsQuoted`, `SuggestionsProofs!MatchesAreStable` | what the two operators promise of documents of any length |
| `Inductive` of each | `[]IInv` |

*Generation* (from `SessionAssumption`, for any number of epochs, lanes and retries).
`IInv` adds `LaterEpochsAbsent` (a close finds no jobs of its epoch), `OnlyResearchRequeues` and
`FailuresBelowLimit`: a research attempt fails at or after the limit only as the last one, and
the job with it. From the latter, at most `MaxResearchAttempts` attempts fail, however often
leases run out between them. The host's close and retry put several jobs back in one
transaction, for which `JobQueueProofs` has `PuttingSomeBackKeepsIInv`. A success is final
because a job with a result can be neither claimed nor put back.

*Sources* (from `SourcesAssumption`). What makes `FilesAndJobsAgree` inductive is what a worker's
memory is still worth: `RequeuersDecided`, that the claim a worker is about to requeue was
decided, so a later claim has another generation, and `CurrentClaimHasRevision`, that a worker
under the current claim has not found its revision gone. So a late requeue always finds
a state that `BenignWinner` explains, and does not end the worker.

*Suggestions* (from `SuggestionsAssumption`: the numbers are positive and the documents are
sequences of anchors). `IInv` adds `IdsTellWriters`, that the id of a suggestion tells
who wrote it and for which report, and `OneWriter`, that a draft of the worker is there only
with a result. A completion that passes the compare-and-set finds no result, therefore no draft
and no automatic suggestion, therefore none of its ids taken: what it publishes is all new and
not empty. That the provider is shown sources of its report only is proved of the
selection itself (`SelectionIsOfTheDocuments`); `FlattenSeq` is recursive, and what is
needed of it is proved by looking at the least place where it would fail (`LeastNatural`,
`FlattenExists`, `FlattenedOverTheSame`).

*What a report is assembled from* (`AssemblyAssumption`: a block may have an anchor, the bound on
documents is a natural number and the similarities are integers; those of the code are
cosines, of which only the order matters). The operators fold over a sequence, and a fold is
a recursive function: that it exists on the sequence, and is taken step by step, is shown
for each (`TakesExists`, `TakenInTurn`, `FlattenedInTurn`, `MatchesExists`, `MatchedInTurn`).

- `EveryAnchorIsQuoted`: after n anchors the finished blocks and the chunk in hand, put
  together, are the first n anchors, and each is within the limits (`CoveredBy`,
  `TakeCovers`). Nothing but the last flush adds the end of the document.
- `SelectedFairly`: the round robin is a tour (`Tour`): each next anchor is the next one of some
  document, and no document is two ahead of one that has more. One document's turn keeps
  that (`TourGrows`, `PieceReaches`), so do a round and all rounds (`RoundReaches`,
  `RoundsReach`), and so does every beginning of the tour, which is what the limit leaves
  (`PrefixIsFair`). The limit of anchors per document is the one that `most` takes into account.
- `MatchesAreStable`: the place of a candidate in the order is the number of those before it
  (`AheadGrows`, `OrderedInOrder`), so the candidates are taken best first, and after n of
  them each was matched or met a match as good (`StableTo`, `MatchIsStable`).

All three are of documents of any length, `SelectedFairly` of three of them. The two invariants
are of what they try: up to any bound `MaxDocument` in `DraftsQuoteTheirSources`, two documents of
two anchors with any similarities in `SourcesCompareSoundly`.

### People, documents and requests

| Theorem | States |
|---|---|
| `MergedDocumentProofs!TypeCorrect` | `[]TypeOK` |
| `MergedDocumentProofs!VersionsAreTexts` | `[]OneVersionOneText` |
| `MergedDocumentProofs!NothingIsLostOnOneReport` | `SavesBuildOnTheirReport` |
| `CommentsProofs!MembersAreFriends` | `[]MembersAreFriendsOfHost` |
| `CommentsProofs!LedgerIsComplete` | `[]LedgerTellsMembership` |
| `CommentsProofs!VersionsAreRecorded` | `[]EveryVersionRecordedOnce` |
| `CommentsProofs!MentionsAreDelivered` | `MentionsReachMembers` |
| `RequestsProofs!LastLogin` | `[]LastLoginWins` |
| `RequestsProofs!WritesAreAuthentic` | `[]WritesFromLiveSessions` |

*Merged document* (`DocumentAssumption`). A copy is true (`TrueCopy`) when it is not ahead of its
document and, while the versions are equal, has its blocks. Editors and named versions hold true
copies, and the blocks a member edits have the version of the last answer
(`ShownFollowsCache`), also when they are of another report: that is what a matching
`expected_version` does not tell, and why `SavesBuildOnTheirReport` speaks of blocks copied
from the report that is saved to.

*Comments* (`NoneAssumption`, `CommentsAssumption`). The invariant is in four parts, one
for each kind of row. `AdmissionsRecorded` ties invitations, memberships and ledger together
in both directions: somebody who was admitted once is never admitted again, so the
keys without a counter are enough. `LocksInv` says that the members a comment call has read
are still the members, because who changes them waits for the row.

*Requests* (`RequestsAssumption`). Sessions are only added, only die and never change hands
(`Ages`), so what a request knew when it was sent stays true. A sign-in knows all
live sessions of its account while it holds the account's row (`LoginKnows`), and that
is the lock's whole purpose: without it `LastLoginWins` is not inductive.

The bounds of the models (`MaxEpoch`, `MaxRevision`, `MaxVersion`, `MaxWritten`, ...) are
constants of these theorems, with any natural values. Each `IInv` was
checked by TLC on the bounds of the module's run before it was proved.

## 7. Further disagreements

Each can be seen with `tlc -config <cfg> <module>`, which reports a violation.

| Property, cfg, module | What is said | What the code does |
|---|---|---|
| `ApprovedTransitionsOnly`, `SessionApprovedTransitionsOnly.cfg`, `MCGenerationSession` | `domain/policies.py:57`: "Reject any state change outside the approved aggregate state graph" | `recompute_aggregate` writes its projection without that check: a requeued research job takes the session from `needs_attention` to `ready`, and out of `open` when the host reopened it first |
| `ProcessingWhileActive`, `SessionProcessingWhileActive.cfg`, `MCGenerationSession` | a session whose current runs are queued is processing (the projection's own rule) | a late completion of an earlier snapshot shows its outcome (`generation_repository.py:686`) |
| `NotifiedOfCompleteAnalysis`, `SessionNotifiedOfCompleteAnalysis.cfg`, `MCGenerationSession` | members are told of each complete analysis | the late success of an earlier snapshot uses up the dedupe key of the current epoch (`generation_repository.py:727`) |
| `NoSilentOverwrite`, `MergedNoSilentOverwrite.cfg`, `MCMergedDocument` | `merged_document_service.py:6`: "a clear conflict instead of a silent overwrite" | `expected_version` carries no report: version 1 of the old report matches version 1 of the new one |
| `BaselineIsOfItsReport`, `MergedBaselineIsOfItsReport.cfg`, `MCMergedDocument` | `session_service.py:368`: every prior document "stays exactly as it was" | a report that nobody has saved is shown with the summary of the session's current epoch |
| `TypedFailuresAreMapped`, `RequestsTypedFailures.cfg`, `MCRequests` | `contracts.py:1176`: "Map typed domain failures to stable, non-disclosing API errors" | `submitFile` does not catch the `TextSubmissionError` that a plain text file can raise, and answers 500 |

`SavesBuildOnTheirReport` shows how far the fourth goes: among members whose blocks come from
the report they save to, nothing is lost. `OnlyTheExactLimitIsLost`, `SurvivorOnlyFromStartup` and
`ReturnsUnlessHeld` are of the same kind: each states exactly what the sandbox does not
guarantee (a document of exactly the limit, a container created after its removal, a stream
held by a descendant outside the process group), and that nothing else is lost.

One thing was seen and has no property: after the lane's requeue of a research job its run
still says `failed_retryable`, so a host is offered a retry that is refused until the job
is decided (`generation_worker.py:121`, `session_retry_service.py:123`).

## 8. Only model-checked, not modelled, and the plan

Only model-checked, and why:

- Liveness (`EventuallyDecided`, `NoPermanentProcessing`, `EventuallySettled`, `OrphansRemoved`,
  `ReturnsUnlessHeld`): fairness and ENABLED are out of the prover's reach.

Every invariant and every other action property that a passing run checks is also a theorem.

Models that could come next: `AggregateLocks`, the completion (job, runs, session) and the host's
retry (session, runs, jobs) statement by statement, with PostgreSQL's abort of one of two
deadlocked transactions; and in `MergedDocument` what is typed while a save is under way,
and a second autosave before the first is answered.

Not modelled, and why:

- Wire models, views, cursors and lists (`contracts.py`, `*_repository.py`): conversions of
  what is read, without a decision.
- The fixture provider and its validators (`mock_provider.py`,
  `src/tools/validate_provider_fixtures.py`): tests' own tools. So are the gates and
  generators under `src/spikes` and the scripts under `src/scripts`.
- Prompts, scores, embeddings, similarity, text normalisation, hashing: data, inputs of
  `Grounding` and `ReportAssembly`.
- The parsers of documents (PDF, HWP, Office, OCR): pure functions of bytes. What they
  may answer is an input of `ParserSandbox`.
- Registration and profile fields, previews and downloads: one row or one read each.
- The frontend other than the editor: presentation.
- The limit on current revisions counts deleted submissions, and a deleted text can still
  be replaced: both are what `SessionSources` does, and nothing says what should be.

## 9. Running it

`tlc -config JobQueue.cfg MCJobQueue` checks a run; the module of each is in `PROJECT.json`.
`tlapm JobQueueProofs.tla`, and the same for each of the eight modules whose name ends in
`Proofs`, checks the proofs; most take about a minute, `SourceProofs` three.
