--------------------------- MODULE ParserSandbox ---------------------------
(***************************************************************************)
(* One extraction in a sandbox, from the staged bytes to what the job is   *)
(* told.  execute_sandbox has two implementations of the same shape:       *)
(*   "process"    sandbox_ipc.py: the parser is a child process, answers   *)
(*                in a result file and must leave stdout and stderr alone; *)
(*                its consumer is FencedExtractionRunner;                  *)
(*   "container"  sandbox_runner.py: the parser is worker.py in a docker   *)
(*                container and answers on the stdout of the docker client;*)
(*                its consumer is FileExtractionWorker.                    *)
(* In both, two threads read the streams up to a limit while the host      *)
(* polls them, the deadline and the process.                               *)
(*                                                                         *)
(* Sizes are counted in units of what one read returns.  A poll of the host*)
(* takes two steps because a reader can move between its first test, of    *)
(* the overflow flag, and the later ones.                                  *)
(***************************************************************************)
EXTENDS ParserProtocol

CONSTANTS
  Limit,      \* max_stdout_bytes and max_stderr_bytes, in units
  Envelope    \* the envelopes a parser may answer with

ASSUME LimitAssumption == Limit \in Nat \ {0}

VARIABLES
  request,    \* the harness and probe, the staged source, its media type and parser
  phase,      \* where the host is in execute_sandbox
  boundary,   \* boundary_failure: why the host stopped the capture
  expired,    \* the wall timeout has passed
  parser,     \* the child process: the parser, or the docker client
  helper,     \* a descendant of the parser that holds its streams
  container,  \* the docker container
  missed,     \* rm --force found no container
  document,   \* size of the document worker.py printed, 0 for none
  written,    \* what was written to each stream
  buffer,     \* what its reader took
  reader,     \* the reader threads
  overflow,   \* the stream whose reader met the limit first
  outcome     \* the SandboxExecution, and the target state of the job

processes == <<parser, helper, container, missed>>
streams == <<document, written, buffer, reader, overflow>>
host == <<phase, boundary, expired, outcome>>
sandboxVars == <<request, host, processes, streams>>

Stream == {"stdout", "stderr"}
\* "look" stands for the probes that answer: network, secret and filesystem.
Probe == {"none", "look", "timeout", "output"}
Ended == {"returned", "raised"}
NoOutcome == [ok |-> FALSE, code |-> "none", target |-> "none"]

\* The document of the runs, and the entry of _PROFILE_BY_MEDIA for its media type.
Media == "pdf"
Source == "staged"
ApprovedProfile == "profile"

\* A probe is for the container runner only.
Requests ==
  {r \in [harness : {"process", "container"}, probe : Probe, source : {Source},
          media : {Media}, parser : {ApprovedParser[Media]}] :
     r.probe # "none" => r.harness = "container"}

SandboxInit ==
  /\ request \in Requests
  /\ phase = "start"
  /\ boundary = "none"
  /\ expired = FALSE
  /\ parser = [state |-> "absent", exit |-> 0]
  /\ helper = "none"
  /\ container = "none"
  /\ missed = FALSE
  /\ document = 0
  /\ written = [s \in Stream |-> 0]
  /\ buffer = [s \in Stream |-> 0]
  /\ reader = [s \in Stream |-> "idle"]
  /\ overflow = "none"
  /\ outcome = NoOutcome

IsProcess == request.harness = "process"
IsContainer == request.harness = "container"

-----------------------------------------------------------------------------
(* What the job is told *)

\* _completion_from_sandbox of FencedExtractionRunner.
ProcessTarget(code, retryable) ==
  IF code = "PARSER_REPORTED_FAILURE"
    THEN IF retryable THEN "failed_retryable" ELSE "failed_terminal"
    ELSE IF code \in {"SANDBOX_LAUNCH_FAILED", "PARSER_TIMEOUT"}
           THEN "failed_retryable" ELSE "failed_terminal"

\* _convert_approved_execution and run_once of FileExtractionWorker: the code of
\* the parser decides, its retryable flag is not looked at.
ContainerTarget(code) ==
  IF code \in {"PARSER_TIMEOUT", "OCR_TIMEOUT", "DEPENDENCY_UNAVAILABLE"}
    THEN "failed_retryable" ELSE "failed_terminal"

Target(code, retryable) ==
  IF IsProcess THEN ProcessTarget(code, retryable) ELSE ContainerTarget(code)

Fail(code, retryable) ==
  /\ phase' = "returned"
  /\ outcome' = [ok |-> FALSE, code |-> code, target |-> Target(code, retryable)]

Succeed ==
  /\ phase' = "returned"
  /\ outcome' = [ok |-> TRUE, code |-> "none", target |-> "succeeded"]

-----------------------------------------------------------------------------
(* Staging and launch *)

TooLarge ==
  /\ phase = "start"
  /\ Fail("INPUT_TOO_LARGE", FALSE)
  /\ UNCHANGED <<request, boundary, expired, processes, streams>>

\* inspect_input refuses the bytes or the name before a container is started.
Refused ==
  /\ phase = "start" /\ IsContainer
  /\ \E code \in {"EMPTY_INPUT", "UNSUPPORTED_MEDIA_TYPE", "TYPE_MISMATCH",
                  "CORRUPT_DOCUMENT"} : Fail(code, FALSE)
  /\ UNCHANGED <<request, boundary, expired, processes, streams>>

\* OSError while staging or starting.  The container runner lets it through.
LaunchFails ==
  /\ phase = "start"
  /\ IF IsProcess THEN Fail("SANDBOX_LAUNCH_FAILED", FALSE)
                  ELSE phase' = "raised" /\ UNCHANGED outcome
  /\ UNCHANGED <<request, boundary, expired, processes, streams>>

Launch ==
  /\ phase = "start"
  /\ phase' = "polling"
  /\ parser' = [parser EXCEPT !.state = "running"]
  /\ reader' = [s \in Stream |-> "reading"]
  /\ UNCHANGED <<request, boundary, expired, outcome, helper, container, missed,
                 document, written, buffer, overflow>>

-----------------------------------------------------------------------------
(* The parser, its descendants and the container *)

\* docker run: the client asks the daemon to create the container, then to start it.
Create ==
  /\ IsContainer /\ parser.state = "running" /\ container = "none"
  /\ container' = "created"
  /\ UNCHANGED <<request, host, parser, helper, missed, streams>>

StartContainer ==
  /\ IsContainer /\ parser.state = "running" /\ container = "created"
  /\ container' = "running"
  /\ UNCHANGED <<request, host, parser, helper, missed, streams>>

Speaks == parser.state = "running" /\ (IsContainer => container = "running")

\* Fault: to_json does not look at the size.
UncheckedPrintable ==
  CASE request.probe = "timeout" -> {}
    [] request.probe = "output" -> {Limit + 1}
    [] OTHER -> 1 .. Limit + 1

\* A document of worker.py is within the limit, to_json and _execute_probe see to
\* that, but for the probe that means to break it; main adds a newline.
Printable ==
  CASE request.probe = "timeout" -> {}
    [] request.probe = "output" -> {Limit + 1}
    [] OTHER -> 1 .. Limit

WriteOutput ==
  /\ IsContainer /\ Speaks /\ document = 0
  /\ \E size \in Printable :
       /\ document' = size
       /\ written' = [written EXCEPT !["stdout"] = size + 1]
  /\ UNCHANGED <<request, host, processes, buffer, reader, overflow>>

\* Something else is written: by a parser process or, for the container, to
\* stderr by the docker client or an interpreter that dies.
Chatter(s) ==
  /\ parser.state = "running" \/ helper # "none"
  /\ IsProcess \/ s = "stderr"
  /\ written[s] <= Limit
  /\ written' = [written EXCEPT ![s] = @ + 1]
  /\ UNCHANGED <<request, host, processes, document, buffer, reader, overflow>>

\* A child of the parser: in its process group, or in a session of its own.
Spawn ==
  /\ IsProcess /\ parser.state = "running" /\ helper = "none"
  /\ helper' \in {"group", "session"}
  /\ UNCHANGED <<request, host, parser, container, missed, streams>>

HelperEnds ==
  /\ helper # "none"
  /\ helper' = "none"
  /\ UNCHANGED <<request, host, parser, container, missed, streams>>

\* The process closes its streams and goes on.
CloseStreams ==
  /\ parser.state = "running"
  /\ parser' = [parser EXCEPT !.state = "closed"]
  /\ UNCHANGED <<request, host, helper, container, missed, streams>>

\* The exit code of the docker client is that of the container, or the client's
\* own when there is none; --rm removes the container.
Exit ==
  /\ parser.state \in {"running", "closed"}
  /\ \E code \in {0, 1, 2} :
       /\ parser' = [state |-> "exited", exit |-> code]
       /\ IsContainer /\ code # 1 => container = "running" /\ document > 0
  /\ container' = IF container = "none" THEN "none" ELSE "removed"
  /\ UNCHANGED <<request, host, helper, missed, streams>>

\* A container whose client was killed goes on until worker.py ends.
OrphanEnds ==
  /\ container = "running" /\ parser.state = "exited"
  /\ container' = "removed"
  /\ UNCHANGED <<request, host, parser, helper, missed, streams>>

-----------------------------------------------------------------------------
(* The reader threads *)

AtEOF == parser.state \in {"closed", "exited"} /\ helper = "none"

Read(s) ==
  /\ reader[s] = "reading"
  /\ \/ /\ buffer[s] < written[s] /\ buffer[s] < Limit
        /\ buffer' = [buffer EXCEPT ![s] = @ + 1]
        /\ UNCHANGED <<reader, overflow>>
     \/ /\ buffer[s] < written[s] /\ buffer[s] = Limit
        /\ reader' = [reader EXCEPT ![s] = "done"]
        /\ overflow' = IF overflow = "none" THEN s ELSE overflow
        /\ UNCHANGED buffer
     \/ /\ buffer[s] = written[s] /\ AtEOF
        /\ reader' = [reader EXCEPT ![s] = "done"]
        /\ UNCHANGED <<buffer, overflow>>
  /\ UNCHANGED <<request, host, processes, document, written>>

Completed == \A s \in Stream : reader[s] = "done"

-----------------------------------------------------------------------------
(* The host *)

WallTimeout ==
  /\ phase \in {"polling", "polled"} /\ ~expired
  /\ expired' = TRUE
  /\ UNCHANGED <<request, phase, boundary, outcome, processes, streams>>

OverflowCode ==
  IF IsContainer /\ overflow = "stdout" THEN "PARSER_OUTPUT_LIMIT"
                                        ELSE "PARSER_LOG_LIMIT"

PollOverflow ==
  /\ phase = "polling"
  /\ IF overflow # "none" THEN phase' = "killing" /\ boundary' = OverflowCode
                          ELSE phase' = "polled" /\ UNCHANGED boundary
  /\ UNCHANGED <<request, expired, outcome, processes, streams>>

ProcessDone == parser.state = "exited" /\ Completed

\* Fault: the host goes by one of the readers.
ContainerDoneEarly == \E s \in Stream : reader[s] = "done"

ContainerDone == Completed

\* Fault: no deadline.
NeverLate == FALSE

Late == expired

\* The process harness looks at the deadline first, the container runner at the
\* readers; the container runner does not look at the process.
PollRest ==
  LET done == IF IsProcess THEN ProcessDone /\ ~Late ELSE ContainerDone
      late == Late /\ ~done
  IN  /\ phase = "polled"
      /\ phase' = IF done THEN "waiting" ELSE IF late THEN "killing" ELSE "polling"
      /\ boundary' = IF late THEN "PARSER_TIMEOUT" ELSE boundary
      /\ UNCHANGED <<request, expired, outcome, processes, streams>>

\* _kill_process: the group of the parser gets SIGKILL.
KillGroup ==
  /\ phase = "killing" /\ IsProcess
  /\ phase' = "waiting"
  /\ parser' = IF parser.state = "exited" THEN parser
               ELSE [state |-> "exited", exit |-> 137]
  /\ helper' = IF helper = "group" THEN "none" ELSE helper
  /\ UNCHANGED <<request, boundary, expired, outcome, container, missed, streams>>

\* Fault: only the docker client is killed.
NoRemoval == UNCHANGED <<container, missed>>

\* docker rm --force
Removal ==
  IF container \in {"created", "running"}
    THEN container' = "removed" /\ UNCHANGED missed
    ELSE missed' = (container = "none") /\ UNCHANGED container

RemoveContainer ==
  /\ phase = "killing" /\ IsContainer
  /\ Removal
  /\ phase' = "removed"
  /\ UNCHANGED <<request, boundary, expired, outcome, parser, helper, streams>>

\* rm does not answer within its ten seconds: TimeoutExpired is not caught.
RemovalTimesOut ==
  /\ phase = "killing" /\ IsContainer
  /\ phase' = "raised"
  /\ UNCHANGED <<request, boundary, expired, outcome, processes, streams>>

KillClient ==
  /\ phase = "removed"
  /\ phase' = "waiting"
  /\ parser' = IF parser.state = "exited" THEN parser
               ELSE [state |-> "exited", exit |-> 137]
  /\ UNCHANGED <<request, boundary, expired, outcome, helper, container, missed,
                 streams>>

\* process.wait: SIGKILL ends a process, so a wait only runs out for a docker
\* client that closed its streams and stayed.
WaitEnds ==
  /\ phase = "waiting"
  /\ parser.state = "exited"
  /\ phase' = IF IsProcess THEN "closing" ELSE "judging"
  /\ UNCHANGED <<request, boundary, expired, outcome, processes, streams>>

WaitTimesOut ==
  /\ phase = "waiting" /\ IsContainer
  /\ parser.state # "exited"
  /\ phase' = "killing"
  /\ boundary' = "PARSER_TIMEOUT"
  /\ UNCHANGED <<request, expired, outcome, processes, streams>>

\* Closing a stream waits for the thread that is reading it.
ClosePipes ==
  /\ phase = "closing"
  /\ Completed
  /\ phase' = "judging"
  /\ UNCHANGED <<request, boundary, expired, outcome, processes, streams>>

\* The codes of the process harness, in the order of its tests; file is what the
\* output directory holds, intact whether the staged input still is.
ProcessVerdict(file, intact, p) ==
  IF boundary # "none" THEN boundary
  ELSE IF parser.exit \notin {0, 2} THEN "PARSER_CRASH"
  ELSE IF \E s \in Stream : buffer[s] > 0 THEN "PARSER_LOG_OUTPUT"
  ELSE IF ~intact THEN "STAGED_INPUT_TAMPERED"
  ELSE IF file = "too_large" THEN "PARSER_OUTPUT_TOO_LARGE"
  ELSE IF file # "result" \/ ~ValidPhase1Payload(p, request) THEN "INVALID_PARSER_OUTPUT"
  ELSE IF parser.exit # (IF p.ok THEN 0 ELSE 2) THEN "PARSER_EXIT_MISMATCH"
  ELSE IF p.ok THEN "none" ELSE "PARSER_REPORTED_FAILURE"

JudgeProcess ==
  /\ phase = "judging" /\ IsProcess
  /\ \E file \in {"result", "too_large", "other"}, intact \in BOOLEAN, p \in Envelope :
       LET code == ProcessVerdict(file, intact, p)
       IN  IF code = "none" THEN Succeed ELSE Fail(code, p.retryable)
  /\ UNCHANGED <<request, boundary, expired, processes, streams>>

\* The proper prefix of a JSON object is no JSON; a probe has its own envelope, which
\* knows no failure.
ContainerAccepts(p) ==
  /\ buffer["stdout"] >= document /\ document \in 1 .. Limit
  /\ IF request.probe = "none" THEN validate_parser_payload(p, request.source, request.media)
                               ELSE p.json /\ p.header /\ p.ok

ContainerVerdict(p) ==
  IF boundary # "none" THEN boundary
  ELSE IF parser.exit \notin {0, 2} THEN "PARSER_CRASH"
  ELSE IF buffer["stderr"] > 0 THEN "PARSER_LOG_OUTPUT"
  ELSE IF ~ContainerAccepts(p) THEN "INVALID_PARSER_OUTPUT"
  ELSE IF parser.exit # (IF p.ok THEN 0 ELSE 2) THEN "PARSER_CRASH"
  ELSE IF p.ok THEN "none" ELSE p.code

\* DockerSandboxAdapter takes a result only with the approved extraction profile.
AdapterVerdict(p) ==
  LET code == ContainerVerdict(p)
  IN  IF code = "none" /\ request.probe = "none" /\ p.profile # ApprovedProfile
        THEN "INVALID_PARSER_OUTPUT" ELSE code

JudgeContainer ==
  /\ phase = "judging" /\ IsContainer
  /\ \E p \in Envelope :
       LET code == AdapterVerdict(p)
       IN  IF code = "none" THEN Succeed ELSE Fail(code, p.retryable)
  /\ UNCHANGED <<request, boundary, expired, processes, streams>>

Done == phase \in Ended /\ UNCHANGED sandboxVars

World ==
  \/ Create \/ StartContainer \/ WriteOutput \/ Spawn \/ HelperEnds \/ CloseStreams
  \/ Exit \/ OrphanEnds
  \/ \E s \in Stream : Chatter(s)

Start == TooLarge \/ Refused \/ LaunchFails \/ Launch
Poll == PollOverflow \/ PollRest
Kill == KillGroup \/ RemoveContainer \/ RemovalTimesOut \/ KillClient
Finish == WaitEnds \/ WaitTimesOut \/ ClosePipes \/ JudgeProcess \/ JudgeContainer
Host == Start \/ Poll \/ Kill \/ Finish

SandboxNext == World \/ Host \/ WallTimeout \/ (\E s \in Stream : Read(s)) \/ Done

SandboxSpec == SandboxInit /\ [][SandboxNext]_sandboxVars

\* Time passes, and the threads of the host run.  Nothing is asked of the parser.
FairSandboxSpec ==
  /\ SandboxSpec
  /\ WF_sandboxVars(Host)
  /\ WF_sandboxVars(WallTimeout)
  /\ \A s \in Stream : WF_sandboxVars(Read(s))

-----------------------------------------------------------------------------
(* Properties *)

\* A job succeeds only on an answer that was read to its end and on nothing else:
\* the parser left by itself with code 0, the harness of processes heard nothing on
\* the streams, the container runner has the whole document and nothing on stderr,
\* whatever the threads did between two tests of the host.  And a parser that the host
\* stopped for being late is never blamed for it: the job is to be tried again.
VerdictIsFair ==
  /\ outcome.target = "succeeded" =>
       /\ parser = [state |-> "exited", exit |-> 0]
       /\ boundary = "none"
       /\ IF IsProcess THEN \A s \in Stream : written[s] = 0
                       ELSE buffer["stdout"] >= document /\ written["stderr"] = 0
  /\ phase = "returned" /\ boundary = "PARSER_TIMEOUT" =>
       outcome.target = "failed_retryable"

\* worker.py bounds its document by the limit of the host and adds a newline, so a
\* document of exactly the limit can be refused as too long, and no shorter one.
OnlyTheExactLimitIsLost ==
  outcome.code = "PARSER_OUTPUT_LIMIT" /\ request.probe # "output" =>
    document = Limit

\* A container outlives execute_sandbox only if rm came before the docker client had
\* created it, or did not answer.
SurvivorOnlyFromStartup ==
  phase = "returned" /\ container \in {"created", "running"} => missed

\* execute_sandbox comes back whatever the parser does, unless a descendant outside
\* the process group keeps a stream open: closing it waits for the reader.
ReturnsUnlessHeld == []<>(phase \in Ended \/ helper = "session")

\* What the validator of the container accepts, that of the process harness accepts
\* as well: the two were written separately for one protocol.
ProtocolsAgree ==
  \A p \in Envelope :
    validate_parser_payload(p, request.source, request.media)
      => ValidPhase1Payload(p, request)
===============================================================================
