---------------------------- MODULE MergedDocument ----------------------------
(***************************************************************************)
(* The merged document of a talk session (merged_document_service.py):     *)
(* members load it into an editor (pages/Editor.tsx), change it and save   *)
(* it under the version they loaded, or keep it as a named version, while  *)
(* the suggestion worker inserts an AI draft as its first version          *)
(* (automatic_report_suggestions.py), and while the session is reopened    *)
(* and closed again, so that a newer report appears under the same session.*)
(*                                                                         *)
(* A request reads in one statement which report the session has, and the  *)
(* row of that report in a later one: two actions.  The row is locked, or  *)
(* the unique index decides, so the second statement and the write are one.*)
(***************************************************************************)
EXTENDS Naturals, FiniteSets

CONSTANTS
  Member,       \* members with an editor open on the session
  MaxEpoch,     \* bound on the closes of the session
  MaxVersion,   \* bound on the version of a document
  MaxNamed      \* bound on the named versions

ASSUME DocumentAssumption ==
  /\ {"summary", "draft"} \cap Member = {}
  /\ {MaxEpoch, MaxVersion, MaxNamed} \subseteq Nat \ {0}

VARIABLES
  generated,  \* generated[e]: the kinds of the succeeded runs of epoch e
  epoch,      \* talk_sessions.generation_epoch
  documents,  \* merged_document_states, one row for a report; version 0: no row
  named,      \* merged_document_version_snapshots
  editor,     \* what each member's browser holds
  request     \* the request each member is waiting for

vars == <<generated, epoch, documents, named, editor, request>>

Kind == {"summary", "research"}
Epoch == 1 .. MaxEpoch

\* What a document is made of: the summary it started from, the AI draft, and
\* what each save has added.
Contribution ==
  [epoch : Epoch, by : Member \cup {"summary", "draft"}, version : 0 .. MaxVersion]

\* A copy of the document of one report, as the server returns it.
Copy == [epoch : Epoch, version : 0 .. MaxVersion, blocks : SUBSET Contribution]
NoCopy == [epoch |-> 0, version |-> 0, blocks |-> {}]

\* cache is the answer of the last query; shown is what the member edits, and
\* shown.version is the version the editor was last synchronised with.
Editor == [cache : Copy \cup {NoCopy}, shown : Copy \cup {NoCopy}]
EmptyEditor == [cache |-> NoCopy, shown |-> NoCopy]

NoRequest == [operation |-> "none", report |-> 0]

TypeOK ==
  /\ generated \in [Epoch -> SUBSET Kind]
  /\ epoch \in Epoch
  /\ documents \in [Epoch -> [version : 0 .. MaxVersion, blocks : SUBSET Contribution]]
  /\ named \subseteq Copy
  /\ editor \in [Member -> Editor]
  /\ request \in [Member -> [operation : {"load", "save", "name"}, report : Epoch]
                              \cup {NoRequest}]

Init ==
  /\ generated = [e \in Epoch |-> {}]
  /\ epoch = 1
  /\ documents = [e \in Epoch |-> [version |-> 0, blocks |-> {}]]
  /\ named = {}
  /\ editor = [m \in Member |-> EmptyEditor]
  /\ request = [m \in Member |-> NoRequest]

-------------------------------------------------------------------------------
(* The session *)

\* The host reopened the session and closes it again.  When that is possible is
\* the business of GenerationSession.
NextEpoch ==
  /\ epoch < MaxEpoch
  /\ epoch' = epoch + 1
  /\ UNCHANGED <<generated, documents, named, editor, request>>

\* A run of an earlier epoch may still succeed late (GenerationSession).
RunSucceeds(e, kind) ==
  /\ e <= epoch
  /\ generated' = [generated EXCEPT ![e] = @ \cup {kind}]
  /\ UNCHANGED <<epoch, documents, named, editor, request>>

\* The epochs whose snapshot has both documents.
Complete == {e \in Epoch : generated[e] = Kind}

\* The report of the session: the newest complete one.
Report == CHOOSE e \in Complete : \A other \in Complete : other <= e

\* Fault: ON CONFLICT DO UPDATE.
DraftOverwrites(e) ==
  /\ e \in Complete
  /\ documents' = [documents EXCEPT ![e] =
                     [version |-> 1,
                      blocks |-> {[epoch |-> e, by |-> "draft", version |-> 1]}]]
  /\ UNCHANGED <<generated, epoch, named, editor, request>>

\* The suggestion worker, once for a complete snapshot: ON CONFLICT DO NOTHING.
InsertDraft(e) ==
  /\ e \in Complete
  /\ documents[e].version = 0
  /\ documents' = [documents EXCEPT ![e] =
                     [version |-> 1,
                      blocks |-> {[epoch |-> e, by |-> "draft", version |-> 1]}]]
  /\ UNCHANGED <<generated, epoch, named, editor, request>>

-------------------------------------------------------------------------------
(* The members *)

\* load_report_identity, the first statement of every request.
Begin(m, operation) ==
  /\ request[m] = NoRequest
  /\ Complete # {}
  /\ request' = [request EXCEPT ![m] = [operation |-> operation, report |-> Report]]
  /\ UNCHANGED <<generated, epoch, documents, named, editor>>

\* A save carries the version of the cached answer.
BeginSave(m) ==
  /\ editor[m].shown # NoCopy
  /\ editor[m].cache.version < MaxVersion
  /\ Begin(m, "save")

BeginName(m) == Cardinality(named) < MaxNamed /\ Begin(m, "name")

Answer(m) == request' = [request EXCEPT ![m] = NoRequest]

\* What get returns for a report: its row, or a baseline made of the summary of
\* the session's current epoch.  The list of sources that get appends to a draft
\* without one is part of the draft here.
Current(report) ==
  IF documents[report].version > 0
    THEN [epoch |-> report, version |-> documents[report].version,
          blocks |-> documents[report].blocks]
    ELSE [epoch |-> report, version |-> 0,
          blocks |-> {[epoch |-> epoch, by |-> "summary", version |-> 0]}]

\* Without a row, get needs the summary of the current epoch, or else it fails.
Available(report) == documents[report].version > 0 \/ "summary" \in generated[epoch]

\* Fault: the editor keeps what the member has typed, whatever is loaded.
KeepsTyping(old, copy) == IF old # NoCopy THEN old ELSE copy

\* The editor takes over the blocks only when the version number differs from
\* the one it was synchronised with.
Synchronised(old, copy) == IF old # NoCopy /\ old.version = copy.version THEN old ELSE copy

EndLoad(m) ==
  /\ request[m].operation = "load"
  /\ LET copy == Current(request[m].report)
     IN  editor' = IF Available(request[m].report)
                     THEN [editor EXCEPT ![m] =
                             [cache |-> copy, shown |-> Synchronised(@.shown, copy)]]
                     ELSE editor
  /\ Answer(m)
  /\ UNCHANGED <<generated, epoch, documents, named>>

\* The version matches the row (or 0 and there is no row): the document becomes
\* what the member shows, with the edit, and the editor takes the answer over.
EndSave(m) ==
  LET report == request[m].report
      expected == editor[m].cache.version
      copy == [epoch |-> report, version |-> expected + 1,
               blocks |-> editor[m].shown.blocks
                            \cup {[epoch |-> report, by |-> m, version |-> expected + 1]}]
  IN  /\ request[m].operation = "save"
      /\ documents[report].version = expected
      /\ documents' = [documents EXCEPT ![report] =
                         [version |-> copy.version, blocks |-> copy.blocks]]
      /\ editor' = [editor EXCEPT ![m] = [cache |-> copy, shown |-> copy]]
      /\ Answer(m)
      /\ UNCHANGED <<generated, epoch, named>>

\* MergedDocumentStaleVersionError, or the unique index when two first saves
\* meet: the editor keeps what it has.
RefuseSave(m) ==
  /\ request[m].operation = "save"
  /\ documents[request[m].report].version # editor[m].cache.version
  /\ Answer(m)
  /\ UNCHANGED <<generated, epoch, documents, named, editor>>

\* create_version keeps what get returns, for ever.  It inserts the copy in a
\* later transaction, which nothing else reads: one step.
EndName(m) ==
  /\ request[m].operation = "name"
  /\ named' = IF Available(request[m].report)
                THEN named \cup {Current(request[m].report)}
                ELSE named
  /\ Answer(m)
  /\ UNCHANGED <<generated, epoch, documents, editor>>

\* The page is closed or reloaded.
Leave(m) ==
  /\ editor[m] # EmptyEditor
  /\ editor' = [editor EXCEPT ![m] = EmptyEditor]
  /\ request' = [request EXCEPT ![m] = NoRequest]
  /\ UNCHANGED <<generated, epoch, documents, named>>

Next ==
  \/ NextEpoch
  \/ \E e \in Epoch : InsertDraft(e) \/ \E kind \in Kind : RunSucceeds(e, kind)
  \/ \E m \in Member :
       \/ Begin(m, "load") \/ BeginSave(m) \/ BeginName(m)
       \/ EndLoad(m) \/ EndSave(m) \/ RefuseSave(m) \/ EndName(m)
       \/ Leave(m)

Spec == Init /\ [][Next]_vars

-------------------------------------------------------------------------------
(* Safety *)

\* Optimistic concurrency: whoever holds the current version of a report's
\* document holds its current blocks, so a matching expected_version means that
\* nothing was saved in between.
VersionIdentifiesBlocks ==
  \A m \in Member :
    LET cache == editor[m].cache
    IN  cache.version > 0 /\ documents[cache.epoch].version = cache.version
          => documents[cache.epoch].blocks = cache.blocks

\* A named version is a true copy: it never differs from the document that has,
\* or will ever have, its version, nor from another copy of that version.
NamedVersionsAreTrue ==
  \A copy \in named :
    copy.version > 0 =>
      /\ documents[copy.epoch].version >= copy.version
      /\ documents[copy.epoch].version = copy.version
           => documents[copy.epoch].blocks = copy.blocks
      /\ \A other \in named :
           other.epoch = copy.epoch /\ other.version = copy.version => other = copy

\* A version is a version of one text, in an editor, in the document and in its named
\* copies alike.
OneVersionOneText == VersionIdentifiesBlocks /\ NamedVersionsAreTrue

\* The step is the save of a member whose blocks are those of another report.
SavedFromElsewhere(m, e) ==
  /\ request[m] = [operation |-> "save", report |-> e]
  /\ request'[m] = NoRequest
  /\ editor[m].shown.epoch # e

\* Whatever changes the document of a report, nothing that was saved there is
\* lost by a member whose blocks are a copy of that report, nor by the AI draft.
SavesBuildOnTheirReport ==
  [][\A e \in Epoch :
       \/ documents[e].blocks \subseteq documents'[e].blocks
       \/ \E m \in Member : SavedFromElsewhere(m, e)]_vars

-------------------------------------------------------------------------------
(* What the documents say and the code does not do *)

\* The module's docstring: two collaborators editing at once get a clear
\* conflict instead of a silent overwrite.
NoSilentOverwrite ==
  [][\A e \in Epoch : documents[e].blocks \subseteq documents'[e].blocks]_vars

\* The docstring of reopen: every prior document keeps working from its own
\* snapshot.  So what a member sees as the document of a report that nobody has
\* edited yet is that report's summary.
BaselineIsOfItsReport ==
  \A m \in Member :
    LET cache == editor[m].cache
    IN  cache # NoCopy /\ cache.version = 0
          => \A block \in cache.blocks : block.epoch = cache.epoch
===============================================================================
