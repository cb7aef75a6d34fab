------------------------------- MODULE Routes -------------------------------
(* The HTTP routes of contracts.py as a table: how a route authenticates, the  *)
(* typed failures that the service behind it raises, and the ones it catches   *)
(* and hands to _raise_service_problem.  A failure is named after its class.   *)
(* Paths, payloads and the views of the answers are left out.                  *)
EXTENDS Naturals, TLC

Route(auth, raises, caught) == [auth |-> auth, raises |-> raises, caught |-> caught]

(* Most routes catch just what their service raises.                           *)
Read(raises) == Route("read", raises, raises)
Mutation(raises) == Route("mutation", raises, raises)

AccountRoutes ==
  [register |-> Route("pre_auth", {"EmailAlreadyRegisteredError", "RegistrationValidationError"},
                                  {"EmailAlreadyRegisteredError", "RegistrationValidationError"}),
   login    |-> Route("pre_auth", {"InvalidCredentialsError"},
                                  {"InvalidCredentialsError", "SessionAuthenticationError"}),
   logout   |-> Mutation({"SessionAuthenticationError"}),
   getMe    |-> Read({}),
   getCsrf  |-> Read({"SessionAuthenticationError"})]

FriendRoutes ==
  [createFriendRequest |-> Route("mutation",
     {"FriendshipConflictError", "UserUnavailableError", "CollaborationError"},
     {"CollaborationAccessError", "CollaborationError", "FriendshipConflictError",
      "UserUnavailableError"}),
   listFriendRequests |-> Read({}),
   acceptFriendRequest |-> Mutation({"CollaborationAccessError", "FriendshipStateError"}),
   rejectFriendRequest |-> Mutation({"CollaborationAccessError", "FriendshipStateError"}),
   listFriends |-> Read({})]

RoomRoutes ==
  [createRoom |-> Mutation({"CollaborationError"}),
   listRooms |-> Read({}),
   listRoomMembers |-> Read({"CollaborationAccessError"}),
   leaveRoom |-> Mutation({"CollaborationAccessError", "CollaborationHostRequiredError"}),
   createRoomInvitation |-> Mutation(
     {"CollaborationAccessError", "CollaborationHostRequiredError", "FriendshipRequiredError",
      "FriendshipConflictError", "UserUnavailableError"})]

TalkRoutes ==
  [createTalkSession |-> Mutation(
     {"CollaborationAccessError", "CollaborationHostRequiredError", "CollaborationError"}),
   listTalkSessions |-> Read({"CollaborationAccessError"}),
   getTalkSession |-> Read({"SessionUnavailableError"}),
   archiveTalkSession |-> Mutation({"SessionUnavailableError", "CollaborationHostRequiredError"})]

TextRoutes ==
  [submitText |-> Mutation({"TextSubmissionAccessError", "TextSubmissionStateError",
                            "TextSubmissionLimitError", "TextSubmissionError"}),
   listSessionSubmissions |-> Read({"TextSubmissionAccessError"})]

RevisionRoutes ==
  [replaceTextSubmission |-> Mutation({"TextSubmissionAccessError", "TextSubmissionOwnerError",
                                       "TextSubmissionStateError", "TextSubmissionError"}),
   deleteSubmission |-> Route("mutation",
     {"TextSubmissionAccessError", "TextSubmissionOwnerError", "TextSubmissionStateError"},
     {"TextSubmissionAccessError", "TextSubmissionOwnerError", "TextSubmissionStateError",
      "TextSubmissionError"})]

(* submit takes its title through the text service's _validated_title.         *)
UploadRoutes ==
  [submitFile |-> Route("mutation",
     {"FileSubmissionAccessError", "FileSubmissionStateError", "FileSubmissionValidationError",
      "FileSubmissionLimitError", "FileSubmissionError", "TextSubmissionError"},
     {"FileSubmissionLimitError", "FileSubmissionAccessError", "FileSubmissionStateError",
      "FileSubmissionValidationError", "FileSubmissionError"})]

FileRoutes ==
  [downloadSourceOriginal |-> Route("read", {"FileSubmissionAccessError"},
     {"FileSubmissionAccessError", "FileSubmissionError"}),
   retryExtraction |-> Route("mutation", {"FileSubmissionAccessError", "FileSubmissionStateError"},
     {"FileSubmissionAccessError", "FileSubmissionError"}),
   getSourcePreview |-> Route("read", {"FileSubmissionAccessError", "FileSubmissionStateError"},
     {"FileSubmissionAccessError", "FileSubmissionError"})]

SourceRoutes ==
  [getSourceViewer |-> Read({"TextSubmissionAccessError", "TextViewerUnavailableError"}),
   searchSessionSources |-> Read({"SourceRetrievalAccessError", "ValueError"}),
   compareSessionDocuments |-> Read({"DocumentComparisonAccessError", "ValueError"})]

SessionRoutes ==
  [closeSession |-> Mutation(
     {"SessionAccessError", "SessionHostRequiredError", "CloseBlockedError", "SessionStateError",
      "ExtractionRunMissingError", "ExtractionAnchorSchemaMismatchError"}),
   reopenSession |-> Mutation({"SessionAccessError", "SessionHostRequiredError", "SessionStateError"}),
   retrySession |-> Mutation({"SessionRetryAccessError", "SessionRetryHostRequiredError",
                              "SessionRetryUnavailableError"})]

ResultRoutes ==
  [getSessionSummary |-> Read({"GenerationDocumentUnavailableError"}),
   getSessionResearch |-> Read({"GenerationDocumentUnavailableError"}),
   getSessionReport |-> Read({"GenerationDocumentUnavailableError"})]

CitationRoutes ==
  [resolveCitation |-> Read({"CitationUnavailableError", "CitationResolverInvariantError"}),
   getWebEvidence |-> Read({"CitationUnavailableError", "CitationResolverInvariantError"}),
   resolveSourceAnchor |-> Read({"CitationUnavailableError", "CitationResolverInvariantError"})]

MergedRoutes ==
  [getMergedDocument |-> Read({"MergedDocumentAccessError", "ValueError"}),
   saveMergedDocument |-> Mutation({"MergedDocumentAccessError", "MergedDocumentStaleVersionError",
                                    "ValueError"}),
   listMergedDocumentVersions |-> Route("read", {"MergedDocumentAccessError"},
                                                {"MergedDocumentAccessError", "ValueError"}),
   createMergedDocumentVersion |-> Mutation({"MergedDocumentAccessError", "ValueError"}),
   getMergedDocumentVersion |-> Read({"MergedDocumentAccessError", "ValueError"})]

(* The AI's edit authenticates on a connection of its own and then works on    *)
(* another one; its provider's failures are answered with 502.                 *)
SuggestionRoutes ==
  [listReportSuggestions |-> Read({"ReportSuggestionAccessError"}),
   createReportSuggestion |-> Route("mutation",
     {"ReportSuggestionAccessError", "ReportSuggestionStateError", "ValueError"},
     {"ReportSuggestionAccessError", "ValueError"}),
   runGrokEditTask |-> Mutation({"ReportSuggestionAccessError", "ReportSuggestionStateError",
                                 "ValueError", "GrokProviderError"}),
   resolveReportSuggestion |-> Mutation({"ReportSuggestionAccessError", "ReportSuggestionStateError",
                                         "ValueError"})]

ProjectRoutes == [suggestProjectDescriptions |-> Mutation({"GrokProviderError"})]

NotificationRoutes ==
  [listNotifications |-> Read({"PermissionError", "ValueError"}),
   readNotification |-> Mutation({"ApiProblem404"}),
   readAllNotifications |-> Mutation({}),
   listMyEmailOutbox |-> Read({"PermissionError", "ValueError"})]

AuditRoutes == [listAuditEvents |-> Read({"PermissionError", "ValueError"})]

ProfileRoutes ==
  [getMyProfile |-> Read({"ProfileInvariantError"}),
   updateProfile |-> Mutation({"StaleProfileVersionError", "ProfileInvariantError", "ValueError"}),
   getMyNotificationPreferences |-> Read({"ProfileInvariantError"}),
   updateNotificationPreferences |-> Mutation(
     {"StaleProfileVersionError", "ProfileInvariantError", "ValueError"})]

CommentRoutes ==
  [listSessionComments |-> Read({"PermissionError", "ValueError"}),
   createComment |-> Mutation({"PermissionError", "CommentReplayConflictError", "ValueError"}),
   updateComment |-> Mutation({"PermissionError", "CommentReplayConflictError", "ValueError"}),
   deleteComment |-> Route("mutation", {"PermissionError", "CommentReplayConflictError"},
                           {"PermissionError", "CommentReplayConflictError", "ValueError"})]

Table ==
  AccountRoutes @@ FriendRoutes @@ ProjectRoutes @@ RoomRoutes @@ TalkRoutes @@ TextRoutes
    @@ UploadRoutes @@ RevisionRoutes @@ FileRoutes @@ SourceRoutes @@ SessionRoutes
    @@ ResultRoutes @@ MergedRoutes @@ SuggestionRoutes @@ CitationRoutes
    @@ NotificationRoutes @@ ProfileRoutes @@ CommentRoutes @@ AuditRoutes

------------------------------------------------------------------------------
(* The classes that derive from another class of this module's failures; the   *)
(* others derive from none.                                                    *)
Bases ==
  [FriendshipConflictError |-> {"CollaborationError", "ValueError"},
   FriendshipStateError |-> {"CollaborationError", "ValueError"},
   UserUnavailableError |-> {"CollaborationError", "ValueError"},
   CollaborationError |-> {"ValueError"},
   SessionUnavailableError |-> {"CollaborationAccessError", "PermissionError"},
   TextSubmissionError |-> {"ValueError"},
   TextSubmissionStateError |-> {"TextSubmissionError", "ValueError"},
   TextSubmissionLimitError |-> {"TextSubmissionError", "ValueError"},
   TextViewerUnavailableError |-> {"TextSubmissionError", "ValueError"},
   FileSubmissionError |-> {"ValueError"},
   FileSubmissionStateError |-> {"FileSubmissionError", "ValueError"},
   FileSubmissionValidationError |-> {"FileSubmissionError", "ValueError"},
   FileSubmissionLimitError |-> {"FileSubmissionValidationError", "FileSubmissionError", "ValueError"},
   ReportSuggestionStateError |-> {"ValueError"},
   MergedDocumentStaleVersionError |-> {"ValueError"},
   StaleProfileVersionError |-> {"ValueError"},
   CommentReplayConflictError |-> {"ValueError"},
   RegistrationValidationError |-> {"ValueError"},
   EmailAlreadyRegisteredError |-> {"ValueError"}]

IsA(failure, class) ==
  failure = class \/ (failure \in DOMAIN Bases /\ class \in Bases[failure])

Unauthenticated == {"InvalidCredentialsError", "SessionAuthenticationError"}

Forbidden ==
  {"SecurityPolicyError", "CollaborationHostRequiredError", "FriendshipRequiredError",
   "TextSubmissionOwnerError", "SessionHostRequiredError", "SessionRetryHostRequiredError"}

(* The remaining permission errors are answered as if nothing were there.      *)
Unavailable ==
  {"CollaborationAccessError", "DocumentComparisonAccessError", "FileSubmissionAccessError",
   "SessionUnavailableError", "TextSubmissionAccessError", "SessionAccessError",
   "SessionRetryAccessError", "CitationUnavailableError", "CitationResolverInvariantError",
   "GenerationDocumentUnavailableError", "ReportSuggestionAccessError",
   "SourceRetrievalAccessError", "UserUnavailableError", "MergedDocumentAccessError",
   "PermissionError", "ApiProblem404"}

Conflicting ==
  {"EmailAlreadyRegisteredError", "StaleProfileVersionError", "CommentReplayConflictError",
   "MergedDocumentStaleVersionError", "FriendshipConflictError", "FileSubmissionLimitError",
   "FileSubmissionStateError", "FriendshipStateError", "TextSubmissionStateError",
   "TextSubmissionLimitError", "CloseBlockedError", "SessionStateError",
   "ExtractionRunMissingError", "ExtractionAnchorSchemaMismatchError",
   "SessionRetryUnavailableError", "ReportSuggestionStateError", "TextViewerUnavailableError"}

(* The order of the tests of _raise_service_problem.                           *)
_raise_service_problem(failure) ==
  IF failure \in Unauthenticated THEN 401
  ELSE IF failure \in Forbidden THEN 403
  ELSE IF failure \in Unavailable THEN 404
  ELSE IF failure \in Conflicting THEN 409
  ELSE IF failure = "ProfileInvariantError" THEN 500
  ELSE IF failure = "GrokProviderError" THEN 502
  ELSE IF IsA(failure, "ValueError") THEN 422
  ELSE 500

(* What a route answers when its service fails: 500 where it catches neither   *)
(* the failure nor a class it derives from.                                    *)
StatusOf(operation, failure) ==
  IF \E class \in Table[operation].caught : IsA(failure, class)
    THEN _raise_service_problem(failure)
  ELSE 500
==============================================================================
