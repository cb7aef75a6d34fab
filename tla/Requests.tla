------------------------------ MODULE Requests ------------------------------
(* Accounts, browser sessions and the life of a request (auth_service.py,      *)
(* security.py, db.py and the helpers of contracts.py), over the routes of     *)
(* Routes.                                                                     *)
(*                                                                             *)
(* A request opens a connection, authenticates, runs its service and closes    *)
(* the connection, which commits; each is a step, and the steps of different   *)
(* requests interleave.  Authentication reads the session without a lock.      *)
(* The AI's edit commits between authentication and work; so does every route  *)
(* here, which allows more interleavings and changes no answer.                *)
EXTENDS Routes, FiniteSets, Sequences

CONSTANTS
  Client,       \* browsers
  Account,      \* the account each browser signs in to
  MaxSessions,  \* bound on the sign-ins
  None          \* no session, no client

ASSUME RequestsAssumption ==
  /\ MaxSessions \in Nat
  /\ None \notin Client

VARIABLES
  sessions,     \* auth_sessions in the order of their commits: [user, live]
  userLock,     \* users: the sign-in that holds the row FOR UPDATE
  cookie,       \* the session token each browser holds
  csrf,         \* the session that each browser's page has its CSRF token of
  request,      \* the request of each browser
  written       \* what committed: <<user, session>>

vars == <<sessions, userLock, cookie, csrf, request, written>>

User == {Account[c] : c \in Client}
Token == DOMAIN sessions

Idle == [stage |-> "idle"]

Init ==
  /\ sessions = << >>
  /\ userLock = [u \in User |-> None]
  /\ cookie = [c \in Client |-> None]
  /\ csrf = [c \in Client |-> None]
  /\ request = [c \in Client |-> Idle]
  /\ written = {}

(* Fault: the row of the token is enough.                                      *)
AuthenticAnyRow(token) == token # None

(* authenticate: the token's row, not revoked and not expired.                 *)
Authentic(token) == token # None /\ sessions[token].live

(* The answer is ready; an unexpected one keeps what caused it.                *)
Closed(status, failure) ==
  [stage |-> "closed", status |-> status,
   failure |-> IF status = 500 THEN failure ELSE "none"]

------------------------------------------------------------------------------
(* Fault: the row of the user is not locked.                                   *)
NotHeld(u) == TRUE

RowFree(u) == userLock[u] = None

(* login: the row of the user is locked, the active sessions are read, and     *)
(* revoked together with the insertion of the new one.                         *)

LiveSessions(u) == {t \in Token : sessions[t].user = u /\ sessions[t].live}

login(c) ==
  LET u == Account[c]
  IN  /\ request[c] = Idle
      /\ Len(sessions) + Cardinality({d \in Client : request[d].stage = "login"}) < MaxSessions
      /\ RowFree(u)
      /\ userLock' = [userLock EXCEPT ![u] = c]
      /\ request' = [request EXCEPT ![c] = [stage |-> "login", revoked |-> LiveSessions(u)]]
      /\ UNCHANGED <<sessions, cookie, csrf, written>>

(* The commit, whose answer brings the cookie.                                 *)
LoginCommits(c) ==
  /\ request[c].stage = "login"
  /\ sessions' = Append([t \in Token |->
                           IF t \in request[c].revoked THEN [sessions[t] EXCEPT !.live = FALSE]
                                                       ELSE sessions[t]],
                        [user |-> Account[c], live |-> TRUE])
  /\ userLock' = [userLock EXCEPT ![Account[c]] = None]
  /\ request' = [request EXCEPT ![c] = [stage |-> "cookie", token |-> Len(sessions) + 1]]
  /\ UNCHANGED <<cookie, csrf, written>>

LoginFails(c) ==
  /\ request[c].stage = "login"
  /\ userLock' = [userLock EXCEPT ![Account[c]] = None]
  /\ request' = [request EXCEPT ![c] = Closed(401, "InvalidCredentialsError")]
  /\ UNCHANGED <<sessions, cookie, csrf, written>>

CookieArrives(c) ==
  /\ request[c].stage = "cookie"
  /\ cookie' = [cookie EXCEPT ![c] = request[c].token]
  /\ request' = [request EXCEPT ![c] = Idle]
  /\ UNCHANGED <<sessions, userLock, csrf, written>>

(* A session that reaches its end of life; nobody is told.                     *)
Expire(t) ==
  /\ sessions[t].live
  /\ sessions' = [sessions EXCEPT ![t].live = FALSE]
  /\ UNCHANGED <<userLock, cookie, csrf, request, written>>

------------------------------------------------------------------------------
(* A browser sends its cookie and the CSRF token its page has.  wasLive only    *)
(* remembers, for a property, whether the session was live then.               *)
Send(c, auth) ==
  /\ request[c] = Idle
  /\ request' = [request EXCEPT ![c] =
       [stage |-> "sent", auth |-> auth, token |-> cookie[c], csrf |-> csrf[c],
        wasLive |-> cookie[c] # None /\ sessions[cookie[c]].live]]
  /\ UNCHANGED <<sessions, userLock, cookie, csrf, written>>

(* require_unsafe_authenticated_request: the CSRF token of this very session.  *)
CsrfHolds(r) == r.auth = "read" \/ r.csrf = r.token

_authenticate(c) ==
  LET r == request[c]
  IN  /\ r.stage = "sent"
      /\ request' = [request EXCEPT ![c] =
           CASE ~Authentic(r.token) -> Closed(401, "SessionAuthenticationError")
             [] Authentic(r.token) /\ ~CsrfHolds(r) -> Closed(403, "SecurityPolicyError")
             [] OTHER -> [stage |-> "authenticated", auth |-> r.auth, token |-> r.token,
                          user |-> sessions[r.token].user, wasLive |-> r.wasLive]]
      /\ UNCHANGED <<sessions, userLock, cookie, csrf, written>>

(* The service raises a typed failure: the transaction is rolled back.         *)
Fail(c, operation, failure) ==
  /\ request[c].stage = "authenticated"
  /\ Table[operation].auth = request[c].auth
  /\ failure \in Table[operation].raises
  /\ request' = [request EXCEPT ![c] = Closed(StatusOf(operation, failure), failure)]
  /\ UNCHANGED <<sessions, userLock, cookie, csrf, written>>

(* The service of a mutation succeeds and the connection commits; the answer   *)
(* is 500 when the connection is lost before it confirms the commit.           *)
Commit(c) ==
  /\ request[c].stage = "authenticated"
  /\ request[c].auth = "mutation"
  /\ written' = written \cup {[user |-> request[c].user, session |-> request[c].token,
                               wasLive |-> request[c].wasLive]}
  /\ \E status \in {200, 500} : request' = [request EXCEPT ![c] = Closed(status, "none")]
  /\ UNCHANGED <<sessions, userLock, cookie, csrf>>

(* logout revokes exactly the authenticated session; one that is revoked       *)
(* already is answered like a missing authentication.                          *)
logout(c) ==
  LET t == request[c].token
  IN  /\ request[c].stage = "authenticated"
      /\ request[c].auth = "mutation"
      /\ sessions' = [sessions EXCEPT ![t].live = FALSE]
      /\ request' = [request EXCEPT ![c] =
           IF sessions[t].live THEN Closed(200, "none")
                               ELSE Closed(401, "SessionAuthenticationError")]
      /\ UNCHANGED <<userLock, cookie, csrf, written>>

(* getCsrf: the token derived from the session's, once the answer arrives.     *)
csrf_token_for(c) ==
  /\ request[c].stage = "authenticated"
  /\ request[c].auth = "read"
  /\ csrf' = [csrf EXCEPT ![c] = request[c].token]
  /\ request' = [request EXCEPT ![c] = Closed(200, "none")]
  /\ UNCHANGED <<sessions, userLock, cookie, written>>

(* The answer arrives or is lost; the browser may send again.                  *)
Answer(c) ==
  /\ request[c].stage \in {"closed", "cookie"}
  /\ request' = [request EXCEPT ![c] = Idle]
  /\ UNCHANGED <<sessions, userLock, cookie, csrf, written>>

Next ==
  \/ \E c \in Client : login(c) \/ LoginCommits(c) \/ LoginFails(c) \/ CookieArrives(c)
  \/ \E t \in Token : Expire(t)
  \/ \E c \in Client, auth \in {"read", "mutation"} : Send(c, auth)
  \/ \E c \in Client : _authenticate(c) \/ Commit(c) \/ logout(c) \/ csrf_token_for(c) \/ Answer(c)
  \/ \E c \in Client, operation \in DOMAIN Table :
       \E failure \in Table[operation].raises : Fail(c, operation, failure)

Spec == Init /\ [][Next]_vars

------------------------------------------------------------------------------
(* Last login wins: however sign-ins and sign-outs of an account interleave,   *)
(* at most one of its sessions is live, and it is the one that committed last. *)
LastLoginWins ==
  \A t \in Token : sessions[t].live =>
    \A later \in Token : later > t => sessions[later].user # sessions[t].user

(* What commits was sent while its session was live, by the account of that    *)
(* session: a sign-in or sign-out elsewhere stops every request sent after it, *)
(* although authentication takes no lock and the request may commit later.     *)
WritesFromLiveSessions ==
  \A w \in written : w.wasLive /\ sessions[w.session].user = w.user

(* "Map typed domain failures to stable, non-disclosing API errors": no typed  *)
(* failure of a service, other than a broken profile, is answered with 500.    *)
TypedFailuresAreMapped ==
  \A c \in Client :
    request[c].stage = "closed" /\ request[c].status = 500 =>
      request[c].failure \in {"none", "ProfileInvariantError"}
==============================================================================
