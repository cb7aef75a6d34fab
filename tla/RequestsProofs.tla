---------------------------- MODULE RequestsProofs ----------------------------
(***************************************************************************)
(* Proofs about Requests, for every set of browsers and accounts: the last *)
(* login wins, and what commits was sent while its session was live.       *)
(***************************************************************************)
EXTENDS Requests, TLAPS

Row == [user : User, live : BOOLEAN]

(***************************************************************************)
(* The inductive invariant.  Sessions are only added and only die, and     *)
(* never change hands; so what a request once knew of its session it may   *)
(* still rely on.  A sign-in knows all live sessions of its account,       *)
(* because nobody else adds one while it holds the account's row.          *)
(***************************************************************************)
SessionsTyped == sessions \in Seq(Row)

LocksTyped == userLock \in [User -> Client \cup {None}]

BrowsersTyped ==
  /\ cookie = [c \in Client |-> cookie[c]]
  /\ \A c \in Client : cookie[c] = None \/ cookie[c] \in Token
  /\ request = [c \in Client |-> request[c]]

\* login: the row of the account is held, and what is live will be revoked.
LoginKnows(c) ==
  request[c].stage = "login" =>
    /\ userLock[Account[c]] = c
    /\ LiveSessions(Account[c]) \subseteq request[c].revoked

CookieKnows(c) == request[c].stage = "cookie" => request[c].token \in Token

SentKnows(c) ==
  request[c].stage = "sent" /\ request[c].token # None =>
    /\ request[c].token \in Token
    /\ sessions[request[c].token].live => request[c].wasLive

AuthenticatedKnows(c) ==
  request[c].stage = "authenticated" =>
    /\ request[c].token \in Token
    /\ request[c].user = sessions[request[c].token].user
    /\ request[c].wasLive

RequestsKnow ==
  \A c \in Client : LoginKnows(c) /\ CookieKnows(c) /\ SentKnows(c) /\ AuthenticatedKnows(c)

WrittenKnown ==
  \A w \in written : w.wasLive /\ w.session \in Token /\ sessions[w.session].user = w.user

IInv ==
  /\ SessionsTyped
  /\ LocksTyped
  /\ BrowsersTyped
  /\ RequestsKnow
  /\ WrittenKnown
  /\ LastLoginWins

-------------------------------------------------------------------------------
(* Sessions *)

\* What every step does to the sessions that were there.
Ages ==
  \A t \in Token :
    /\ t \in Token'
    /\ sessions'[t].user = sessions[t].user
    /\ sessions'[t].live => sessions[t].live

\* What a waiting request knows of its session stays true.
LEMMA AgeingKeepsKnowledge ==
  ASSUME NEW c \in Client, Ages, request'[c] = request[c],
         CookieKnows(c), SentKnows(c), AuthenticatedKnows(c)
  PROVE  (CookieKnows(c) /\ SentKnows(c) /\ AuthenticatedKnows(c))'
<1>1. CookieKnows(c)'
  BY DEF CookieKnows, Ages
<1>2. SentKnows(c)'
  BY DEF SentKnows, Ages
<1>3. AuthenticatedKnows(c)'
  BY DEF AuthenticatedKnows, Ages
<1> QED  BY <1>1, <1>2, <1>3

\* So does what has been written.
LEMMA AgeingKeepsWritten ==
  ASSUME Ages, UNCHANGED written, WrittenKnown
  PROVE  WrittenKnown'
BY DEF Ages, WrittenKnown

\* A session that dies, or none.
LEMMA DyingFacts ==
  ASSUME SessionsTyped, LastLoginWins, NEW t \in Token,
         sessions' = [sessions EXCEPT ![t].live = FALSE]
  PROVE  /\ SessionsTyped'
         /\ LastLoginWins'
         /\ Ages
         /\ \A u \in User : LiveSessions(u)' \subseteq LiveSessions(u)
<1>1. sessions[t] \in Row
  BY DEF SessionsTyped, Token
<1>2. [sessions[t] EXCEPT !.live = FALSE] \in Row
      /\ [sessions[t] EXCEPT !.live = FALSE].user = sessions[t].user
      /\ ~ [sessions[t] EXCEPT !.live = FALSE].live
  BY <1>1 DEF Row
<1>3. /\ sessions' \in Seq(Row)
      /\ Token' = Token
      /\ \A s \in Token : s # t => sessions'[s] = sessions[s]
      /\ sessions'[t] = [sessions[t] EXCEPT !.live = FALSE]
  BY <1>2 DEF SessionsTyped, Token
<1>4. Ages
  BY <1>2, <1>3 DEF Ages
<1>5. LastLoginWins'
  BY <1>3, <1>4 DEF LastLoginWins, Ages
<1>6. \A u \in User : LiveSessions(u)' \subseteq LiveSessions(u)
  BY <1>3, <1>4 DEF LiveSessions, Ages
<1> QED  BY <1>3, <1>4, <1>5, <1>6 DEF SessionsTyped

\* Sessions that nobody touches.
LEMMA SameSessions ==
  ASSUME SessionsTyped, LastLoginWins, UNCHANGED sessions
  PROVE  /\ SessionsTyped'
         /\ LastLoginWins'
         /\ Ages
         /\ \A u \in User : LiveSessions(u)' = LiveSessions(u)
BY DEF SessionsTyped, LastLoginWins, Ages, LiveSessions, Token

-------------------------------------------------------------------------------
(* A step of one browser's request *)

\* The request of one browser moves on, the sessions age, and the sign-ins of
\* the others keep what they know.
LEMMA RequestMovesOn ==
  ASSUME IInv, NEW c \in Client, NEW r,
         request' = [request EXCEPT ![c] = r],
         SessionsTyped', LocksTyped', LastLoginWins', Ages, WrittenKnown',
         cookie' = [d \in Client |-> cookie'[d]],
         \A d \in Client : cookie'[d] = None \/ cookie'[d] \in Token',
         \A d \in Client \ {c} : LoginKnows(d)',
         (LoginKnows(c) /\ CookieKnows(c) /\ SentKnows(c) /\ AuthenticatedKnows(c))'
  PROVE  IInv'
<1>1. request' = [d \in Client |-> request'[d]]
  BY DEF IInv, BrowsersTyped
<1>2. \A d \in Client \ {c} : request'[d] = request[d]
  BY DEF IInv, BrowsersTyped
<1>3. \A d \in Client \ {c} : (CookieKnows(d) /\ SentKnows(d) /\ AuthenticatedKnows(d))'
  BY <1>2, AgeingKeepsKnowledge DEF IInv, RequestsKnow
<1>4. RequestsKnow'
  BY <1>3 DEF RequestsKnow
<1> QED  BY <1>1, <1>4 DEF IInv, BrowsersTyped

\* The steps that neither sign in nor out: the new state of the request is all
\* that remains to be looked at.
LEMMA QuietStep ==
  ASSUME IInv, NEW c \in Client, NEW r,
         request' = [request EXCEPT ![c] = r],
         r.stage # "login",
         UNCHANGED <<sessions, userLock>>, WrittenKnown',
         cookie' = [d \in Client |-> cookie'[d]],
         \A d \in Client : cookie'[d] = None \/ cookie'[d] \in Token',
         (CookieKnows(c) /\ SentKnows(c) /\ AuthenticatedKnows(c))'
  PROVE  IInv'
<1>1. SessionsTyped' /\ LastLoginWins' /\ Ages
  BY SameSessions DEF IInv
<1>2. LocksTyped'
  BY DEF IInv, LocksTyped
<1>3. request'[c] = r /\ \A d \in Client \ {c} : request'[d] = request[d]
  BY DEF IInv, BrowsersTyped
<1>4. LoginKnows(c)'
  BY <1>3 DEF LoginKnows
<1>5. \A d \in Client \ {c} : LoginKnows(d)'
  <2>1. \A u : LiveSessions(u)' = LiveSessions(u)
    BY DEF LiveSessions, Token
  <2> QED  BY <1>3, <2>1 DEF IInv, RequestsKnow, LoginKnows
<1> QED  BY <1>1, <1>2, <1>4, <1>5, RequestMovesOn

\* Nothing is known of a request that is answered or idle.
LEMMA Unknowing ==
  ASSUME IInv, NEW c \in Client, NEW r, request' = [request EXCEPT ![c] = r],
         r.stage \notin {"login", "cookie", "sent", "authenticated"}
  PROVE  (LoginKnows(c) /\ CookieKnows(c) /\ SentKnows(c) /\ AuthenticatedKnows(c))'
<1>1. request'[c] = r
  BY DEF IInv, BrowsersTyped
<1> QED  BY <1>1 DEF LoginKnows, CookieKnows, SentKnows, AuthenticatedKnows

\* An answer that is ready, whatever it is.
LEMMA ClosedIsClosed == \A status, failure : Closed(status, failure).stage = "closed"
BY DEF Closed

\* An unchanged cookie and unchanged writes stay as they are.
LEMMA SameBrowsers ==
  ASSUME IInv, Ages
  PROVE  /\ UNCHANGED cookie => /\ cookie' = [d \in Client |-> cookie'[d]]
                                /\ \A d \in Client : cookie'[d] = None \/ cookie'[d] \in Token'
         /\ UNCHANGED written => WrittenKnown'
<1>1. ASSUME UNCHANGED cookie
      PROVE  /\ cookie' = [d \in Client |-> cookie'[d]]
             /\ \A d \in Client : cookie'[d] = None \/ cookie'[d] \in Token'
  <2>1. \A d \in Client : cookie[d] = None \/ cookie[d] \in Token
    BY DEF IInv, BrowsersTyped
  <2>2. \A t \in Token : t \in Token'
    BY DEF Ages
  <2> QED  BY <1>1, <2>1, <2>2 DEF IInv, BrowsersTyped
<1>2. UNCHANGED written => WrittenKnown'
  BY AgeingKeepsWritten DEF IInv
<1> QED  BY <1>1, <1>2

-------------------------------------------------------------------------------
(* Sign-in *)

\* The row of the account is taken, and the live sessions are read.
LEMMA LoginKeepsIInv ==
  ASSUME RequestsAssumption, IInv, NEW c \in Client, login(c)
  PROVE  IInv'
<1> DEFINE r == [stage |-> "login", revoked |-> LiveSessions(Account[c])]
<1>1. /\ userLock[Account[c]] = None
      /\ userLock' = [userLock EXCEPT ![Account[c]] = c]
      /\ request' = [request EXCEPT ![c] = r]
      /\ UNCHANGED <<sessions, cookie, csrf, written>>
  BY DEF login, RowFree
<1>2. Account[c] \in User /\ \A d \in Client : Account[d] \in User
  BY DEF User
<1>3. r.stage = "login" /\ r.revoked = LiveSessions(Account[c])
  OBVIOUS
<1> HIDE DEF r
<1>4. SessionsTyped' /\ LastLoginWins' /\ Ages
  BY <1>1, SameSessions DEF IInv
<1>5. LocksTyped'
  BY <1>1, <1>2 DEF IInv, LocksTyped
<1>6. request'[c] = r /\ \A d \in Client \ {c} : request'[d] = request[d]
  BY <1>1 DEF IInv, BrowsersTyped
<1>7. \A u : LiveSessions(u)' = LiveSessions(u)
  BY <1>1 DEF LiveSessions, Token
<1>8. LoginKnows(c)'
  BY <1>1, <1>2, <1>3, <1>6, <1>7 DEF LoginKnows, IInv, LocksTyped
<1>9. (CookieKnows(c) /\ SentKnows(c) /\ AuthenticatedKnows(c))'
  BY <1>3, <1>6 DEF CookieKnows, SentKnows, AuthenticatedKnows
<1>10. ASSUME NEW d \in Client \ {c}
       PROVE  LoginKnows(d)'
  <2> SUFFICES ASSUME request[d].stage = "login"
               PROVE  userLock'[Account[d]] = d /\ LiveSessions(Account[d])' \subseteq request[d].revoked
    BY <1>6 DEF LoginKnows
  <2>1. userLock[Account[d]] = d /\ LiveSessions(Account[d]) \subseteq request[d].revoked
    BY DEF IInv, RequestsKnow, LoginKnows
  <2>2. Account[d] # Account[c]
    BY <1>1, <2>1 DEF RequestsAssumption
  <2> QED  BY <1>1, <1>2, <1>7, <2>1, <2>2 DEF IInv, LocksTyped
<1>11. /\ cookie' = [d \in Client |-> cookie'[d]]
       /\ \A d \in Client : cookie'[d] = None \/ cookie'[d] \in Token'
       /\ WrittenKnown'
  BY <1>1, <1>4, SameBrowsers
<1> QED  BY <1>1, <1>4, <1>5, <1>8, <1>9, <1>10, <1>11, RequestMovesOn

\* The commit: every session of the account that was live is revoked, and the
\* new one is the last of all.
LEMMA CommitFacts ==
  ASSUME IInv, NEW c \in Client, LoginCommits(c)
  PROVE  /\ SessionsTyped'
         /\ Ages
         /\ LastLoginWins'
         /\ Len(sessions) + 1 \in Token'
         /\ \A u \in User \ {Account[c]} : LiveSessions(u)' \subseteq LiveSessions(u)
<1> DEFINE revoked == request[c].revoked
           aged == [t \in Token |-> IF t \in revoked THEN [sessions[t] EXCEPT !.live = FALSE]
                                                     ELSE sessions[t]]
           last == [user |-> Account[c], live |-> TRUE]
           n == Len(sessions)
<1>1. sessions' = Append(aged, last) /\ request[c].stage = "login"
  BY DEF LoginCommits
<1>2. sessions \in Seq(Row) /\ n \in Nat /\ Token = 1 .. n
  BY DEF IInv, SessionsTyped, Token
<1>3. \A t \in Token : /\ sessions[t] \in Row
                       /\ [sessions[t] EXCEPT !.live = FALSE] \in Row
                       /\ [sessions[t] EXCEPT !.live = FALSE].user = sessions[t].user
                       /\ ~ [sessions[t] EXCEPT !.live = FALSE].live
  <2>1. \A t \in Token : sessions[t] \in Row
    BY <1>2
  <2>2. \A row \in Row : /\ [row EXCEPT !.live = FALSE] \in Row
                         /\ [row EXCEPT !.live = FALSE].user = row.user
                         /\ ~ [row EXCEPT !.live = FALSE].live
    BY DEF Row
  <2> QED  BY <2>1, <2>2
<1>4. last \in Row /\ last.user = Account[c] /\ last.live
  <2>1. Account[c] \in User
    BY DEF User
  <2> QED  BY <2>1 DEF Row
<1> HIDE DEF last, n
<1>5. aged \in Seq(Row) /\ Len(aged) = n
  <2>1. \A t \in 1 .. n : aged[t] \in Row
    BY <1>2, <1>3
  <2>2. aged \in [1 .. n -> Row]
    BY <1>2, <2>1
  <2> HIDE DEF aged
  <2> QED  BY <1>2, <2>2
<1>6. \A t \in Token : /\ aged[t].user = sessions[t].user
                       /\ aged[t].live => sessions[t].live /\ t \notin revoked
  BY <1>3
<1> HIDE DEF aged, revoked
<1>7. /\ sessions' \in Seq(Row)
      /\ Token' = 1 .. (n + 1)
      /\ sessions'[n + 1] = last
      /\ \A t \in 1 .. n : sessions'[t] = aged[t]
  BY <1>1, <1>2, <1>4, <1>5 DEF Token
<1>8. Ages
  BY <1>2, <1>6, <1>7 DEF Ages
<1>9. LiveSessions(Account[c]) \subseteq revoked
  BY <1>1 DEF IInv, RequestsKnow, LoginKnows, revoked
<1>10. \A t \in 1 .. n : sessions'[t].live => sessions[t].user # Account[c]
  BY <1>2, <1>6, <1>7, <1>9 DEF LiveSessions
<1>11. LastLoginWins'
  <2> SUFFICES ASSUME NEW t \in Token', sessions'[t].live, NEW later \in Token', later > t
               PROVE  sessions'[later].user # sessions'[t].user
    BY DEF LastLoginWins
  <2>1. t \in 1 .. n /\ sessions[t].live /\ sessions'[t].user = sessions[t].user
    BY <1>2, <1>6, <1>7
  <2>2. CASE later = n + 1
    BY <1>4, <1>7, <1>10, <2>1, <2>2
  <2>3. CASE later # n + 1
    <3>1. later \in 1 .. n
      BY <1>2, <1>7, <2>3
    <3>2. sessions[later].user # sessions[t].user
      BY <1>2, <2>1, <3>1 DEF IInv, LastLoginWins
    <3> QED  BY <1>2, <1>6, <1>7, <2>1, <3>1, <3>2
  <2> QED  BY <2>2, <2>3
<1>12. ASSUME NEW u \in User \ {Account[c]}
       PROVE  LiveSessions(u)' \subseteq LiveSessions(u)
  <2> SUFFICES ASSUME NEW t \in Token', sessions'[t].user = u, sessions'[t].live
               PROVE  t \in Token /\ sessions[t].user = u /\ sessions[t].live
    BY DEF LiveSessions
  <2>1. t # n + 1
    BY <1>4, <1>7
  <2>2. t \in 1 .. n
    BY <1>2, <1>7, <2>1
  <2> QED  BY <1>2, <1>6, <1>7, <2>2
<1>13. n + 1 \in Token'
  BY <1>2, <1>7
<1> QED  BY <1>7, <1>8, <1>11, <1>12, <1>13 DEF SessionsTyped, n

\* So the sign-in keeps the invariant: no other sign-in of the account is under
\* way, and the others know about other accounts.
LEMMA LoginCommitsKeepsIInv ==
  ASSUME RequestsAssumption, IInv, NEW c \in Client, LoginCommits(c)
  PROVE  IInv'
<1> DEFINE r == [stage |-> "cookie", token |-> Len(sessions) + 1]
<1>1. /\ request[c].stage = "login"
      /\ userLock' = [userLock EXCEPT ![Account[c]] = None]
      /\ request' = [request EXCEPT ![c] = r]
      /\ UNCHANGED <<cookie, csrf, written>>
  BY DEF LoginCommits
<1>2. Account[c] \in User /\ \A d \in Client : Account[d] \in User
  BY DEF User
<1>3. r.stage = "cookie" /\ r.token = Len(sessions) + 1
  OBVIOUS
<1> HIDE DEF r
<1>4. request'[c] = r /\ \A d \in Client \ {c} : request'[d] = request[d]
  BY <1>1 DEF IInv, BrowsersTyped
<1>5. LocksTyped'
  BY <1>1, <1>2 DEF IInv, LocksTyped
<1>6. (LoginKnows(c) /\ CookieKnows(c) /\ SentKnows(c) /\ AuthenticatedKnows(c))'
  <2>1. r.token \in Token'
    BY <1>3, CommitFacts
  <2> QED  BY <1>3, <1>4, <2>1 DEF LoginKnows, CookieKnows, SentKnows, AuthenticatedKnows
<1>7. ASSUME NEW d \in Client \ {c}
      PROVE  LoginKnows(d)'
  <2> SUFFICES ASSUME request[d].stage = "login"
               PROVE  userLock'[Account[d]] = d /\ LiveSessions(Account[d])' \subseteq request[d].revoked
    BY <1>4 DEF LoginKnows
  <2>1. userLock[Account[d]] = d /\ LiveSessions(Account[d]) \subseteq request[d].revoked
    BY DEF IInv, RequestsKnow, LoginKnows
  <2>2. userLock[Account[c]] = c
    BY <1>1 DEF IInv, RequestsKnow, LoginKnows
  <2>3. Account[d] \in User \ {Account[c]}
    BY <1>2, <2>1, <2>2
  <2>4. LiveSessions(Account[d])' \subseteq LiveSessions(Account[d])
    BY <2>3, CommitFacts
  <2> QED  BY <1>1, <1>2, <2>1, <2>3, <2>4 DEF IInv, LocksTyped
<1>8. /\ cookie' = [d \in Client |-> cookie'[d]]
      /\ \A d \in Client : cookie'[d] = None \/ cookie'[d] \in Token'
      /\ WrittenKnown'
  BY <1>1, CommitFacts, SameBrowsers
<1> QED  BY <1>1, <1>5, <1>6, <1>7, <1>8, CommitFacts, RequestMovesOn

\* A refused sign-in gives the row back.
LEMMA LoginFailsKeepsIInv ==
  ASSUME RequestsAssumption, IInv, NEW c \in Client, LoginFails(c)
  PROVE  IInv'
<1> DEFINE r == Closed(401, "InvalidCredentialsError")
<1>1. /\ request[c].stage = "login"
      /\ userLock' = [userLock EXCEPT ![Account[c]] = None]
      /\ request' = [request EXCEPT ![c] = r]
      /\ UNCHANGED <<sessions, cookie, csrf, written>>
  BY DEF LoginFails
<1>2. Account[c] \in User /\ \A d \in Client : Account[d] \in User
  BY DEF User
<1>3. r.stage = "closed"
  BY ClosedIsClosed
<1> HIDE DEF r
<1>4. SessionsTyped' /\ LastLoginWins' /\ Ages
  BY <1>1, SameSessions DEF IInv
<1>5. \A d \in Client \ {c} : request'[d] = request[d]
  BY <1>1 DEF IInv, BrowsersTyped
<1>6. LocksTyped'
  BY <1>1, <1>2 DEF IInv, LocksTyped
<1>7. ASSUME NEW d \in Client \ {c}
      PROVE  LoginKnows(d)'
  <2> SUFFICES ASSUME request[d].stage = "login"
               PROVE  userLock'[Account[d]] = d /\ LiveSessions(Account[d])' \subseteq request[d].revoked
    BY <1>5 DEF LoginKnows
  <2>1. userLock[Account[d]] = d /\ LiveSessions(Account[d]) \subseteq request[d].revoked
    BY DEF IInv, RequestsKnow, LoginKnows
  <2>2. userLock[Account[c]] = c
    BY <1>1 DEF IInv, RequestsKnow, LoginKnows
  <2>3. Account[d] # Account[c]
    BY <2>1, <2>2
  <2>4. LiveSessions(Account[d])' = LiveSessions(Account[d])
    BY <1>1 DEF LiveSessions, Token
  <2> QED  BY <1>1, <1>2, <2>1, <2>3, <2>4 DEF IInv, LocksTyped
<1>8. /\ cookie' = [d \in Client |-> cookie'[d]]
      /\ \A d \in Client : cookie'[d] = None \/ cookie'[d] \in Token'
      /\ WrittenKnown'
  BY <1>1, <1>4, SameBrowsers
<1>9. (LoginKnows(c) /\ CookieKnows(c) /\ SentKnows(c) /\ AuthenticatedKnows(c))'
  BY <1>1, <1>3, Unknowing
<1> QED  BY <1>1, <1>4, <1>6, <1>7, <1>8, <1>9, RequestMovesOn

\* The cookie of a session that exists.
LEMMA CookieArrivesKeepsIInv ==
  ASSUME IInv, NEW c \in Client, CookieArrives(c)
  PROVE  IInv'
<1>1. /\ request[c].stage = "cookie"
      /\ cookie' = [cookie EXCEPT ![c] = request[c].token]
      /\ request' = [request EXCEPT ![c] = Idle]
      /\ UNCHANGED <<sessions, userLock, csrf, written>>
  BY DEF CookieArrives
<1>2. request[c].token \in Token
  BY <1>1 DEF IInv, RequestsKnow, CookieKnows
<1>3. Ages
  BY <1>1, SameSessions DEF IInv
<1>4. WrittenKnown'
  BY <1>1, <1>3, SameBrowsers
<1>5. cookie' = [d \in Client |-> cookie'[d]]
  BY <1>1 DEF IInv, BrowsersTyped
<1>6. \A d \in Client : cookie'[d] = None \/ cookie'[d] \in Token'
  <2>1. \A d \in Client : cookie'[d] = cookie[d] \/ cookie'[d] = request[c].token
    BY <1>1 DEF IInv, BrowsersTyped
  <2>2. \A d \in Client : cookie[d] = None \/ cookie[d] \in Token
    BY DEF IInv, BrowsersTyped
  <2>3. Token' = Token
    BY <1>1 DEF Token
  <2> QED  BY <1>2, <2>1, <2>2, <2>3
<1>7. Idle.stage = "idle"
  BY DEF Idle
<1>8. (CookieKnows(c) /\ SentKnows(c) /\ AuthenticatedKnows(c))'
  BY <1>1, <1>7, Unknowing
<1> QED  BY <1>1, <1>4, <1>5, <1>6, <1>7, <1>8, QuietStep

\* A session that ends, at its end of life.
LEMMA ExpireKeepsIInv ==
  ASSUME IInv, NEW t \in Token, Expire(t)
  PROVE  IInv'
<1>1. /\ sessions' = [sessions EXCEPT ![t].live = FALSE]
      /\ UNCHANGED <<userLock, cookie, csrf, request, written>>
  BY DEF Expire
<1>2. /\ SessionsTyped'
      /\ LastLoginWins'
      /\ Ages
      /\ \A u \in User : LiveSessions(u)' \subseteq LiveSessions(u)
  BY <1>1, DyingFacts DEF IInv
<1>3. ASSUME NEW d \in Client
      PROVE  (LoginKnows(d) /\ CookieKnows(d) /\ SentKnows(d) /\ AuthenticatedKnows(d))'
  <2>1. Account[d] \in User
    BY DEF User
  <2>2. LoginKnows(d)'
    BY <1>1, <1>2, <2>1 DEF IInv, RequestsKnow, LoginKnows
  <2> QED  BY <1>1, <1>2, <2>2, AgeingKeepsKnowledge DEF IInv, RequestsKnow
<1>4. LocksTyped' /\ WrittenKnown'
  BY <1>1, <1>2, SameBrowsers DEF IInv, LocksTyped
<1>5. BrowsersTyped'
  BY <1>1, <1>2, SameBrowsers DEF IInv, BrowsersTyped
<1> QED  BY <1>2, <1>3, <1>4, <1>5 DEF IInv, RequestsKnow

-------------------------------------------------------------------------------
(* Requests *)

\* What a request carries is known when it is sent.
LEMMA SendKeepsIInv ==
  ASSUME IInv, NEW c \in Client, NEW auth, Send(c, auth)
  PROVE  IInv'
<1> DEFINE r == [stage |-> "sent", auth |-> auth, token |-> cookie[c], csrf |-> csrf[c],
                 wasLive |-> cookie[c] # None /\ sessions[cookie[c]].live]
<1>1. request' = [request EXCEPT ![c] = r] /\ UNCHANGED <<sessions, userLock, cookie, csrf, written>>
  BY DEF Send
<1>2. /\ r.stage = "sent"
      /\ r.token = cookie[c]
      /\ r.wasLive <=> cookie[c] # None /\ sessions[cookie[c]].live
  OBVIOUS
<1> HIDE DEF r
<1>3. Ages
  BY <1>1, SameSessions DEF IInv
<1>4. /\ cookie' = [d \in Client |-> cookie'[d]]
      /\ \A d \in Client : cookie'[d] = None \/ cookie'[d] \in Token'
      /\ WrittenKnown'
  BY <1>1, <1>3, SameBrowsers
<1>5. request'[c] = r
  BY <1>1 DEF IInv, BrowsersTyped
<1>6. (CookieKnows(c) /\ SentKnows(c) /\ AuthenticatedKnows(c))'
  BY <1>1, <1>2, <1>4, <1>5 DEF CookieKnows, SentKnows, AuthenticatedKnows
<1> QED  BY <1>1, <1>2, <1>4, <1>6, QuietStep

\* The session of an authenticated request was live when the request was sent:
\* it is live now, and sessions do not come back to life.
LEMMA AuthenticateKeepsIInv ==
  ASSUME IInv, NEW c \in Client, _authenticate(c)
  PROVE  IInv'
<1> DEFINE r == request[c]
           admitted == [stage |-> "authenticated", auth |-> r.auth, token |-> r.token,
                        user |-> sessions[r.token].user, wasLive |-> r.wasLive]
<1>1. r.stage = "sent" /\ UNCHANGED <<sessions, userLock, cookie, csrf, written>>
  BY DEF _authenticate
<1>2. PICK next : /\ request' = [request EXCEPT ![c] = next]
                  /\ next.stage = "closed" \/ (Authentic(r.token) /\ next = admitted)
  <2>1. CASE ~Authentic(r.token)
    <3> DEFINE answer == Closed(401, "SessionAuthenticationError")
    <3>1. request' = [request EXCEPT ![c] = answer]
      BY <2>1 DEF _authenticate
    <3>2. answer.stage = "closed"
      BY ClosedIsClosed
    <3> HIDE DEF answer
    <3> QED  BY <3>1, <3>2
  <2>2. CASE Authentic(r.token) /\ ~CsrfHolds(r)
    <3> DEFINE answer == Closed(403, "SecurityPolicyError")
    <3>1. request' = [request EXCEPT ![c] = answer]
      BY <2>2 DEF _authenticate
    <3>2. answer.stage = "closed"
      BY ClosedIsClosed
    <3> HIDE DEF answer
    <3> QED  BY <3>1, <3>2
  <2>3. CASE Authentic(r.token) /\ CsrfHolds(r)
    <3>1. request' = [request EXCEPT ![c] = admitted]
      BY <2>3 DEF _authenticate
    <3> HIDE DEF admitted
    <3> QED  BY <2>3, <3>1
  <2> QED  BY <2>1, <2>2, <2>3
<1>3. /\ admitted.stage = "authenticated"
      /\ admitted.token = r.token
      /\ admitted.user = sessions[r.token].user
      /\ admitted.wasLive = r.wasLive
  OBVIOUS
<1> HIDE DEF admitted
<1>4. Ages
  BY <1>1, SameSessions DEF IInv
<1>5. /\ cookie' = [d \in Client |-> cookie'[d]]
      /\ \A d \in Client : cookie'[d] = None \/ cookie'[d] \in Token'
      /\ WrittenKnown'
  BY <1>1, <1>4, SameBrowsers
<1>6. request'[c] = next
  BY <1>2 DEF IInv, BrowsersTyped
<1>7. Authentic(r.token) => r.token \in Token /\ r.wasLive
  BY <1>1 DEF Authentic, IInv, RequestsKnow, SentKnows
<1>8. AuthenticatedKnows(c)'
  <2> SUFFICES ASSUME request'[c].stage = "authenticated"
               PROVE  /\ request'[c].token \in Token'
                      /\ request'[c].user = sessions'[request'[c].token].user
                      /\ request'[c].wasLive
    BY DEF AuthenticatedKnows
  <2>1. Authentic(r.token) /\ next = admitted
    BY <1>2, <1>6
  <2>2. r.token \in Token' /\ sessions' = sessions
    BY <1>1, <1>4, <1>7, <2>1 DEF Ages
  <2> QED  BY <1>3, <1>6, <1>7, <2>1, <2>2
<1>9. (CookieKnows(c) /\ SentKnows(c))' /\ next.stage # "login"
  BY <1>2, <1>3, <1>6 DEF CookieKnows, SentKnows
<1> QED  BY <1>1, <1>2, <1>5, <1>8, <1>9, QuietStep

\* Steps that only end a request.
LEMMA EndingKeepsIInv ==
  ASSUME IInv, NEW c \in Client, NEW r, request' = [request EXCEPT ![c] = r],
         r.stage \in {"closed", "idle"}, UNCHANGED <<sessions, userLock, cookie>>, WrittenKnown'
  PROVE  IInv'
<1>1. Ages
  BY SameSessions DEF IInv
<1>2. (CookieKnows(c) /\ SentKnows(c) /\ AuthenticatedKnows(c))'
  BY Unknowing
<1> QED  BY <1>1, <1>2, SameBrowsers, QuietStep

\* A commit writes for the session that was live when the request was sent.
LEMMA CommitKeepsIInv ==
  ASSUME IInv, NEW c \in Client, Commit(c)
  PROVE  IInv'
<1> DEFINE row == [user |-> request[c].user, session |-> request[c].token,
                   wasLive |-> request[c].wasLive]
<1>1. /\ request[c].stage = "authenticated"
      /\ written' = written \cup {row}
      /\ UNCHANGED <<sessions, userLock, cookie, csrf>>
  BY DEF Commit
<1>2. PICK r : request' = [request EXCEPT ![c] = r] /\ r.stage \in {"closed", "idle"}
  <2>1. PICK status \in {200, 500} : request' = [request EXCEPT ![c] = Closed(status, "none")]
    BY DEF Commit
  <2> DEFINE answer == Closed(status, "none")
  <2>2. request' = [request EXCEPT ![c] = answer] /\ answer.stage = "closed"
    BY <2>1, ClosedIsClosed
  <2> HIDE DEF answer
  <2> QED  BY <2>2
<1>3. UNCHANGED <<sessions, userLock, cookie>>
  BY <1>1
<1>4. row.wasLive /\ row.session \in Token /\ sessions[row.session].user = row.user
  BY <1>1 DEF IInv, RequestsKnow, AuthenticatedKnows
<1> HIDE DEF row
<1>5. WrittenKnown'
  BY <1>1, <1>4 DEF IInv, WrittenKnown, Token
<1> QED  BY <1>2, <1>3, <1>5, EndingKeepsIInv

\* A sign-out ends the session it was authenticated with.
LEMMA LogoutKeepsIInv ==
  ASSUME IInv, NEW c \in Client, logout(c)
  PROVE  IInv'
<1> DEFINE t == request[c].token
<1>1. /\ request[c].stage = "authenticated"
      /\ sessions' = [sessions EXCEPT ![t].live = FALSE]
      /\ UNCHANGED <<userLock, cookie, csrf, written>>
  BY DEF logout
<1>2. PICK r : request' = [request EXCEPT ![c] = r] /\ r.stage = "closed"
  <2> DEFINE answer == IF sessions[t].live THEN Closed(200, "none")
                                           ELSE Closed(401, "SessionAuthenticationError")
  <2>1. request' = [request EXCEPT ![c] = answer]
    BY DEF logout
  <2>2. answer.stage = "closed"
    BY ClosedIsClosed
  <2> HIDE DEF answer
  <2> QED  BY <2>1, <2>2
<1>3. t \in Token
  BY <1>1 DEF IInv, RequestsKnow, AuthenticatedKnows
<1> HIDE DEF t
<1>4. /\ SessionsTyped'
      /\ LastLoginWins'
      /\ Ages
      /\ \A u \in User : LiveSessions(u)' \subseteq LiveSessions(u)
  BY <1>1, <1>3, DyingFacts DEF IInv
<1>5. \A d \in Client \ {c} : request'[d] = request[d]
  BY <1>2 DEF IInv, BrowsersTyped
<1>6. ASSUME NEW d \in Client \ {c}
      PROVE  LoginKnows(d)'
  <2>1. Account[d] \in User
    BY DEF User
  <2> QED  BY <1>1, <1>4, <1>5, <2>1 DEF IInv, RequestsKnow, LoginKnows
<1>7. LocksTyped'
  BY <1>1 DEF IInv, LocksTyped
<1>8. (LoginKnows(c) /\ CookieKnows(c) /\ SentKnows(c) /\ AuthenticatedKnows(c))'
  BY <1>2, Unknowing
<1>9. /\ cookie' = [d \in Client |-> cookie'[d]]
      /\ \A d \in Client : cookie'[d] = None \/ cookie'[d] \in Token'
      /\ WrittenKnown'
  BY <1>1, <1>4, SameBrowsers
<1> QED  BY <1>2, <1>4, <1>6, <1>7, <1>8, <1>9, RequestMovesOn

\* The other ends of a request write nothing.
LEMMA AnswersKeepIInv ==
  ASSUME IInv, NEW c \in Client,
         \/ csrf_token_for(c)
         \/ Answer(c)
         \/ \E operation, failure : Fail(c, operation, failure)
  PROVE  IInv'
<1>1. UNCHANGED <<sessions, userLock, cookie, written>>
  BY DEF csrf_token_for, Answer, Fail
<1>2. PICK r : request' = [request EXCEPT ![c] = r] /\ r.stage \in {"closed", "idle"}
  <2>1. Idle.stage = "idle"
    BY DEF Idle
  <2>2. CASE csrf_token_for(c)
    <3> DEFINE answer == Closed(200, "none")
    <3>1. request' = [request EXCEPT ![c] = answer]
      BY <2>2 DEF csrf_token_for
    <3>2. answer.stage = "closed"
      BY ClosedIsClosed
    <3> HIDE DEF answer
    <3> QED  BY <3>1, <3>2
  <2>3. CASE Answer(c)
    BY <2>1, <2>3 DEF Answer
  <2>4. CASE \E operation, failure : Fail(c, operation, failure)
    <3>1. PICK operation, failure : Fail(c, operation, failure)
      BY <2>4
    <3> DEFINE answer == Closed(StatusOf(operation, failure), failure)
    <3>2. request' = [request EXCEPT ![c] = answer]
      BY <3>1 DEF Fail
    <3>3. answer.stage = "closed"
      BY ClosedIsClosed
    <3> HIDE DEF answer
    <3> QED  BY <3>2, <3>3
  <2> QED  BY <2>2, <2>3, <2>4
<1>3. WrittenKnown'
  BY <1>1, SameSessions, SameBrowsers DEF IInv
<1> QED  BY <1>1, <1>2, <1>3, EndingKeepsIInv

-------------------------------------------------------------------------------
(* The specification *)

\* Nobody has signed in.
LEMMA InitIInv ==
  ASSUME Init
  PROVE  IInv
<1>1. sessions = << >> /\ Token = {}
  BY DEF Init, Token
<1>2. SessionsTyped /\ LastLoginWins
  BY <1>1 DEF SessionsTyped, LastLoginWins
<1>3. LocksTyped /\ BrowsersTyped /\ WrittenKnown
  BY DEF Init, LocksTyped, BrowsersTyped, WrittenKnown
<1>4. RequestsKnow
  BY DEF Init, RequestsKnow, LoginKnows, CookieKnows, SentKnows, AuthenticatedKnows, Idle
<1> QED  BY <1>2, <1>3, <1>4 DEF IInv

\* No step breaks the invariant.
LEMMA NextKeepsIInv ==
  ASSUME RequestsAssumption, IInv, [Next]_vars
  PROVE  IInv'
<1>1. CASE UNCHANGED vars
  <2>1. /\ SessionsTyped'
        /\ LastLoginWins'
        /\ Ages
        /\ \A u \in User : LiveSessions(u)' = LiveSessions(u)
    BY <1>1, SameSessions DEF IInv, vars
  <2>2. \A d \in Client : (CookieKnows(d) /\ SentKnows(d) /\ AuthenticatedKnows(d))'
    BY <1>1, <2>1, AgeingKeepsKnowledge DEF IInv, RequestsKnow, vars
  <2>3. \A d \in Client : LoginKnows(d)'
    <3>1. \A d \in Client : Account[d] \in User
      BY DEF User
    <3> QED  BY <1>1, <2>1, <3>1 DEF IInv, RequestsKnow, LoginKnows, vars
  <2>4. LocksTyped' /\ BrowsersTyped' /\ WrittenKnown'
    BY <1>1, <2>1, SameBrowsers DEF IInv, LocksTyped, BrowsersTyped, vars
  <2> QED  BY <2>1, <2>2, <2>3, <2>4 DEF IInv, RequestsKnow
<1>2. CASE Next
  BY <1>2, LoginKeepsIInv, LoginCommitsKeepsIInv, LoginFailsKeepsIInv, CookieArrivesKeepsIInv,
     ExpireKeepsIInv, SendKeepsIInv, AuthenticateKeepsIInv, CommitKeepsIInv, LogoutKeepsIInv,
     AnswersKeepIInv DEF Next
<1> QED  BY <1>1, <1>2

\* The invariant holds throughout.
LEMMA InvariantHolds ==
  ASSUME RequestsAssumption
  PROVE  Spec => []IInv
<1>1. Init => IInv
  BY InitIInv
<1>2. IInv /\ [Next]_vars => IInv'
  BY NextKeepsIInv
<1> QED  BY <1>1, <1>2, PTL DEF Spec

\* However the sign-ins, sign-outs and expiries of an account interleave, at most
\* one of its sessions is live, and it is the one that committed last: what the
\* lock on the row of the account is for (auth_service.py).
THEOREM LastLogin ==
  ASSUME RequestsAssumption
  PROVE  Spec => []LastLoginWins
<1>1. IInv => LastLoginWins
  BY DEF IInv
<1> QED  BY <1>1, InvariantHolds, PTL

\* What commits was sent while its session was live, by the account of that
\* session, although authentication takes no lock.
THEOREM WritesAreAuthentic ==
  ASSUME RequestsAssumption
  PROVE  Spec => []WritesFromLiveSessions
<1>1. IInv => WritesFromLiveSessions
  BY DEF IInv, WrittenKnown, WritesFromLiveSessions
<1> QED  BY <1>1, InvariantHolds, PTL
===============================================================================
