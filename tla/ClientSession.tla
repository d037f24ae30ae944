---------------------------- MODULE ClientSession ----------------------------
(***************************************************************************)
(* A client of AuthService: the interceptor that attaches the access token *)
(* to requests and renews it once on 401, login and logout.  "web" is the  *)
(* interceptor of the two Angular applications in one tab, "mobile" that of*)
(* the Flutter application.  An access token is named by the refresh token *)
(* issued with it; the API accepts it until it runs out, revoked or not.   *)
(***************************************************************************)
EXTENDS AuthService

CONSTANTS
  Kinds,      \* the clients looked at: subset of {"web", "mobile"}
  Requests,   \* requests the screens make
  MaxSessions \* bound: logins and logouts

ASSUME ClientConstantsOK ==
  {None, "login", "logout"} \cap Requests = {} /\ None \notin {"login", "logout"}

VARIABLES
  kind,       \* which client this is
  store,      \* the pair in localStorage or in the key store
  stale,      \* access tokens that have run out
  req,        \* requests of the screens
  refreshing, \* the single-flight flag, or the completer, is set
  awaits,     \* what the client awaits the answer of a call for
  sessions    \* counter behind MaxSessions

clientVars == <<kind, store, stale, req, refreshing, awaits, sessions>>
sessionVars == <<authVars, clientVars>>

ClientInit ==
  /\ AuthInit
  /\ kind \in Kinds
  /\ store = None /\ stale = {}
  /\ req = [r \in Requests |-> [pc |-> "idle", bearer |-> None]]
  /\ refreshing = FALSE
  /\ awaits = [c \in Calls |-> None]
  /\ sessions = 0

-----------------------------------------------------------------------------
ReqAt(r, pc) == req[r].pc = pc
Ended(r) == req[r].pc \in {"done", "failed"}
MoveTo(r, pc) == req' = [req EXCEPT ![r].pc = pc]

\* The answer is an error, or does not come.
RefusedOrLost(c) ==
  \/ CallAt(c, "refuse") /\ Answer(c)
  \/ Die(c)

\* onRequest: the token stored now is attached.
Send(r) ==
  /\ ReqAt(r, "idle") /\ store # None
  /\ req' = [req EXCEPT ![r] = [pc |-> "sent", bearer |-> store]]
  /\ UNCHANGED <<authVars, kind, store, stale, refreshing, awaits, sessions>>

Accepted(r) == req[r].bearer \notin stale \cup {None}

\* Data or an error other than 401: the request is over.
AnswerRequest(r) ==
  /\ ReqAt(r, "sent") /\ Accepted(r)
  /\ MoveTo(r, "done")
  /\ UNCHANGED <<authVars, kind, store, stale, refreshing, awaits, sessions>>

\* Mutant: every 401 starts a refresh of its own.
Unauthorized_NotSingleFlight(r) ==
  /\ ReqAt(r, "sent") /\ ~Accepted(r)
  /\ \/ /\ store = None
        /\ MoveTo(r, "failed")
        /\ UNCHANGED <<authVars, refreshing, awaits>>
     \/ \E c \in Calls :
          /\ store # None /\ StartRefresh(c, store)
          /\ refreshing' = TRUE
          /\ awaits' = [awaits EXCEPT ![c] = r]
          /\ MoveTo(r, "waiting")
  /\ UNCHANGED <<kind, store, stale, sessions>>

\* 401: wait for the refresh in flight or start one.  Without a token stored
\* the web client passes the error on; the mobile one signs out first.
Unauthorized(r) ==
  /\ ReqAt(r, "sent") /\ ~Accepted(r)
  /\ \/ /\ refreshing /\ (kind = "web" => store # None)
        /\ MoveTo(r, "waiting")
        /\ UNCHANGED <<authVars, refreshing, awaits>>
     \/ /\ store = None /\ (kind = "mobile" => ~refreshing)
        /\ MoveTo(r, IF kind = "web" THEN "failed" ELSE "expired")
        /\ UNCHANGED <<authVars, refreshing, awaits>>
     \/ \E c \in Calls :
          /\ ~refreshing /\ store # None
          /\ StartRefresh(c, store)
          /\ refreshing' = TRUE
          /\ awaits' = [awaits EXCEPT ![c] = r]
          /\ MoveTo(r, "waiting")
  /\ UNCHANGED <<kind, store, stale, sessions>>

\* The new pair is stored and published.  On the web the request that asked
\* for it and those that waited are sent again with it at once.
Refreshed(c) ==
  LET n == call[c].issued
  IN /\ awaits[c] \in Requests /\ CallAt(c, "answer") /\ Answer(c)
     /\ store' = n
     /\ refreshing' = FALSE
     /\ awaits' = [awaits EXCEPT ![c] = None]
     /\ req' = [r \in Requests |->
          IF ~ReqAt(r, "waiting") \/ (r # awaits[c] /\ r \in {awaits[d] : d \in Calls})
            THEN req[r]
          ELSE IF kind = "mobile" THEN [req[r] EXCEPT !.pc = "resume"]
          ELSE [pc |-> IF r = awaits[c] THEN "retry" ELSE "retryWaiter",
                bearer |-> n]]
     /\ UNCHANGED <<kind, stale, sessions>>

\* Mutant: as on the web, only the request that started the refresh hears of
\* its failure.
RefreshFailed_WaitersForgotten(c) ==
  /\ awaits[c] \in Requests
  /\ RefusedOrLost(c)
  /\ refreshing' = FALSE
  /\ awaits' = [awaits EXCEPT ![c] = None]
  /\ MoveTo(awaits[c], IF kind = "web" THEN "failed" ELSE "expired")
  /\ store' = IF kind = "web" THEN None ELSE store
  /\ UNCHANGED <<kind, stale, sessions>>

\* Refused, or no answer came.  The web client clears the session and tells
\* the request that asked; the mobile one tells all, and they clear it.
RefreshFailed(c) ==
  /\ awaits[c] \in Requests
  /\ RefusedOrLost(c)
  /\ refreshing' = FALSE
  /\ awaits' = [awaits EXCEPT ![c] = None]
  /\ IF kind = "web"
       THEN MoveTo(awaits[c], "failed") /\ store' = None
       ELSE /\ req' = [r \in Requests |-> IF ReqAt(r, "waiting")
                         THEN [req[r] EXCEPT !.pc = "expired"] ELSE req[r]]
            /\ UNCHANGED store
  /\ UNCHANGED <<kind, stale, sessions>>

\* mobile: _retry reads the store again; without a pair the old header stays.
Resume(r) ==
  /\ ReqAt(r, "resume")
  /\ req' = [req EXCEPT ![r] = [pc |-> "retryWaiter",
                                bearer |-> IF store = None THEN @.bearer ELSE store]]
  /\ UNCHANGED <<authVars, kind, store, stale, refreshing, awaits, sessions>>

\* mobile: onSessionExpired, then the error is passed on.
SignOut(r) ==
  /\ ReqAt(r, "expired")
  /\ store' = None
  /\ MoveTo(r, "failed")
  /\ UNCHANGED <<authVars, kind, stale, refreshing, awaits, sessions>>

\* The answer to a request sent again: no second refresh.
AnswerRetry(r) ==
  /\ ReqAt(r, "retryWaiter")
  /\ \E pc \in IF Accepted(r) THEN {"done"} ELSE {"failed"} : MoveTo(r, pc)
  /\ UNCHANGED <<authVars, kind, store, stale, refreshing, awaits, sessions>>

\* web: the catchError behind the refresh also sees every error of the
\* request sent again.
AnswerOwnRetry(r) ==
  /\ ReqAt(r, "retry")
  /\ \/ /\ Accepted(r)
        /\ MoveTo(r, "done")
        /\ UNCHANGED <<store, refreshing>>
     \/ /\ MoveTo(r, "failed")
        /\ refreshing' = FALSE
        /\ store' = None
  /\ UNCHANGED <<authVars, kind, stale, awaits, sessions>>

-----------------------------------------------------------------------------
\* The login page is reached without a session only.
Login(c, u) ==
  /\ store = None /\ sessions < MaxSessions
  /\ \A d \in Calls : awaits[d] # "login"
  /\ StartLogin(c, u, TRUE)
  /\ awaits' = [awaits EXCEPT ![c] = "login"]
  /\ sessions' = sessions + 1
  /\ UNCHANGED <<kind, store, stale, req, refreshing>>

LoggedIn(c) ==
  /\ awaits[c] = "login"
  /\ \/ CallAt(c, "answer") /\ Answer(c) /\ store' = call[c].issued
     \/ RefusedOrLost(c) /\ UNCHANGED store
  /\ awaits' = [awaits EXCEPT ![c] = None]
  /\ UNCHANGED <<kind, stale, req, refreshing, sessions>>

Logout(c) ==
  /\ store # None /\ sessions < MaxSessions
  /\ \A d \in Calls : awaits[d] # "logout"
  /\ StartLogout(c, store)
  /\ awaits' = [awaits EXCEPT ![c] = "logout"]
  /\ sessions' = sessions + 1
  /\ UNCHANGED <<kind, store, stale, req, refreshing>>

\* Answered or failed, the session is cleared.
LoggedOut(c) ==
  /\ awaits[c] = "logout"
  /\ RefusedOrLost(c)
  /\ store' = None
  /\ awaits' = [awaits EXCEPT ![c] = None]
  /\ UNCHANGED <<kind, stale, req, refreshing, sessions>>

AccessRunsOut(t) ==
  /\ t \in known \ stale
  /\ stale' = stale \cup {t}
  /\ UNCHANGED <<authVars, kind, store, req, refreshing, awaits, sessions>>

-----------------------------------------------------------------------------
ServerRuns(c) == ServerStep(c) /\ UNCHANGED clientVars
Progress(r) ==
  \/ AnswerRequest(r) \/ Unauthorized(r) \/ Resume(r) \/ SignOut(r)
  \/ AnswerRetry(r) \/ AnswerOwnRetry(r)
Arrives(c) == Refreshed(c) \/ RefreshFailed(c) \/ LoggedIn(c) \/ LoggedOut(c)

ClientNext ==
  \/ \E r \in Requests : Send(r) \/ Progress(r)
  \/ \E c \in Calls :
       ServerRuns(c) \/ Arrives(c) \/ Logout(c) \/ \E u \in Users : Login(c, u)
  \/ \E t \in Tokens : AccessRunsOut(t)

ClientSpec == ClientInit /\ [][ClientNext]_sessionVars

\* The API answers every request, and the client reads every answer.
ClientFairness ==
  /\ \A r \in Requests : WF_sessionVars(Progress(r))
  /\ \A c \in Calls : WF_sessionVars(ServerRuns(c)) /\ WF_sessionVars(Arrives(c))

-----------------------------------------------------------------------------
\* The web client, alone with its storage, never presents a rotated token
\* again, although refreshes may overlap (a retried request that fails resets
\* the flag), answers get lost, and sessions end and begin meanwhile: the
\* server meets a revoked token only after a logout.
NeverReuses ==
  [][kind = "web" => \A c \in Calls :
       RevokeFamily(c) /\ call[c].op = "refresh" => call[c].family \in closed]_sessionVars

\* Waits for a refresh nobody is waiting for.
Stranded(r) == kind = "web" /\ ReqAt(r, "waiting") /\ r \notin {awaits[c] : c \in Calls}
                 /\ ~refreshing

\* Every request ends, on the web unless it waited for a refresh that failed.
RequestsEnd == \A r \in Requests : ReqAt(r, "sent") ~> (Ended(r) \/ Stranded(r))
=============================================================================
