----------------------------- MODULE AuthService -----------------------------
(***************************************************************************)
(* Login with lockout, rotation of refresh tokens with reuse detection, and*)
(* logout (auth.service.ts, token.service.ts, auth.repository.ts).  No     *)
(* operation runs in a transaction: each await is a statement of its own,  *)
(* and each slot of Calls holds one call in flight.  A family of tokens is *)
(* named by the token its login issued.                                    *)
(***************************************************************************)
EXTENDS Integers, FiniteSets

CONSTANTS
  Users, Tokens,
  Calls,        \* slots for calls in flight
  None,
  Operations,   \* the calls made: subset of {"login", "refresh", "logout"}
  MaxFailed,    \* auth.maxFailedAttempts
  MaxCalls,     \* bound: calls started
  MaxFailures   \* bound: calls that die, or whose answer is lost

ASSUME AuthConstantsOK ==
  /\ None \notin Users \cup Tokens
  /\ MaxFailed \in Nat \ {0}
  /\ {MaxCalls, MaxFailures} \subseteq Nat

VARIABLES
  token,     \* rows of refresh_tokens
  user,      \* failedLoginAttempts and lockedUntil of each user
  call,      \* calls in flight
  known,     \* tokens whose raw value has been answered to somebody
  started, failures,   \* counters behind the bounds
  (* history: what happened, read by no action *)
  closed,      \* families revoked by a logout or after a reuse
  overlapped,  \* families and users two calls were in flight for at once
  wrong        \* wrong passwords verified since the last success or lock

tables == <<token, user>>
authHistory == <<closed, overlapped, wrong>>
authVars == <<tables, call, known, started, failures, authHistory>>

MaybeToken == Tokens \cup {None}
Unused == [state |-> "unused", family |-> None, user |-> None, expired |-> FALSE]
NoCall == [pc |-> "idle", op |-> "login", user |-> None, stored |-> None,
           family |-> None, issued |-> None, good |-> FALSE,
           seen |-> [failed |-> 0, lock |-> "none"]]

AuthInit ==
  /\ token = [t \in Tokens |-> Unused]
  /\ user = [u \in Users |-> [failed |-> 0, lock |-> "none"]]
  /\ call = [c \in Calls |-> NoCall]
  /\ known = {} /\ closed = {} /\ overlapped = {}
  /\ wrong = [u \in Users |-> 0]
  /\ started = 0 /\ failures = 0

-----------------------------------------------------------------------------
CallAt(c, pc) == call[c].pc = pc
CallGoto(c, pc) == call' = [call EXCEPT ![c].pc = pc]

\* Another call is in flight for the family or the user x.
Busy(x) == \E c \in Calls : call[c].pc # "idle" /\ x \in {call[c].family, call[c].user}

\* Slots and tokens are interchangeable: the first free one is taken.
FreeCall == CHOOSE c \in Calls : CallAt(c, "idle")
FreeToken == CHOOSE t \in Tokens : token[t].state = "unused"

BeginCall(c, x, r) ==
  /\ CallAt(c, "idle") /\ c = FreeCall
  /\ r.op \in Operations
  /\ started < MaxCalls
  /\ started' = started + 1
  /\ call' = [call EXCEPT ![c] = r]
  /\ overlapped' = IF Busy(x) THEN overlapped \cup {x} ELSE overlapped
  /\ UNCHANGED <<tables, known, failures, closed, wrong>>

Live(f) == {t \in Tokens : token[t].family = f /\ token[t].state = "live"}

-----------------------------------------------------------------------------
(* refresh and logout *)

\* findRefreshTokenByHash and the checks of the row found.  The user of a
\* token, read next, always exists.
StartRefresh(c, t) ==
  /\ t \in known
  /\ BeginCall(c, token[t].family,
       [NoCall EXCEPT !.op = "refresh", !.stored = t,
          !.family = token[t].family,
          !.pc = IF token[t].state = "revoked" THEN "family"
                 ELSE IF token[t].expired THEN "expire" ELSE "issue"])

StartLogout(c, t) ==
  /\ t \in known
  /\ BeginCall(c, token[t].family,
       [NoCall EXCEPT !.op = "logout", !.stored = t,
          !.family = token[t].family, !.pc = "family"])

\* Mutant: only the token presented is revoked.
RevokeFamily_OnlyStored(c) ==
  /\ CallAt(c, "family")
  /\ token' = [token EXCEPT ![call[c].stored].state = "revoked"]
  /\ closed' = closed \cup {call[c].family}
  /\ CallGoto(c, "refuse")
  /\ UNCHANGED <<user, known, started, failures, overlapped, wrong>>

\* revokeFamily: one UPDATE of every token not yet revoked.
RevokeFamily(c) ==
  LET f == call[c].family
  IN /\ CallAt(c, "family")
     /\ token' = [t \in Tokens |-> IF t \in Live(f)
                                  THEN [token[t] EXCEPT !.state = "revoked"]
                                  ELSE token[t]]
     /\ closed' = closed \cup {f}
     /\ CallGoto(c, "refuse")
     /\ UNCHANGED <<user, known, started, failures, overlapped, wrong>>

RevokeExpired(c) ==
  /\ CallAt(c, "expire")
  /\ token' = [token EXCEPT ![call[c].stored].state = "revoked"]
  /\ CallGoto(c, "refuse")
  /\ UNCHANGED <<user, known, started, failures, authHistory>>

\* issueRefreshToken, in the family of the token presented or, after a
\* login, in a new one.
Issue(c) ==
  /\ CallAt(c, "issue")
  /\ \E t \in Tokens : token[t].state = "unused"
  /\ LET n == FreeToken
         login == call[c].op = "login"
     IN /\ token' = [token EXCEPT ![n] =
             [state |-> "live", expired |-> FALSE,
              family |-> IF login THEN n ELSE call[c].family,
              user |-> IF login THEN call[c].user
                       ELSE token[call[c].stored].user]]
        /\ call' = [call EXCEPT ![c].issued = n,
                                ![c].pc = IF login THEN "answer" ELSE "rotate"]
  /\ UNCHANGED <<user, known, started, failures, authHistory>>

\* revokeRefreshToken of the token presented, whoever revoked it meanwhile.
Rotate(c) ==
  /\ CallAt(c, "rotate")
  /\ token' = [token EXCEPT ![call[c].stored].state = "revoked"]
  /\ CallGoto(c, "answer")
  /\ UNCHANGED <<user, known, started, failures, authHistory>>

\* The pair is signed and sent; or the call is refused.
Answer(c) ==
  /\ CallAt(c, "answer") \/ CallAt(c, "refuse")
  /\ known' = IF CallAt(c, "answer") THEN known \cup {call[c].issued} ELSE known
  /\ call' = [call EXCEPT ![c] = NoCall]
  /\ UNCHANGED <<tables, started, failures, authHistory>>

-----------------------------------------------------------------------------
(* login *)

\* findUserByEmail; a lock that has not run out refuses the call here.
StartLogin(c, u, good) ==
  /\ user[u].lock # "future"
  /\ BeginCall(c, u, [NoCall EXCEPT !.op = "login", !.user = u, !.good = good,
                                    !.seen = user[u], !.pc = "verify"])

\* The comparison of the hash.
Verify(c) ==
  LET r == call[c]
  IN /\ CallAt(c, "verify")
     /\ CallGoto(c, IF ~r.good THEN "fail"
                    ELSE IF r.seen.failed > 0 \/ r.seen.lock # "none"
                      THEN "reset" ELSE "members")
     /\ wrong' = [wrong EXCEPT ![r.user] = IF r.good THEN 0 ELSE @ + 1]
     /\ UNCHANGED <<tables, known, started, failures, closed, overlapped>>

\* Mutant: one attempt more than maxFailedAttempts.
RegisterFailedAttempt_OffByOne(c) ==
  LET u == call[c].user
      attempts == call[c].seen.failed + 1
  IN /\ CallAt(c, "fail")
     /\ user' = [user EXCEPT ![u] =
          IF attempts > MaxFailed THEN [failed |-> 0, lock |-> "future"]
          ELSE [@ EXCEPT !.failed = attempts]]
     /\ wrong' = [wrong EXCEPT ![u] = IF attempts > MaxFailed THEN 0 ELSE @]
     /\ CallGoto(c, "refuse")
     /\ UNCHANGED <<token, known, started, failures, closed, overlapped>>

\* registerFailedAttempt: computed from the row read before the comparison.
RegisterFailedAttempt(c) ==
  LET u == call[c].user
      attempts == call[c].seen.failed + 1
  IN /\ CallAt(c, "fail")
     /\ user' = [user EXCEPT ![u] =
          IF attempts >= MaxFailed THEN [failed |-> 0, lock |-> "future"]
          ELSE [@ EXCEPT !.failed = attempts]]
     /\ wrong' = [wrong EXCEPT ![u] = IF attempts >= MaxFailed THEN 0 ELSE @]
     /\ CallGoto(c, "refuse")
     /\ UNCHANGED <<token, known, started, failures, closed, overlapped>>

ResetAttempts(c) ==
  /\ CallAt(c, "reset")
  /\ user' = [user EXCEPT ![call[c].user] = [failed |-> 0, lock |-> "none"]]
  /\ CallGoto(c, "members")
  /\ UNCHANGED <<token, known, started, failures, authHistory>>

\* buildMemberships and resolveActiveTenant: the tenant asked for may not be
\* among the memberships.
ResolveTenant(c) ==
  /\ CallAt(c, "members")
  /\ \E pc \in {"issue", "refuse"} : CallGoto(c, pc)
  /\ UNCHANGED <<tables, known, started, failures, authHistory>>

-----------------------------------------------------------------------------
LockRunsOut(u) ==
  /\ user[u].lock = "future"
  /\ user' = [user EXCEPT ![u].lock = "past"]
  /\ UNCHANGED <<token, call, known, started, failures, authHistory>>

\* Tokens issued together run out together; only those anybody has matter.
TokenRunsOut(t) ==
  /\ t \in known /\ token[t].state = "live" /\ ~token[t].expired
  /\ token' = [token EXCEPT ![t].expired = TRUE]
  /\ UNCHANGED <<user, call, known, started, failures, authHistory>>

\* A crash, a lost connection to the database, or a lost answer.
Die(c) ==
  /\ ~CallAt(c, "idle") /\ failures < MaxFailures
  /\ failures' = failures + 1
  /\ call' = [call EXCEPT ![c] = NoCall]
  /\ UNCHANGED <<tables, known, started, authHistory>>

\* The steps of a call between its start and its answer.
ServerStep(c) ==
  \/ RevokeFamily(c) \/ RevokeExpired(c) \/ Rotate(c) \/ Issue(c)
  \/ Verify(c) \/ RegisterFailedAttempt(c) \/ ResetAttempts(c) \/ ResolveTenant(c)

AuthNext ==
  \/ \E c \in Calls :
       \/ \E t \in Tokens : StartRefresh(c, t) \/ StartLogout(c, t)
       \/ \E u \in Users, good \in BOOLEAN : StartLogin(c, u, good)
       \/ ServerStep(c) \/ Answer(c) \/ Die(c)
  \/ \E u \in Users : LockRunsOut(u)
  \/ \E t \in Tokens : TokenRunsOut(t)

AuthSpec == AuthInit /\ [][AuthNext]_authVars

-----------------------------------------------------------------------------
\* Calls for one family that do not overlap leave at most one token that is
\* valid and that anybody holds, although issuing and revoking are separate
\* statements and the process may die between them.  After a logout, or after a
\* token was presented again that had been rotated, nothing in the family is
\* valid: neither what clients hold nor what a call that died has left behind.
OneTokenPerFamily ==
  /\ \A s, t \in known :
       /\ token[s].family = token[t].family
       /\ token[s].family \notin overlapped
       /\ token[s].state = "live" /\ token[t].state = "live"
       => s = t
  /\ \A f \in closed \ overlapped : Live(f) = {}

\* A user's wrong passwords are all counted, whatever successes, locks and
\* expired locks come between them, as long as logins of one user do not
\* overlap and none dies: never maxFailedAttempts of them without a lock.
AttemptsAreCounted ==
  \A u \in Users \ overlapped :
    failures = 0 /\ ~Busy(u) => wrong[u] < MaxFailed
=============================================================================
