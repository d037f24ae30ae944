----------------------------- MODULE LoopsProofs -----------------------------
(***************************************************************************)
(* Sessions, and the walks along stored references: for any number of      *)
(* users, tokens and calls in flight, what the statements of login,        *)
(* refresh and logout keep true between them although none of them runs in *)
(* a transaction; for any family, any units and any import file, what the  *)
(* loops over references to fathers, to parents of units and to rows find. *)
(***************************************************************************)
EXTENDS ClientSession, ImportFile, AccessScope, TreeReading, FiniteSetTheorems,
        WellFoundedInduction, TLAPS

Phases == {"idle", "issue", "rotate", "answer", "refuse", "family", "expire",
           "verify", "fail", "reset", "members"}
Attempts == [failed : Nat, lock : {"none", "future", "past"}]
MaybeUser == Users \cup {None}

TokenRows == [state : {"unused", "live", "revoked"}, family : MaybeToken,
              user : MaybeUser, expired : BOOLEAN]
CallRecords == [pc : Phases, op : {"login", "refresh", "logout"}, user : MaybeUser,
                stored : MaybeToken, family : MaybeToken, issued : MaybeToken,
                good : BOOLEAN, seen : Attempts]

AuthTypeOK ==
  /\ token \in [Tokens -> TokenRows] /\ call \in [Calls -> CallRecords]
  /\ user \in [Users -> Attempts] /\ wrong \in [Users -> Nat]
  /\ known \subseteq Tokens /\ closed \subseteq Tokens
  /\ failures \in Nat

-----------------------------------------------------------------------------
(* Tokens *)

\* A token that no call has issued yet is known to nobody and names no family;
\* one that is issued has a family.
Fresh(t) ==
  IF token[t].state = "unused"
  THEN /\ t \notin known \cup closed
       /\ \A s \in Tokens : token[s].family # t
       /\ \A c \in Calls : call[c].family # t
  ELSE token[t].family \in Tokens

Issued(c) == call[c].pc \in {"rotate", "answer"}

\* What a call carries from one statement to the next.
Carries(c) ==
  /\ call[c].pc \in {"verify", "fail", "reset", "members"} => call[c].op = "login"
  /\ call[c].pc \in {"rotate", "expire"} => call[c].op = "refresh"
  /\ call[c].pc = "family" => call[c].op # "login"
  /\ call[c].pc \in {"issue", "answer"} => call[c].op # "logout"
  /\ call[c].pc = "idle" \/ call[c].op = "login" => call[c].family = None
  /\ call[c].pc # "idle" /\ call[c].op # "login" =>
       /\ call[c].user = None
       /\ call[c].stored \in known /\ call[c].family \in Tokens
       /\ token[call[c].stored].family = call[c].family
  /\ Issued(c) =>
       /\ call[c].issued \in Tokens \ known /\ token[call[c].issued].state # "unused"
       /\ call[c].op = "refresh" => token[call[c].issued].family = call[c].family
       /\ call[c].op = "login" =>
            /\ token[call[c].issued].family = call[c].issued
            /\ \A t \in known : token[t].family # call[c].issued

IssuedApart ==
  \A c, d \in Calls : c # d /\ Issued(c) /\ Issued(d) => call[c].issued # call[d].issued

Held(f) == Live(f) \cap known

\* A call for f knows the token of f that clients hold, and issues to no family
\* that is closed.
Knows(c, f) ==
  call[c].family = f =>
    /\ call[c].pc = "issue" => f \notin closed
    /\ call[c].pc \in {"issue", "rotate"} => Held(f) \subseteq {call[c].stored}
    /\ call[c].pc = "answer" => Held(f) = {}

\* A family that no two calls were in flight for at once.
Single(f) ==
  /\ \A c, d \in Calls : call[c].family = f /\ call[d].family = f => c = d
  /\ \A s, t \in Held(f) : s = t
  /\ f \in closed => Live(f) = {}
  /\ \A c \in Calls : Knows(c, f)

TokenInv ==
  /\ AuthTypeOK /\ IssuedApart
  /\ \A t \in Tokens : Fresh(t)
  /\ \A c \in Calls : Carries(c)
  /\ \A f \in Tokens \ overlapped : Single(f)

-----------------------------------------------------------------------------
(* Attempts *)

LoginOf(c, u) == call[c].pc # "idle" /\ call[c].user = u

\* The row counts the wrong passwords, but for the one just compared.
Counts(u) == wrong[u] = user[u].failed /\ wrong[u] < MaxFailed

Counted(u) ==
  /\ \A c, d \in Calls : LoginOf(c, u) /\ LoginOf(d, u) => c = d
  /\ (\A c \in Calls : ~LoginOf(c, u)) => Counts(u)
  /\ \A c \in Calls : LoginOf(c, u) =>
       /\ call[c].pc \in {"verify", "fail"} =>
            call[c].seen.failed = user[u].failed /\ user[u].failed < MaxFailed
       /\ call[c].pc = "verify" =>
            /\ call[c].seen.lock = user[u].lock /\ user[u].lock # "future"
            /\ wrong[u] = user[u].failed
       /\ call[c].pc = "fail" => wrong[u] = user[u].failed + 1
       /\ call[c].pc = "reset" => wrong[u] = 0
       /\ call[c].pc \notin {"verify", "fail", "reset"} => Counts(u)

AttemptsInv ==
  failures = 0 => \A u \in Users \ overlapped : Counted(u)

-----------------------------------------------------------------------------
(* Records *)

LEMMA NoCallFields ==
  /\ NoCall \in CallRecords /\ NoCall.pc = "idle" /\ NoCall.op = "login"
  /\ NoCall.user = None /\ NoCall.family = None
BY DEF NoCall, CallRecords, Phases, Attempts, MaybeUser, MaybeToken

\* The calls that StartRefresh and StartLogout, and StartLogin, begin.
SessionRec(op, t, f, pc) == [NoCall EXCEPT !.op = op, !.stored = t, !.family = f, !.pc = pc]
LoginRec(u, good, found) == [NoCall EXCEPT !.op = "login", !.user = u, !.good = good,
                                          !.seen = found, !.pc = "verify"]

LEMMA SessionCallFields ==
  ASSUME NEW op \in {"refresh", "logout"}, NEW t \in Tokens, NEW f \in MaybeToken,
         NEW pc \in {"family", "expire", "issue"}
  PROVE  LET r == SessionRec(op, t, f, pc)
         IN  /\ r \in CallRecords /\ r.pc = pc /\ r.op = op /\ r.user = None
             /\ r.stored = t /\ r.family = f
<1>0. PICK r : r = SessionRec(op, t, f, pc)
  OBVIOUS
<1>1. PICK x \in CallRecords : x = [NoCall EXCEPT !.op = op]
  BY NoCallFields DEF CallRecords
<1>2. x.op = op /\ x.user = None
  BY <1>1, NoCallFields DEF CallRecords
<1>3. PICK y \in CallRecords : y = [x EXCEPT !.stored = t]
  BY DEF CallRecords, MaybeToken
<1>4. y.op = op /\ y.user = None /\ y.stored = t
  BY <1>2, <1>3 DEF CallRecords
<1>5. PICK z \in CallRecords : z = [y EXCEPT !.family = f]
  BY DEF CallRecords
<1>6. z.op = op /\ z.user = None /\ z.stored = t /\ z.family = f
  BY <1>4, <1>5 DEF CallRecords
<1>7. r = [z EXCEPT !.pc = pc]
  BY <1>0, <1>1, <1>3, <1>5, Zenon DEF SessionRec
<1>8. r \in CallRecords
  BY <1>7 DEF CallRecords, Phases
<1>9. r.pc = pc /\ r.op = op /\ r.user = None /\ r.stored = t /\ r.family = f
  BY <1>6, <1>7 DEF CallRecords
<1>10. QED
  BY <1>0, <1>8, <1>9

LEMMA LoginCallFields ==
  ASSUME NEW u \in Users, NEW good \in BOOLEAN, NEW found \in Attempts
  PROVE  LET r == LoginRec(u, good, found)
         IN  /\ r \in CallRecords /\ r.pc = "verify" /\ r.op = "login" /\ r.user = u
             /\ r.family = None /\ r.seen = found
<1>0. PICK r : r = LoginRec(u, good, found)
  OBVIOUS
<1>1. PICK x \in CallRecords : x = [NoCall EXCEPT !.op = "login"]
  BY NoCallFields DEF CallRecords
<1>2. x.op = "login" /\ x.family = None
  BY <1>1, NoCallFields DEF CallRecords
<1>3. PICK y \in CallRecords : y = [x EXCEPT !.user = u]
  BY DEF CallRecords, MaybeUser
<1>4. y.op = "login" /\ y.family = None /\ y.user = u
  BY <1>2, <1>3 DEF CallRecords
<1>5. PICK z \in CallRecords : z = [y EXCEPT !.good = good]
  BY DEF CallRecords
<1>6. z.op = "login" /\ z.family = None /\ z.user = u
  BY <1>4, <1>5 DEF CallRecords
<1>7. PICK w \in CallRecords : w = [z EXCEPT !.seen = found]
  BY DEF CallRecords
<1>8. w.op = "login" /\ w.family = None /\ w.user = u /\ w.seen = found
  BY <1>6, <1>7 DEF CallRecords
<1>9. r = [w EXCEPT !.pc = "verify"]
  BY <1>0, <1>1, <1>3, <1>5, <1>7, Zenon DEF LoginRec
<1>10. r \in CallRecords
  BY <1>9 DEF CallRecords, Phases
<1>11. r.pc = "verify" /\ r.op = "login" /\ r.user = u /\ r.family = None /\ r.seen = found
  BY <1>8, <1>9 DEF CallRecords
<1>12. QED
  BY <1>0, <1>10, <1>11

\* A call that goes on keeps everything but its place.
LEMMA GotoFields ==
  ASSUME AuthTypeOK, NEW c \in Calls, NEW pc \in Phases, CallGoto(c, pc)
  PROVE  /\ call' \in [Calls -> CallRecords]
         /\ \A d \in Calls \ {c} : call'[d] = call[d]
         /\ call'[c].pc = pc /\ call'[c].op = call[c].op /\ call'[c].user = call[c].user
         /\ call'[c].stored = call[c].stored /\ call'[c].family = call[c].family
         /\ call'[c].issued = call[c].issued /\ call'[c].seen = call[c].seen
<1>1. PICK r \in CallRecords : r = [call[c] EXCEPT !.pc = pc]
  BY DEF AuthTypeOK, CallRecords
<1>2. call' = [call EXCEPT ![c] = r]
  BY <1>1 DEF CallGoto
<1>3. call'[c] = r /\ call' \in [Calls -> CallRecords] /\ \A d \in Calls \ {c} : call'[d] = call[d]
  BY <1>2 DEF AuthTypeOK
<1>4. /\ r.pc = pc /\ r.op = call[c].op /\ r.user = call[c].user /\ r.stored = call[c].stored
      /\ r.family = call[c].family /\ r.issued = call[c].issued /\ r.seen = call[c].seen
  BY <1>1 DEF AuthTypeOK, CallRecords
<1>5. QED
  BY <1>3, <1>4

\* A token that is revoked keeps its family.
LEMMA RevokeFields ==
  ASSUME AuthTypeOK, NEW t \in Tokens, token' = [token EXCEPT ![t].state = "revoked"]
  PROVE  /\ token' \in [Tokens -> TokenRows] /\ token'[t].state = "revoked"
         /\ \A s \in Tokens : token'[s].family = token[s].family
         /\ \A s \in Tokens \ {t} : token'[s] = token[s]
<1>1. PICK row \in TokenRows : row = [token[t] EXCEPT !.state = "revoked"]
  BY DEF AuthTypeOK, TokenRows
<1>2. row.state = "revoked" /\ row.family = token[t].family
  BY <1>1 DEF AuthTypeOK, TokenRows
<1>3. token' = [token EXCEPT ![t] = row]
  BY <1>1
<1>4. QED
  BY <1>2, <1>3 DEF AuthTypeOK

-----------------------------------------------------------------------------
(* The inductive invariant *)

LEMMA AuthStarts == AuthInit => TokenInv /\ AttemptsInv
<1> SUFFICES ASSUME AuthInit PROVE TokenInv /\ AttemptsInv
  OBVIOUS
<1>1. \A c \in Calls : /\ call[c] = NoCall /\ call[c].pc = "idle" /\ call[c].op = "login"
                        /\ call[c].user = None /\ call[c].family = None
  BY NoCallFields DEF AuthInit
<1>2. \A t \in Tokens : token[t] \in TokenRows /\ token[t].state = "unused" /\ token[t].family = None
  BY DEF AuthInit, Unused, TokenRows, MaybeToken, MaybeUser
<1>3. \A u \in Users : user[u] \in Attempts /\ user[u].failed = 0 /\ wrong[u] = 0
  BY DEF AuthInit, Attempts
<1>4. AuthTypeOK
  BY <1>1, <1>2, <1>3, NoCallFields DEF AuthInit, AuthTypeOK
<1>5. \A f \in Tokens : Live(f) = {} /\ Held(f) = {}
  BY <1>2 DEF Live, Held
<1>6. TokenInv
  <2>1. IssuedApart
    BY <1>1 DEF IssuedApart, Issued
  <2>2. \A t \in Tokens : Fresh(t)
    BY <1>1, <1>2, AuthConstantsOK DEF Fresh, AuthInit
  <2>3. \A c \in Calls : Carries(c)
    BY <1>1 DEF Carries, Issued
  <2>4. \A f \in Tokens \ overlapped : Single(f)
    BY <1>1, <1>5, AuthConstantsOK DEF Single, Knows
  <2>5. QED
    BY <1>4, <2>1, <2>2, <2>3, <2>4 DEF TokenInv
<1>7. AttemptsInv
  BY <1>1, <1>3, AuthConstantsOK DEF AttemptsInv, Counted, LoginOf, Counts
<1>8. QED
  BY <1>6, <1>7

\* Tokens are revoked, or stay as they are.
OnlyRevokes ==
  \A t \in Tokens :
    /\ token'[t].family = token[t].family
    /\ \/ token'[t].state = token[t].state
       \/ token'[t].state = "revoked" /\ token[t].state # "unused"

\* A statement that issues nothing: what one call carries is all there is to
\* show of it, and that a family it closes has nothing left that is valid.
LEMMA Onward ==
  ASSUME TokenInv, AuthTypeOK', NEW c \in Calls, OnlyRevokes,
         known' = known, overlapped' = overlapped,
         \A d \in Calls \ {c} : call'[d] = call[d],
         call'[c].family \in {call[c].family, None}, call'[c].issued = call[c].issued \/ ~Issued(c)',
         Issued(c)' => Issued(c), Carries(c)',
         \/ closed' = closed
         \/ /\ closed' = closed \cup {call[c].family} /\ call[c].family \in Tokens
            /\ \A t \in Tokens : token[t].family = call[c].family => token'[t].state # "live"
            /\ \E t \in Tokens : token[t].family = call[c].family,
         \A f \in Tokens \ overlapped : Knows(c, f)'
  PROVE  TokenInv'
<1>1. /\ AuthTypeOK /\ IssuedApart /\ \A t \in Tokens : Fresh(t)
      /\ \A d \in Calls : Carries(d)
      /\ \A f \in Tokens \ overlapped : Single(f)
  BY DEF TokenInv
<1>2. \A f \in Tokens : Live(f)' \subseteq Live(f) /\ Held(f)' \subseteq Held(f)
  BY DEF Live, Held, OnlyRevokes
<1>3. IssuedApart'
  BY <1>1 DEF IssuedApart, Issued
<1>4. ASSUME NEW t \in Tokens PROVE Fresh(t)'
  <2>1. token'[t].state = "unused" <=> token[t].state = "unused"
    BY DEF OnlyRevokes
  <2>2. CASE token[t].state = "unused"
    <3>1. /\ t \notin known \cup closed /\ \A s \in Tokens : token[s].family # t
          /\ \A d \in Calls : call[d].family # t
      BY <1>1, <2>2 DEF Fresh
    <3>2. \A d \in Calls : call'[d].family # t
      BY <3>1, AuthConstantsOK
    <3>3. t \notin known' \cup closed'
      BY <3>1
    <3>4. \A s \in Tokens : token'[s].family # t
      BY <3>1 DEF OnlyRevokes
    <3>5. QED
      BY <2>1, <2>2, <3>2, <3>3, <3>4 DEF Fresh
  <2>3. CASE token[t].state # "unused"
    <3>1. token[t].family \in Tokens
      BY <1>1, <2>3 DEF Fresh
    <3>2. QED
      BY <2>1, <2>3, <3>1 DEF Fresh, OnlyRevokes
  <2>4. QED
    BY <2>2, <2>3
<1>5. ASSUME NEW d \in Calls \ {c} PROVE Carries(d)'
  <2>1. Carries(d) /\ call'[d] = call[d] /\ known \subseteq Tokens
    BY <1>1 DEF AuthTypeOK
  <2>2. QED
    BY <2>1 DEF Carries, Issued, OnlyRevokes
<1>6. ASSUME NEW f \in Tokens \ overlapped PROVE Single(f)'
  <2>1. Single(f)
    BY <1>1
  <2>2. \A d, e \in Calls : call'[d].family = f /\ call'[e].family = f => d = e
    BY <2>1, AuthConstantsOK DEF Single
  <2>3. \A s, t \in Held(f)' : s = t
    BY <1>2, <2>1 DEF Single
  <2>4. f \in closed' => Live(f)' = {}
    <3>1. CASE f \in closed
      BY <1>2, <2>1, <3>1 DEF Single
    <3>2. CASE f = call[c].family /\ closed' # closed
      BY <3>2 DEF Live, OnlyRevokes
    <3>3. QED
      BY <3>1, <3>2
  <2>5. ASSUME NEW d \in Calls \ {c} PROVE Knows(d, f)'
    <3>1. Knows(d, f) /\ call'[d] = call[d]
      BY <2>1 DEF Single
    <3>2. call[d].family = f /\ call[c].family = f => FALSE
      BY <2>1 DEF Single
    <3>3. QED
      BY <1>2, <3>1, <3>2 DEF Knows
  <2>6. QED
    BY <2>2, <2>3, <2>4, <2>5 DEF Single
<1>7. QED
  BY <1>3, <1>4, <1>5, <1>6 DEF TokenInv

\* Steps that leave the calls alone: a lock or a token runs out, or nothing does.
LEMMA NoCallMoves ==
  ASSUME TokenInv, AuthTypeOK', UNCHANGED <<call, known, closed, overlapped>>,
         \A t \in Tokens : token'[t].family = token[t].family /\ token'[t].state = token[t].state
  PROVE  TokenInv'
<1>1. \A f : Live(f)' = Live(f) /\ Held(f)' = Held(f)
  BY DEF Live, Held
<1>2. IssuedApart' /\ \A t \in Tokens : Fresh(t)'
  BY DEF TokenInv, IssuedApart, Issued, Fresh
<1>3. \A c \in Calls : Carries(c)'
  BY DEF TokenInv, AuthTypeOK, Carries, Issued
<1>4. \A f \in Tokens \ overlapped : Single(f)'
  BY <1>1 DEF TokenInv, Single, Knows
<1>5. QED
  BY <1>2, <1>3, <1>4 DEF TokenInv

LEMMA TokenRunsOutKeeps == ASSUME TokenInv, NEW t \in Tokens, TokenRunsOut(t) PROVE TokenInv'
<1>1. PICK row \in TokenRows : row = [token[t] EXCEPT !.expired = TRUE]
  BY DEF TokenInv, AuthTypeOK, TokenRows
<1>2. row.state = token[t].state /\ row.family = token[t].family
  BY <1>1 DEF TokenInv, AuthTypeOK, TokenRows
<1>3. token' = [token EXCEPT ![t] = row]
  BY <1>1 DEF TokenRunsOut
<1>4. AuthTypeOK'
  BY <1>3 DEF TokenInv, AuthTypeOK, TokenRunsOut, authHistory
<1>5. QED
  BY <1>2, <1>3, <1>4, NoCallMoves DEF TokenInv, AuthTypeOK, TokenRunsOut, authHistory

LEMMA LockRunsOutKeeps == ASSUME TokenInv, NEW u \in Users, LockRunsOut(u) PROVE TokenInv'
<1>1. [user[u] EXCEPT !.lock = "past"] \in Attempts
  BY DEF TokenInv, AuthTypeOK, Attempts
<1>2. AuthTypeOK'
  BY <1>1 DEF TokenInv, AuthTypeOK, LockRunsOut, authHistory
<1>3. QED
  BY <1>2, NoCallMoves DEF LockRunsOut, authHistory

\* The steps of a login read and write no token.
LEMMA LoginStepKeeps ==
  ASSUME TokenInv, NEW c \in Calls, AuthTypeOK', UNCHANGED <<token, known, closed, overlapped>>,
         call[c].pc \in {"verify", "fail", "reset", "members"},
         NEW pc \in {"fail", "reset", "members", "issue", "refuse"}, CallGoto(c, pc)
  PROVE  TokenInv'
<1>1. /\ call'[c].pc = pc /\ call'[c].op = call[c].op /\ call'[c].family = call[c].family
      /\ call'[c].issued = call[c].issued /\ \A d \in Calls \ {c} : call'[d] = call[d]
  BY GotoFields DEF TokenInv, Phases
<1>2. call[c].op = "login" /\ call[c].family = None
  BY DEF TokenInv, Carries
<1>3. Carries(c)' /\ ~Issued(c)'
  BY <1>1, <1>2 DEF Carries, Issued
<1>4. \A f \in Tokens \ overlapped : Knows(c, f)'
  BY <1>1, <1>2, AuthConstantsOK DEF Knows
<1>5. OnlyRevokes
  BY DEF OnlyRevokes
<1>6. QED
  BY <1>1, <1>3, <1>4, <1>5, Onward

LEMMA VerifyKeeps == ASSUME TokenInv, NEW c \in Calls, Verify(c) PROVE TokenInv'
<1>1. PICK pc \in {"fail", "reset", "members"} : CallGoto(c, pc)
  BY DEF Verify
<1>2. call' \in [Calls -> CallRecords]
  BY <1>1, GotoFields DEF TokenInv, Phases
<1>3. wrong' \in [Users -> Nat]
  <2>1. \/ wrong' = [wrong EXCEPT ![call[c].user] = 0]
        \/ wrong' = [wrong EXCEPT ![call[c].user] = @ + 1]
    BY Zenon DEF Verify
  <2>2. QED
    BY <2>1 DEF TokenInv, AuthTypeOK
<1>4. AuthTypeOK'
  BY <1>2, <1>3 DEF Verify, TokenInv, AuthTypeOK, tables
<1>5. QED
  BY <1>1, <1>4, LoginStepKeeps DEF Verify, tables, CallAt

LEMMA RegisterFailedAttemptKeeps ==
  ASSUME TokenInv, NEW c \in Calls, RegisterFailedAttempt(c) PROVE TokenInv'
<1>1. CallGoto(c, "refuse") /\ call' \in [Calls -> CallRecords]
  BY GotoFields DEF RegisterFailedAttempt, TokenInv, Phases
<1>2. call[c].seen.failed + 1 \in Nat
  BY DEF TokenInv, AuthTypeOK, CallRecords, Attempts
<1>3. user' \in [Users -> Attempts]
  BY <1>2 DEF RegisterFailedAttempt, TokenInv, AuthTypeOK, Attempts
<1>4. wrong' \in [Users -> Nat]
  BY DEF RegisterFailedAttempt, TokenInv, AuthTypeOK
<1>5. AuthTypeOK'
  BY <1>1, <1>3, <1>4 DEF RegisterFailedAttempt, TokenInv, AuthTypeOK
<1>6. QED
  BY <1>1, <1>5, LoginStepKeeps DEF RegisterFailedAttempt, CallAt

LEMMA ResetAttemptsKeeps == ASSUME TokenInv, NEW c \in Calls, ResetAttempts(c) PROVE TokenInv'
<1>1. CallGoto(c, "members") /\ call' \in [Calls -> CallRecords]
  BY GotoFields DEF ResetAttempts, TokenInv, Phases
<1>2. user' \in [Users -> Attempts]
  BY DEF ResetAttempts, TokenInv, AuthTypeOK, Attempts
<1>3. AuthTypeOK'
  BY <1>1, <1>2 DEF ResetAttempts, TokenInv, AuthTypeOK, authHistory
<1>4. QED
  BY <1>1, <1>3, LoginStepKeeps DEF ResetAttempts, CallAt, authHistory

LEMMA ResolveTenantKeeps == ASSUME TokenInv, NEW c \in Calls, ResolveTenant(c) PROVE TokenInv'
<1>1. PICK pc \in {"issue", "refuse"} : CallGoto(c, pc)
  BY DEF ResolveTenant
<1>2. call' \in [Calls -> CallRecords]
  BY <1>1, GotoFields DEF TokenInv, Phases
<1>3. AuthTypeOK'
  BY <1>2 DEF ResolveTenant, TokenInv, AuthTypeOK, authHistory, tables
<1>4. QED
  BY <1>1, <1>3, LoginStepKeeps DEF ResolveTenant, CallAt, authHistory, tables

\* A call that ends, without an answer that carries a token.
LEMMA CallEnds ==
  ASSUME TokenInv, NEW c \in Calls, UNCHANGED <<tables, known, authHistory>>, failures' \in Nat,
         call' = [call EXCEPT ![c] = NoCall]
  PROVE  TokenInv'
<1>1. call'[c] = NoCall /\ \A d \in Calls \ {c} : call'[d] = call[d]
  BY DEF TokenInv, AuthTypeOK
<1>2. AuthTypeOK'
  BY NoCallFields DEF TokenInv, AuthTypeOK, tables, authHistory
<1>3. Carries(c)' /\ ~Issued(c)' /\ \A f \in Tokens \ overlapped : Knows(c, f)'
  BY <1>1, NoCallFields, AuthConstantsOK DEF Carries, Issued, Knows
<1>4. OnlyRevokes
  BY DEF OnlyRevokes, tables
<1>5. QED
  BY <1>1, <1>2, <1>3, <1>4, NoCallFields, Onward DEF authHistory

\* What TokenInv says of a call in the middle of a refresh or a logout.
LEMMA SessionCall ==
  ASSUME TokenInv, NEW c \in Calls, call[c].pc # "idle", call[c].op # "login"
  PROVE  /\ call[c].stored \in Tokens \cap known /\ call[c].family \in Tokens
         /\ token[call[c].stored].family = call[c].family
         /\ token[call[c].stored].state # "unused" /\ call[c].user = None
BY DEF TokenInv, AuthTypeOK, Carries, Fresh

LEMMA RevokeFamilyKeeps == ASSUME TokenInv, NEW c \in Calls, RevokeFamily(c) PROVE TokenInv'
<1> DEFINE f == call[c].family
<1>1. call[c].pc = "family" /\ call[c].op # "login" /\ call[c].pc # "idle"
  BY DEF RevokeFamily, CallAt, TokenInv, Carries
<1>2. /\ call' \in [Calls -> CallRecords] /\ \A d \in Calls \ {c} : call'[d] = call[d]
      /\ call'[c].pc = "refuse" /\ call'[c].op = call[c].op /\ call'[c].user = call[c].user
      /\ call'[c].stored = call[c].stored /\ call'[c].family = call[c].family
      /\ call'[c].issued = call[c].issued
  BY GotoFields DEF RevokeFamily, TokenInv, Phases
<1>3. ASSUME NEW t \in Tokens
      PROVE  /\ token'[t] \in TokenRows /\ token'[t].family = token[t].family
             /\ token'[t].state = IF t \in Live(f) THEN "revoked" ELSE token[t].state
  <2>1. PICK row \in TokenRows : row = [token[t] EXCEPT !.state = "revoked"]
    BY DEF TokenInv, AuthTypeOK, TokenRows
  <2>2. row.state = "revoked" /\ row.family = token[t].family
    BY <2>1 DEF TokenInv, AuthTypeOK, TokenRows
  <2>3. token'[t] = IF t \in Live(f) THEN row ELSE token[t]
    BY <2>1, Zenon DEF RevokeFamily
  <2>4. QED
    BY <2>2, <2>3 DEF TokenInv, AuthTypeOK
<1>4. token' \in [Tokens -> TokenRows]
  BY <1>3 DEF RevokeFamily
<1>5. OnlyRevokes
  BY <1>3 DEF OnlyRevokes, Live
<1>6. /\ f \in Tokens /\ call[c].stored \in Tokens \cap known
      /\ token[call[c].stored].family = f /\ call[c].user = None
  BY <1>1, SessionCall
<1>7. AuthTypeOK'
  BY <1>2, <1>4, <1>6 DEF RevokeFamily, TokenInv, AuthTypeOK
<1>8. known' = known /\ overlapped' = overlapped /\ closed' = closed \cup {f}
  BY DEF RevokeFamily
<1>9. Carries(c)' /\ ~Issued(c)'
  BY <1>1, <1>2, <1>3, <1>6, <1>8 DEF Carries, Issued
<1>10. \A g \in Tokens \ overlapped : Knows(c, g)'
  BY <1>2 DEF Knows
<1>11. \A t \in Tokens : token[t].family = f => token'[t].state # "live"
  BY <1>3 DEF Live
<1>12. QED
  BY <1>2, <1>5, <1>6, <1>7, <1>8, <1>9, <1>10, <1>11, Onward

\* A call revokes the token it was presented.
LEMMA StoredIsRevoked ==
  ASSUME TokenInv, NEW c \in Calls, call[c].pc # "idle", call[c].op = "refresh",
         NEW pc \in {"refuse", "answer"}, CallGoto(c, pc), pc = "answer" => call[c].pc = "rotate",
         token' = [token EXCEPT ![call[c].stored].state = "revoked"],
         UNCHANGED <<user, known, failures, authHistory>>
  PROVE  TokenInv'
<1> DEFINE f == call[c].family
           t == call[c].stored
<1>1. /\ f \in Tokens /\ t \in Tokens \cap known /\ token[t].family = f
      /\ token[t].state # "unused" /\ call[c].user = None
  BY SessionCall
<1>2. /\ call' \in [Calls -> CallRecords] /\ \A d \in Calls \ {c} : call'[d] = call[d]
      /\ call'[c].pc = pc /\ call'[c].op = call[c].op /\ call'[c].user = call[c].user
      /\ call'[c].stored = call[c].stored /\ call'[c].family = call[c].family
      /\ call'[c].issued = call[c].issued
  BY GotoFields DEF TokenInv, Phases
<1>3. /\ token' \in [Tokens -> TokenRows] /\ token'[t].state = "revoked"
      /\ \A s \in Tokens : token'[s].family = token[s].family
      /\ \A s \in Tokens \ {t} : token'[s] = token[s]
  BY <1>1, RevokeFields DEF TokenInv
<1>4. known' = known /\ overlapped' = overlapped /\ closed' = closed
  BY DEF authHistory
<1>5. OnlyRevokes
  BY <1>1, <1>3 DEF OnlyRevokes
<1>6. AuthTypeOK'
  BY <1>2, <1>3 DEF TokenInv, AuthTypeOK, authHistory
<1>7. Carries(c) /\ (Issued(c)' => Issued(c))
  BY <1>2 DEF TokenInv, Issued
<1>8. Carries(c)'
  BY <1>1, <1>2, <1>4, <1>5, <1>7 DEF Carries, Issued, OnlyRevokes, TokenInv, AuthTypeOK
<1>9. ASSUME NEW g \in Tokens \ overlapped PROVE Knows(c, g)'
  <2>1. Knows(c, g)
    BY DEF TokenInv, Single
  <2>2. t \notin Held(g)' /\ Held(g)' \subseteq Held(g)
    BY <1>3, <1>4, <1>5 DEF Held, Live, OnlyRevokes
  <2>3. QED
    BY <1>2, <2>1, <2>2 DEF Knows
<1>10. QED
  BY <1>2, <1>4, <1>5, <1>6, <1>7, <1>8, <1>9, Onward

LEMMA RevokeExpiredKeeps == ASSUME TokenInv, NEW c \in Calls, RevokeExpired(c) PROVE TokenInv'
<1>1. call[c].pc = "expire" /\ call[c].op = "refresh"
  BY DEF RevokeExpired, CallAt, TokenInv, Carries
<1>2. QED
  BY <1>1, StoredIsRevoked DEF RevokeExpired

LEMMA RotateKeeps == ASSUME TokenInv, NEW c \in Calls, Rotate(c) PROVE TokenInv'
<1>1. call[c].pc = "rotate" /\ call[c].op = "refresh"
  BY DEF Rotate, CallAt, TokenInv, Carries
<1>2. QED
  BY <1>1, StoredIsRevoked DEF Rotate

\* The token that a call issues, and what it carries on.
LEMMA IssueFields ==
  ASSUME TokenInv, NEW c \in Calls, Issue(c)
  PROVE  \E n \in Tokens :
           /\ token[n].state = "unused"
           /\ token' \in [Tokens -> TokenRows] /\ token'[n].state = "live"
           /\ token'[n].family = IF call[c].op = "login" THEN n ELSE call[c].family
           /\ \A t \in Tokens \ {n} : token'[t] = token[t]
           /\ call' \in [Calls -> CallRecords] /\ \A d \in Calls \ {c} : call'[d] = call[d]
           /\ call'[c].issued = n
           /\ call'[c].pc = IF call[c].op = "login" THEN "answer" ELSE "rotate"
           /\ call'[c].op = call[c].op /\ call'[c].user = call[c].user
           /\ call'[c].stored = call[c].stored /\ call'[c].family = call[c].family
<1> DEFINE login == call[c].op = "login"
<1>1. PICK n \in Tokens : n = FreeToken /\ token[n].state = "unused"
  BY DEF Issue, FreeToken
<1>2. PICK pc \in Phases : pc = IF login THEN "answer" ELSE "rotate"
  BY DEF Phases
<1>3. PICK x \in CallRecords : x = [call[c] EXCEPT !.issued = n]
  BY DEF TokenInv, AuthTypeOK, CallRecords, MaybeToken
<1>4. /\ x.issued = n /\ x.op = call[c].op /\ x.user = call[c].user
      /\ x.stored = call[c].stored /\ x.family = call[c].family
  BY <1>3 DEF TokenInv, AuthTypeOK, CallRecords
<1>5. PICK r \in CallRecords : r = [x EXCEPT !.pc = pc]
  BY DEF CallRecords
<1>6. /\ r.pc = pc /\ r.issued = n /\ r.op = call[c].op /\ r.user = call[c].user
      /\ r.stored = call[c].stored /\ r.family = call[c].family
  BY <1>4, <1>5 DEF CallRecords
<1>7. call' = [[call EXCEPT ![c].issued = n] EXCEPT ![c].pc = pc]
  BY <1>1, <1>2, Zenon DEF Issue
<1>8. [call EXCEPT ![c].issued = n] = [call EXCEPT ![c] = x]
  BY <1>3
<1>9. call' = [call EXCEPT ![c] = r]
  BY <1>5, <1>7, <1>8 DEF TokenInv, AuthTypeOK
<1>10. /\ call' \in [Calls -> CallRecords] /\ call'[c] = r
       /\ \A d \in Calls \ {c} : call'[d] = call[d]
  BY <1>9 DEF TokenInv, AuthTypeOK
<1>11. /\ call[c].pc = "issue" /\ call[c].op # "logout" /\ call[c].user \in MaybeUser
       /\ call[c].family \in MaybeToken
  BY DEF TokenInv, AuthTypeOK, CallRecords, Carries, Issue, CallAt
<1>12. ~login => call[c].stored \in Tokens
  BY <1>11, SessionCall
<1>13. PICK v \in MaybeUser : v = IF login THEN call[c].user ELSE token[call[c].stored].user
  BY <1>11, <1>12 DEF TokenInv, AuthTypeOK, TokenRows
<1>14. PICK g \in MaybeToken : g = IF login THEN n ELSE call[c].family
  BY <1>11 DEF MaybeToken
<1>15. PICK row \in TokenRows : row = [state |-> "live", expired |-> FALSE, family |-> g, user |-> v]
  BY DEF TokenRows
<1>16. token' = [token EXCEPT ![n] = row]
  BY <1>1, <1>13, <1>14, <1>15, Zenon DEF Issue
<1>17. row.state = "live" /\ row.family = g
  BY <1>15
<1>18. /\ token' \in [Tokens -> TokenRows] /\ token'[n] = row
       /\ \A t \in Tokens \ {n} : token'[t] = token[t]
  BY <1>16 DEF TokenInv, AuthTypeOK
<1>19. /\ token'[n].state = "live" /\ token'[n].family = IF login THEN n ELSE call[c].family
  BY <1>14, <1>17, <1>18
<1>20. call'[c].pc = IF login THEN "answer" ELSE "rotate"
  BY <1>2, <1>6, <1>10
<1>21. QED
  BY <1>1, <1>6, <1>10, <1>18, <1>19, <1>20

LEMMA IssueKeeps == ASSUME TokenInv, NEW c \in Calls, Issue(c) PROVE TokenInv'
<1>1. PICK n \in Tokens :
        /\ token[n].state = "unused"
        /\ token' \in [Tokens -> TokenRows] /\ token'[n].state = "live"
        /\ token'[n].family = IF call[c].op = "login" THEN n ELSE call[c].family
        /\ \A t \in Tokens \ {n} : token'[t] = token[t]
        /\ call' \in [Calls -> CallRecords] /\ \A d \in Calls \ {c} : call'[d] = call[d]
        /\ call'[c].issued = n
        /\ call'[c].pc = IF call[c].op = "login" THEN "answer" ELSE "rotate"
        /\ call'[c].op = call[c].op /\ call'[c].user = call[c].user
        /\ call'[c].stored = call[c].stored /\ call'[c].family = call[c].family
  BY IssueFields
<1>2. known' = known /\ closed' = closed /\ overlapped' = overlapped
  BY DEF Issue, authHistory
<1>3. AuthTypeOK'
  BY <1>1, <1>2 DEF Issue, TokenInv, AuthTypeOK, authHistory
<1>4. /\ n \notin known \cup closed /\ \A s \in Tokens : token[s].family # n
      /\ \A d \in Calls : call[d].family # n
  BY <1>1 DEF TokenInv, Fresh
<1>5. /\ call[c].pc = "issue" /\ ~Issued(c) /\ call[c].op \in {"login", "refresh"}
      /\ Carries(c) /\ known \subseteq Tokens
  BY DEF TokenInv, AuthTypeOK, CallRecords, Issue, CallAt, Issued, Carries
<1>6. \A d \in Calls : Issued(d) => call[d].issued # n
  BY <1>1 DEF TokenInv, Carries
<1>7. IssuedApart'
  BY <1>1, <1>6 DEF TokenInv, IssuedApart, Issued
<1>8. ASSUME NEW t \in Tokens PROVE Fresh(t)'
  <2>1. Fresh(t)
    BY DEF TokenInv
  <2>2. CASE t = n
    BY <1>1, <1>5, <2>2 DEF Fresh, Carries
  <2>3. CASE t # n
    <3>1. token'[t] = token[t] /\ \A d \in Calls : call'[d].family = call[d].family
      BY <1>1, <2>3
    <3>2. CASE token[t].state = "unused"
      <4>1. t \notin known' \cup closed' /\ \A d \in Calls : call'[d].family # t
        BY <1>2, <2>1, <3>1, <3>2 DEF Fresh
      <4>2. \A s \in Tokens : token'[s].family # t
        BY <1>1, <2>1, <2>3, <3>2 DEF Fresh
      <4>3. QED
        BY <3>1, <3>2, <4>1, <4>2 DEF Fresh
    <3>3. CASE token[t].state # "unused"
      BY <2>1, <3>1, <3>3 DEF Fresh
    <3>4. QED
      BY <3>2, <3>3
  <2>4. QED
    BY <2>2, <2>3
<1>9. ASSUME NEW d \in Calls PROVE Carries(d)'
  <2>1. Carries(d)
    BY DEF TokenInv
  <2>2. \A t \in known : token'[t] = token[t]
    BY <1>1, <1>4, <1>5
  <2>3. CASE d # c
    <3>1. call'[d] = call[d]
      BY <1>1, <2>3
    <3>2. Issued(d) => token'[call[d].issued] = token[call[d].issued]
      BY <1>1, <1>6, <2>1 DEF Carries
    <3>3. QED
      BY <1>2, <2>1, <2>2, <3>1, <3>2 DEF Carries, Issued
  <2>4. CASE d = c
    <3>1. CASE call[c].op = "login"
      BY <1>1, <1>2, <1>4, <1>5, <2>1, <2>2, <2>4, <3>1 DEF Carries, Issued
    <3>2. CASE call[c].op = "refresh"
      BY <1>1, <1>2, <1>4, <1>5, <2>1, <2>2, <2>4, <3>2 DEF Carries, Issued
    <3>3. QED
      BY <1>5, <3>1, <3>2
  <2>5. QED
    BY <2>3, <2>4
<1>10. ASSUME NEW f \in Tokens \ overlapped PROVE Single(f)'
  <2>1. Single(f)
    BY DEF TokenInv
  <2>2. Held(f)' = Held(f)
    BY <1>1, <1>2, <1>4, <1>5 DEF Held, Live
  <2>3. \A d \in Calls : call'[d].family = call[d].family /\ call'[d].stored = call[d].stored
    BY <1>1
  <2>4. token'[n].family = f => f \notin closed
    BY <1>1, <1>4, <1>5, <2>1 DEF Single, Knows
  <2>5. Live(f)' \subseteq Live(f) \cup {n} /\ (token'[n].family # f => n \notin Live(f)')
    BY <1>1 DEF Live
  <2>6. f \in closed' => Live(f)' = {}
    BY <1>2, <2>1, <2>4, <2>5 DEF Single
  <2>7. ASSUME NEW d \in Calls PROVE Knows(d, f)'
    <3>1. Knows(d, f)
      BY <2>1 DEF Single
    <3>2. CASE d # c
      BY <1>1, <1>2, <2>2, <3>1, <3>2 DEF Knows
    <3>3. CASE d = c
      <4>1. call[c].op = "login" => call[c].family # f
        BY <1>5, AuthConstantsOK DEF Carries
      <4>2. QED
        BY <1>1, <1>2, <1>5, <2>2, <3>1, <3>3, <4>1 DEF Knows
    <3>4. QED
      BY <3>2, <3>3
  <2>8. QED
    BY <2>1, <2>2, <2>3, <2>6, <2>7 DEF Single
<1>11. QED
  BY <1>2, <1>3, <1>7, <1>8, <1>9, <1>10 DEF TokenInv

LEMMA AnswerKeeps == ASSUME TokenInv, NEW c \in Calls, Answer(c) PROVE TokenInv'
<1>1. CASE call[c].pc # "answer"
  <2>1. known' = known /\ failures' \in Nat
    BY <1>1 DEF Answer, CallAt, TokenInv, AuthTypeOK
  <2>2. QED
    BY <2>1, CallEnds DEF Answer
<1>2. CASE call[c].pc = "answer"
  <2> DEFINE n == call[c].issued
  <2>1. /\ Issued(c) /\ Carries(c) /\ known' = known \cup {n} /\ UNCHANGED <<tables, authHistory>>
        /\ n \in Tokens \ known /\ token[n].state # "unused"
    BY <1>2 DEF Answer, CallAt, TokenInv, Issued, Carries
  <2>2. call'[c] = NoCall /\ \A d \in Calls \ {c} : call'[d] = call[d]
    BY DEF Answer, TokenInv, AuthTypeOK
  <2>3. call' \in [Calls -> CallRecords]
    BY NoCallFields DEF Answer, TokenInv, AuthTypeOK
  <2>4. AuthTypeOK'
    BY <2>1, <2>3 DEF Answer, TokenInv, AuthTypeOK, tables, authHistory
  <2>5. token' = token /\ closed' = closed /\ overlapped' = overlapped
    BY <2>1 DEF tables, authHistory
  <2>6. call'[c].family = None /\ call'[c].pc = "idle" /\ call'[c].op = "login" /\ ~Issued(c)'
    BY <2>2, NoCallFields DEF Issued
  <2>7. IssuedApart'
    BY <2>2, <2>6 DEF TokenInv, IssuedApart, Issued
  <2>8. ASSUME NEW t \in Tokens PROVE Fresh(t)'
    <3>1. Fresh(t)
      BY DEF TokenInv
    <3>2. \A d \in Calls : call'[d].family \in {call[d].family, None}
      BY <2>2, <2>6
    <3>3. QED
      BY <2>1, <2>5, <3>1, <3>2, AuthConstantsOK DEF Fresh
  \* The token answered is of a family of its own, or of the family of the call.
  <2>9. \/ token[n].family = n /\ \A t \in known : token[t].family # n
        \/ call[c].op = "refresh" /\ token[n].family = call[c].family
           /\ \E t \in known : token[t].family = call[c].family
    BY <1>2, <2>1 DEF Carries, TokenInv, AuthTypeOK, CallRecords, Issued
  <2>10. ASSUME NEW d \in Calls PROVE Carries(d)'
    <3>1. Carries(d)
      BY DEF TokenInv
    <3>2. CASE d = c
      BY <2>6, <3>2, NoCallFields, <2>2 DEF Carries
    <3>3. CASE d # c
      <4>1. call'[d] = call[d]
        BY <2>2, <3>3
      <4>2. Issued(d) => call[d].issued # n
        BY <2>1, <3>3 DEF TokenInv, IssuedApart
      <4>3. ASSUME Issued(d), call[d].op = "login" PROVE token[n].family # call[d].issued
        BY <2>9, <3>1, <4>2, <4>3 DEF Carries
      <4>4. Issued(d) => call[d].issued \notin known'
        BY <2>1, <3>1, <4>2 DEF Carries
      <4>5. QED
        BY <2>1, <2>5, <3>1, <4>1, <4>3, <4>4 DEF Carries, Issued
    <3>4. QED
      BY <3>2, <3>3
  <2>11. ASSUME NEW f \in Tokens \ overlapped PROVE Single(f)'
    <3>1. Single(f) /\ Knows(c, f)
      BY DEF TokenInv, Single
    <3>2. Live(f)' = Live(f)
      BY <2>5 DEF Live
    <3>3. Held(f)' \subseteq Held(f) \cup {n} /\ (token[n].family # f => Held(f)' = Held(f))
      BY <2>1, <3>2 DEF Held, Live
    <3>4. token[n].family = f => Held(f) = {}
      BY <1>2, <2>9, <3>1 DEF Knows, Held, Live
    <3>5. \A s, t \in Held(f)' : s = t
      BY <3>1, <3>3, <3>4 DEF Single
    <3>6. \A d, e \in Calls : call'[d].family = f /\ call'[e].family = f => d = e
      BY <2>2, <2>6, <3>1, AuthConstantsOK DEF Single
    <3>7. ASSUME NEW d \in Calls, call'[d].family = f PROVE d # c /\ token[n].family # f
      <4>1. d # c /\ call[d].family = f
        BY <2>2, <2>6, <3>7, AuthConstantsOK
      <4>2. call[c].family # f
        BY <3>1, <4>1 DEF Single
      <4>3. Carries(d) /\ known \subseteq Tokens
        BY DEF TokenInv, AuthTypeOK
      <4>4. \E t \in known : token[t].family = f
        BY <4>1, <4>3, AuthConstantsOK DEF Carries
      <4>5. QED
        BY <2>9, <4>1, <4>2, <4>4
    <3>8. ASSUME NEW d \in Calls PROVE Knows(d, f)'
      <4>1. Knows(d, f)
        BY <3>1 DEF Single
      <4>2. CASE call'[d].family = f
        <5>1. call'[d] = call[d] /\ Held(f)' = Held(f)
          BY <2>2, <3>3, <3>7, <4>2
        <5>2. QED
          BY <2>5, <4>1, <5>1 DEF Knows
      <4>3. QED
        BY <4>2 DEF Knows
    <3>9. QED
      BY <2>5, <3>1, <3>2, <3>5, <3>6, <3>8 DEF Single
  <2>12. QED
    BY <2>4, <2>5, <2>7, <2>8, <2>10, <2>11 DEF TokenInv
<1>3. QED
  BY <1>1, <1>2

\* A call that begins, with what it read of the row it is about.
LEMMA BeginKeeps ==
  ASSUME TokenInv, NEW c \in Calls, NEW x, NEW r \in CallRecords, BeginCall(c, x, r),
         r.pc \in {"family", "expire", "issue", "verify"},
         \/ r.op = "login" /\ r.pc = "verify" /\ r.family = None
         \/ /\ r.op \in {"refresh", "logout"} /\ r.pc # "verify" /\ r.user = None
            /\ r.pc \in {"expire", "issue"} => r.op = "refresh"
            /\ r.stored \in known /\ r.family = token[r.stored].family /\ x = r.family
            /\ r.pc = "issue" => token[r.stored].state # "revoked"
  PROVE  TokenInv'
<1>1. call'[c] = r /\ (\A d \in Calls \ {c} : call'[d] = call[d]) /\ call' \in [Calls -> CallRecords]
  BY DEF BeginCall, TokenInv, AuthTypeOK
<1>2. UNCHANGED <<token, user, known, failures, closed, wrong>>
  BY DEF BeginCall, tables
<1>3. AuthTypeOK'
  BY <1>1, <1>2 DEF TokenInv, AuthTypeOK
<1>4. call[c].pc = "idle" /\ call[c].family = None /\ known \subseteq Tokens
  BY DEF BeginCall, CallAt, TokenInv, Carries, AuthTypeOK
<1>5. ~Issued(c)' /\ IssuedApart'
  BY <1>1 DEF Issued, TokenInv, IssuedApart
<1>6. r.op # "login" => token[r.stored].state # "unused" /\ r.family \in Tokens
  BY <1>4 DEF TokenInv, Fresh
<1>7. ASSUME NEW t \in Tokens PROVE Fresh(t)'
  <2>1. Fresh(t)
    BY DEF TokenInv
  <2>2. token[t].state = "unused" => r.family # t
    BY <1>4, <2>1, AuthConstantsOK DEF Fresh
  <2>3. QED
    BY <1>1, <1>2, <2>1, <2>2 DEF Fresh
<1>8. ASSUME NEW d \in Calls PROVE Carries(d)'
  <2>1. Carries(d)
    BY DEF TokenInv
  <2>2. CASE d = c
    BY <1>1, <1>2, <1>5, <1>6, <2>2 DEF Carries
  <2>3. CASE d # c
    BY <1>1, <1>2, <2>1, <2>3 DEF Carries, Issued
  <2>4. QED
    BY <2>2, <2>3
<1>9. overlapped \subseteq overlapped' /\ (x \notin overlapped' => ~Busy(x))
  BY DEF BeginCall
<1>10. ASSUME NEW f \in Tokens \ overlapped' PROVE Single(f)'
  <2>1. Single(f)
    BY <1>9 DEF TokenInv
  <2>2. Live(f)' = Live(f) /\ Held(f)' = Held(f)
    BY <1>2 DEF Live, Held
  <2>3. ASSUME r.family = f PROVE x = f /\ \A d \in Calls : call[d].family # f
    <3>1. x = f /\ ~Busy(f)
      BY <1>9, <2>3, AuthConstantsOK
    <3>2. \A d \in Calls : call[d].pc = "idle" => call[d].family = None
      BY DEF TokenInv, Carries
    <3>3. QED
      BY <3>1, <3>2, AuthConstantsOK DEF Busy
  <2>4. \A d, e \in Calls : call'[d].family = f /\ call'[e].family = f => d = e
    BY <1>1, <2>1, <2>3 DEF Single
  <2>5. ASSUME r.family = f, r.pc = "issue" PROVE f \notin closed /\ Held(f) \subseteq {r.stored}
    <3>1. r.stored \in Tokens \cap known /\ token[r.stored].family = f /\ token[r.stored].state = "live"
      BY <1>4, <1>6, <2>5, AuthConstantsOK DEF TokenInv, AuthTypeOK, TokenRows
    <3>2. r.stored \in Held(f) /\ r.stored \in Live(f)
      BY <3>1 DEF Held, Live
    <3>3. QED
      BY <2>1, <3>2 DEF Single
  <2>6. ASSUME NEW d \in Calls PROVE Knows(d, f)'
    <3>1. Knows(d, f)
      BY <2>1 DEF Single
    <3>2. CASE d = c
      BY <1>1, <1>2, <2>2, <2>5, <3>2 DEF Knows
    <3>3. CASE d # c
      BY <1>1, <1>2, <2>2, <3>1, <3>3 DEF Knows
    <3>4. QED
      BY <3>2, <3>3
  <2>7. QED
    BY <1>2, <2>1, <2>2, <2>4, <2>6 DEF Single
<1>11. QED
  BY <1>3, <1>5, <1>7, <1>8, <1>10 DEF TokenInv

\* What the two calls about a token begin with.
LEMMA RefreshCall ==
  ASSUME TokenInv, NEW c \in Calls, NEW t \in Tokens, StartRefresh(c, t)
  PROVE  \E r \in CallRecords :
           /\ BeginCall(c, token[t].family, r) /\ t \in known
           /\ r.op = "refresh" /\ r.pc \in {"family", "expire", "issue"}
           /\ r.user = None /\ r.stored = t /\ r.family = token[t].family
           /\ r.pc = "family" => token[t].state = "revoked"
           /\ r.pc = "issue" => token[t].state # "revoked"
<1>1. PICK f \in MaybeToken : f = token[t].family
  BY DEF TokenInv, AuthTypeOK, TokenRows
<1>2. PICK pc \in {"family", "expire", "issue"} :
        pc = IF token[t].state = "revoked" THEN "family"
             ELSE IF token[t].expired THEN "expire" ELSE "issue"
  BY Zenon
<1>3. PICK r : r = SessionRec("refresh", t, f, pc)
  OBVIOUS
<1>4. /\ r \in CallRecords /\ r.pc = pc /\ r.op = "refresh" /\ r.user = None
      /\ r.stored = t /\ r.family = f
  BY <1>3, SessionCallFields
<1>5. BeginCall(c, token[t].family, r)
  BY <1>1, <1>2, <1>3, Zenon DEF StartRefresh, SessionRec
<1>6. /\ pc = "family" => token[t].state = "revoked"
      /\ pc = "issue" => token[t].state # "revoked"
  BY <1>2
<1>7. QED
  BY <1>1, <1>4, <1>5, <1>6 DEF StartRefresh

LEMMA LogoutCall ==
  ASSUME TokenInv, NEW c \in Calls, NEW t \in Tokens, StartLogout(c, t)
  PROVE  \E r \in CallRecords :
           /\ BeginCall(c, token[t].family, r) /\ t \in known
           /\ r.op = "logout" /\ r.pc = "family"
           /\ r.user = None /\ r.stored = t /\ r.family = token[t].family
<1>1. PICK f \in MaybeToken : f = token[t].family
  BY DEF TokenInv, AuthTypeOK, TokenRows
<1>2. PICK r : r = SessionRec("logout", t, f, "family")
  OBVIOUS
<1>3. /\ r \in CallRecords /\ r.pc = "family" /\ r.op = "logout" /\ r.user = None
      /\ r.stored = t /\ r.family = f
  BY <1>2, SessionCallFields
<1>4. BeginCall(c, token[t].family, r)
  BY <1>1, <1>2, Zenon DEF StartLogout, SessionRec
<1>5. QED
  BY <1>1, <1>3, <1>4 DEF StartLogout

LEMMA SessionBegins ==
  ASSUME TokenInv, NEW c \in Calls, NEW t \in Tokens, StartRefresh(c, t) \/ StartLogout(c, t)
  PROVE  \E r \in CallRecords :
           /\ BeginCall(c, token[t].family, r) /\ t \in known
           /\ r.op \in {"refresh", "logout"} /\ r.pc \in {"family", "expire", "issue"}
           /\ r.user = None /\ r.stored = t /\ r.family = token[t].family
           /\ r.pc \in {"expire", "issue"} => r.op = "refresh"
           /\ r.pc = "issue" => token[t].state # "revoked"
<1>1. CASE StartRefresh(c, t)
  <2>1. PICK r \in CallRecords :
          /\ BeginCall(c, token[t].family, r) /\ t \in known
          /\ r.op = "refresh" /\ r.pc \in {"family", "expire", "issue"}
          /\ r.user = None /\ r.stored = t /\ r.family = token[t].family
          /\ r.pc = "issue" => token[t].state # "revoked"
    BY <1>1, RefreshCall
  <2>2. QED
    BY <2>1
<1>2. CASE StartLogout(c, t)
  <2>1. PICK r \in CallRecords :
          /\ BeginCall(c, token[t].family, r) /\ t \in known /\ r.op = "logout" /\ r.pc = "family"
          /\ r.user = None /\ r.stored = t /\ r.family = token[t].family
    BY <1>2, LogoutCall
  <2>2. QED
    BY <2>1
<1>3. QED
  BY <1>1, <1>2

LEMMA LoginBegins ==
  ASSUME TokenInv, NEW c \in Calls, NEW u \in Users, NEW good \in BOOLEAN, StartLogin(c, u, good)
  PROVE  \E r \in CallRecords :
           /\ BeginCall(c, u, r) /\ user[u].lock # "future"
           /\ r.op = "login" /\ r.pc = "verify" /\ r.user = u /\ r.family = None
           /\ r.seen = user[u]
<1>1. user[u] \in Attempts
  BY DEF TokenInv, AuthTypeOK
<1>2. PICK r : r = LoginRec(u, good, user[u])
  OBVIOUS
<1>3. /\ r \in CallRecords /\ r.pc = "verify" /\ r.op = "login" /\ r.user = u
      /\ r.family = None /\ r.seen = user[u]
  BY <1>1, <1>2, LoginCallFields
<1>4. BeginCall(c, u, r) /\ user[u].lock # "future"
  BY <1>2, Zenon DEF StartLogin, LoginRec
<1>5. QED
  BY <1>3, <1>4

LEMMA AuthStepKeepsTokens == TokenInv /\ [AuthNext]_authVars => TokenInv'
<1> SUFFICES ASSUME TokenInv, [AuthNext]_authVars PROVE TokenInv'
  OBVIOUS
<1>1. ASSUME NEW c \in Calls, NEW t \in Tokens, StartRefresh(c, t) \/ StartLogout(c, t)
      PROVE  TokenInv'
  BY <1>1, SessionBegins, BeginKeeps
<1>2. ASSUME NEW c \in Calls, NEW u \in Users, NEW good \in BOOLEAN, StartLogin(c, u, good)
      PROVE  TokenInv'
  BY <1>2, LoginBegins, BeginKeeps
<1>3. ASSUME NEW c \in Calls, ServerStep(c) PROVE TokenInv'
  BY <1>3, RevokeFamilyKeeps, RevokeExpiredKeeps, RotateKeeps, IssueKeeps, VerifyKeeps,
     RegisterFailedAttemptKeeps, ResetAttemptsKeeps, ResolveTenantKeeps DEF ServerStep
<1>4. ASSUME NEW c \in Calls, Die(c) PROVE TokenInv'
  <2>1. failures' \in Nat
    BY <1>4 DEF Die, TokenInv, AuthTypeOK
  <2>2. QED
    BY <1>4, <2>1, CallEnds DEF Die
<1>5. CASE UNCHANGED authVars
  <2>1. AuthTypeOK'
    BY <1>5 DEF TokenInv, AuthTypeOK, authVars, tables, authHistory
  <2>2. QED
    BY <1>5, <2>1, NoCallMoves DEF authVars, tables, authHistory
<1>6. CASE AuthNext
  BY <1>1, <1>2, <1>3, <1>4, <1>6, AnswerKeeps, LockRunsOutKeeps, TokenRunsOutKeeps, Zenon DEF AuthNext
<1>7. QED
  BY <1>5, <1>6

-----------------------------------------------------------------------------
(* The counting of attempts *)

\* What happens to other users, and to calls that are no login, changes nothing
\* for a user.
LEMMA CountedStays ==
  ASSUME NEW u, Counted(u), user'[u] = user[u], wrong'[u] = wrong[u],
         \A c \in Calls : LoginOf(c, u) => call'[c] = call[c],
         \A c \in Calls : LoginOf(c, u)' => LoginOf(c, u)
  PROVE  Counted(u)'
<1>1. \A c \in Calls : LoginOf(c, u)' <=> LoginOf(c, u)
  BY DEF LoginOf
<1>2. Counts(u)' <=> Counts(u)
  BY DEF Counts
<1>3. \A c, d \in Calls : LoginOf(c, u)' /\ LoginOf(d, u)' => c = d
  BY <1>1 DEF Counted
<1>4. (\A c \in Calls : ~LoginOf(c, u)') => Counts(u)'
  BY <1>1, <1>2 DEF Counted
<1>5. QED
  BY <1>1, <1>2, <1>3, <1>4 DEF Counted

\* The one login of u takes a step, and the row of u is as it leaves it.
LEMMA CountedMoves ==
  ASSUME NEW u, NEW c \in Calls, Counted(u), LoginOf(c, u),
         \A d \in Calls \ {c} : call'[d] = call[d],
         LoginOf(c, u)' =>
           /\ call'[c].pc \in {"verify", "fail"} =>
                call'[c].seen.failed = user'[u].failed /\ user'[u].failed < MaxFailed
           /\ call'[c].pc = "verify" =>
                /\ call'[c].seen.lock = user'[u].lock /\ user'[u].lock # "future"
                /\ wrong'[u] = user'[u].failed
           /\ call'[c].pc = "fail" => wrong'[u] = user'[u].failed + 1
           /\ call'[c].pc = "reset" => wrong'[u] = 0
           /\ call'[c].pc \notin {"verify", "fail", "reset"} => Counts(u)',
         ~LoginOf(c, u)' => Counts(u)'
  PROVE  Counted(u)'
<1>1. \A d \in Calls : LoginOf(d, u)' => d = c
  BY DEF Counted, LoginOf
<1>2. QED
  BY <1>1 DEF Counted

\* A statement of a call that is no login, or that ends such a call.
LEMMA NoLoginMoves ==
  ASSUME TokenInv, AttemptsInv, NEW c \in Calls, call[c].user \notin Users,
         call'[c].user \notin Users, \A d \in Calls \ {c} : call'[d] = call[d],
         UNCHANGED <<user, wrong, failures>>, overlapped \subseteq overlapped'
  PROVE  AttemptsInv'
<1> SUFFICES ASSUME failures = 0, NEW u \in Users \ overlapped PROVE Counted(u)'
  BY DEF AttemptsInv
<1>1. Counted(u)
  BY DEF AttemptsInv
<1>2. \A d \in Calls : LoginOf(d, u) => call'[d] = call[d]
  BY DEF LoginOf
<1>3. \A d \in Calls : LoginOf(d, u)' => LoginOf(d, u)
  BY DEF LoginOf
<1>4. QED
  BY <1>1, <1>2, <1>3, CountedStays

LEMMA SessionUser ==
  ASSUME TokenInv, NEW c \in Calls, call[c].pc # "idle", call[c].op # "login"
  PROVE  call[c].user \notin Users
BY SessionCall, AuthConstantsOK

\* A statement of the login c that writes no row, and leaves the user counted.
LEMMA LoginMoves ==
  ASSUME TokenInv, AttemptsInv, NEW c \in Calls, call[c].pc # "idle",
         \A d \in Calls \ {c} : call'[d] = call[d],
         call'[c].user = call[c].user \/ call'[c].pc = "idle",
         \A u \in Users \ {call[c].user} : user'[u] = user[u] /\ wrong'[u] = wrong[u],
         failures' = failures, overlapped' = overlapped,
         NEW v, v = call[c].user,
         v \in Users /\ Counted(v) /\ LoginOf(c, v) => Counted(v)'
  PROVE  AttemptsInv'
<1> SUFFICES ASSUME failures = 0, NEW u \in Users \ overlapped PROVE Counted(u)'
  BY DEF AttemptsInv
<1>1. Counted(u)
  BY DEF AttemptsInv
<1>2. CASE u = v
  BY <1>1, <1>2 DEF LoginOf
<1>3. CASE u # v
  <2>1. \A d \in Calls : LoginOf(d, u) => call'[d] = call[d]
    BY <1>3 DEF LoginOf
  <2>2. \A d \in Calls : LoginOf(d, u)' => LoginOf(d, u)
    BY <1>3 DEF LoginOf
  <2>3. QED
    BY <1>1, <1>3, <2>1, <2>2, CountedStays
<1>4. QED
  BY <1>2, <1>3

LEMMA VerifyCounts == ASSUME TokenInv, AttemptsInv, NEW c \in Calls, Verify(c) PROVE AttemptsInv'
<1> DEFINE r == call[c]
<1>1. PICK pc \in {"fail", "reset", "members"} : CallGoto(c, pc)
  BY DEF Verify
<1>2. /\ \A d \in Calls \ {c} : call'[d] = call[d]
      /\ call'[c].pc = pc /\ call'[c].user = call[c].user /\ call'[c].seen = call[c].seen
  BY <1>1, GotoFields DEF TokenInv, Phases
<1>3. PICK v : v = call[c].user
  OBVIOUS
<1>4. /\ user' = user /\ failures' = failures /\ overlapped' = overlapped
      /\ call[c].pc = "verify"
  BY DEF Verify, CallAt, tables
<1>5. \/ pc = "fail" /\ wrong' = [wrong EXCEPT ![v] = @ + 1]
      \/ /\ wrong' = [wrong EXCEPT ![v] = 0]
         /\ pc = IF r.seen.failed > 0 \/ r.seen.lock # "none" THEN "reset" ELSE "members"
  <2>1. PICK x : x = IF r.seen.failed > 0 \/ r.seen.lock # "none" THEN "reset" ELSE "members"
    OBVIOUS
  <2>2. call'[c].pc = IF ~r.good THEN "fail" ELSE x
    <3>1. call' = [call EXCEPT ![c].pc = IF ~r.good THEN "fail" ELSE x]
      BY <2>1, Zenon DEF Verify, CallGoto
    <3>2. PICK z : z = IF ~r.good THEN "fail" ELSE x
      OBVIOUS
    <3>3. z \in Phases /\ CallGoto(c, z)
      <4>1. call' = [call EXCEPT ![c].pc = z]
        BY <3>1, <3>2, Zenon
      <4>2. x \in Phases /\ "fail" \in Phases
        BY <2>1 DEF Phases
      <4>3. z \in Phases
        BY <3>2, <4>2, Zenon
      <4>4. QED
        BY <4>1, <4>3 DEF CallGoto
    <3>4. call'[c].pc = z
      BY <3>3, GotoFields DEF TokenInv
    <3>5. QED
      BY <3>2, <3>4, Zenon
  <2>3. wrong' = [wrong EXCEPT ![v] = IF r.good THEN 0 ELSE @ + 1]
    BY <1>3, Zenon DEF Verify
  <2>4. CASE r.good
    BY <1>2, <2>1, <2>2, <2>3, <2>4, Zenon
  <2>5. CASE ~r.good
    BY <1>2, <2>2, <2>3, <2>5, Zenon
  <2>6. QED
    BY <2>4, <2>5, Zenon
<1>6. ASSUME v \in Users, Counted(v), LoginOf(c, v) PROVE Counted(v)'
  <2>1. /\ r.seen.failed = user[v].failed /\ user[v].failed < MaxFailed
        /\ r.seen.lock = user[v].lock /\ wrong[v] = user[v].failed
    BY <1>4, <1>6 DEF Counted
  <2>2. user[v].failed \in Nat /\ wrong \in [Users -> Nat] /\ MaxFailed \in Nat \ {0}
    BY <1>6, AuthConstantsOK DEF TokenInv, AuthTypeOK, Attempts
  <2>3. /\ pc = "fail" => wrong'[v] = user[v].failed + 1
        /\ pc = "reset" => wrong'[v] = 0
        /\ pc = "members" => wrong'[v] = user[v].failed /\ wrong'[v] < MaxFailed
    BY <1>5, <1>6, <2>1, <2>2
  <2>4. LoginOf(c, v)'
    BY <1>1, <1>2, <1>6 DEF LoginOf
  <2>5. QED
    BY <1>1, <1>2, <1>4, <1>6, <2>1, <2>3, <2>4, CountedMoves DEF Counts
<1>7. \A u \in Users \ {v} : user'[u] = user[u] /\ wrong'[u] = wrong[u]
  BY <1>4, <1>5 DEF TokenInv, AuthTypeOK
<1>8. QED
  BY <1>2, <1>3, <1>4, <1>6, <1>7, LoginMoves

LEMMA RegisterFailedAttemptCounts ==
  ASSUME TokenInv, AttemptsInv, NEW c \in Calls, RegisterFailedAttempt(c)
  PROVE  AttemptsInv'
<1>1. CallGoto(c, "refuse")
  BY DEF RegisterFailedAttempt
<1>2. /\ \A d \in Calls \ {c} : call'[d] = call[d]
      /\ call'[c].pc = "refuse" /\ call'[c].user = call[c].user
  BY <1>1, GotoFields DEF TokenInv, Phases
<1>3. PICK v, n : v = call[c].user /\ n = call[c].seen.failed + 1
  OBVIOUS
<1>4. /\ failures' = failures /\ overlapped' = overlapped /\ call[c].pc = "fail"
      /\ user' = [user EXCEPT ![v] = IF n >= MaxFailed THEN [failed |-> 0, lock |-> "future"]
                                     ELSE [@ EXCEPT !.failed = n]]
      /\ wrong' = [wrong EXCEPT ![v] = IF n >= MaxFailed THEN 0 ELSE @]
  BY <1>3 DEF RegisterFailedAttempt, CallAt
<1>5. ASSUME v \in Users, Counted(v), LoginOf(c, v) PROVE Counted(v)'
  <2>1. n = user[v].failed + 1 /\ wrong[v] = n
    BY <1>3, <1>4, <1>5 DEF Counted
  <2>2. user[v] \in Attempts /\ n \in Nat /\ MaxFailed \in Nat \ {0}
    BY <1>5, <2>1, AuthConstantsOK DEF TokenInv, AuthTypeOK, Attempts
  <2>3. /\ wrong'[v] = IF n >= MaxFailed THEN 0 ELSE n
        /\ user'[v].failed = IF n >= MaxFailed THEN 0 ELSE n
    BY <1>4, <1>5, <2>1, <2>2 DEF TokenInv, AuthTypeOK, Attempts
  <2>4. Counts(v)'
    BY <2>2, <2>3 DEF Counts
  <2>5. QED
    BY <1>2, <1>5, <2>4, CountedMoves
<1>6. \A u \in Users \ {v} : user'[u] = user[u] /\ wrong'[u] = wrong[u]
  BY <1>4 DEF TokenInv, AuthTypeOK
<1>7. QED
  BY <1>2, <1>3, <1>4, <1>5, <1>6, LoginMoves

LEMMA ResetAttemptsCounts ==
  ASSUME TokenInv, AttemptsInv, NEW c \in Calls, ResetAttempts(c) PROVE AttemptsInv'
<1>1. CallGoto(c, "members")
  BY DEF ResetAttempts
<1>2. /\ \A d \in Calls \ {c} : call'[d] = call[d]
      /\ call'[c].pc = "members" /\ call'[c].user = call[c].user
  BY <1>1, GotoFields DEF TokenInv, Phases
<1>3. PICK v : v = call[c].user
  OBVIOUS
<1>4. /\ failures' = failures /\ overlapped' = overlapped /\ wrong' = wrong
      /\ call[c].pc = "reset" /\ user' = [user EXCEPT ![v] = [failed |-> 0, lock |-> "none"]]
  BY <1>3 DEF ResetAttempts, CallAt, authHistory
<1>5. ASSUME v \in Users, Counted(v), LoginOf(c, v) PROVE Counted(v)'
  <2>1. wrong'[v] = 0 /\ user'[v].failed = 0
    BY <1>4, <1>5 DEF Counted, TokenInv, AuthTypeOK
  <2>2. Counts(v)'
    BY <2>1, AuthConstantsOK DEF Counts
  <2>3. QED
    BY <1>2, <1>5, <2>2, CountedMoves
<1>6. \A u \in Users \ {v} : user'[u] = user[u] /\ wrong'[u] = wrong[u]
  BY <1>4 DEF TokenInv, AuthTypeOK
<1>7. QED
  BY <1>2, <1>3, <1>4, <1>5, <1>6, LoginMoves

\* Past the counting, a login only ends or goes on to issue its token.
LEMMA LoginGoesOn ==
  ASSUME TokenInv, AttemptsInv, NEW c \in Calls,
         call[c].pc \notin {"idle", "verify", "fail", "reset"},
         \A d \in Calls \ {c} : call'[d] = call[d],
         \/ call'[c].pc = "idle"
         \/ call'[c].user = call[c].user /\ call'[c].pc \notin {"verify", "fail", "reset"},
         UNCHANGED <<user, wrong, failures, overlapped>>
  PROVE  AttemptsInv'
<1>1. PICK v : v = call[c].user
  OBVIOUS
<1>2. ASSUME v \in Users, Counted(v), LoginOf(c, v) PROVE Counted(v)'
  <2>1. Counts(v)'
    BY <1>2 DEF Counted, Counts
  <2>2. QED
    BY <1>2, <2>1, CountedMoves DEF LoginOf
<1>3. QED
  BY <1>1, <1>2, LoginMoves

LEMMA LoginBeginsCounts ==
  ASSUME TokenInv, AttemptsInv, NEW c \in Calls, NEW v \in Users, NEW good \in BOOLEAN,
         StartLogin(c, v, good)
  PROVE  AttemptsInv'
<1>1. PICK r \in CallRecords :
        /\ BeginCall(c, v, r) /\ user[v].lock # "future"
        /\ r.op = "login" /\ r.pc = "verify" /\ r.user = v /\ r.family = None
        /\ r.seen = user[v]
  BY LoginBegins
<1>2. /\ call'[c] = r /\ \A d \in Calls \ {c} : call'[d] = call[d]
      /\ UNCHANGED <<user, wrong, failures>> /\ overlapped \subseteq overlapped'
      /\ v \notin overlapped' => ~Busy(v)
      /\ call[c].pc = "idle"
  BY <1>1 DEF BeginCall, CallAt, tables, TokenInv, AuthTypeOK
<1> SUFFICES ASSUME failures = 0, NEW u \in Users \ overlapped' PROVE Counted(u)'
  BY <1>2 DEF AttemptsInv
<1>3. Counted(u)
  BY <1>2 DEF AttemptsInv
<1>4. CASE u # v
  <2>1. \A d \in Calls : LoginOf(d, u) => call'[d] = call[d]
    BY <1>2 DEF LoginOf
  <2>2. \A d \in Calls : LoginOf(d, u)' => LoginOf(d, u)
    BY <1>1, <1>2, <1>4 DEF LoginOf
  <2>3. QED
    BY <1>2, <1>3, <2>1, <2>2, CountedStays
<1>5. CASE u = v
  <2>1. \A d \in Calls : ~LoginOf(d, u)
    BY <1>2, <1>5 DEF LoginOf, Busy
  <2>2. Counts(u)
    BY <1>3, <2>1 DEF Counted
  <2>3. \A d \in Calls : LoginOf(d, u)' => d = c
    BY <1>2, <2>1 DEF LoginOf
  <2>4. LoginOf(c, u)'
    BY <1>1, <1>2, <1>5 DEF LoginOf
  <2>5. QED
    BY <1>1, <1>2, <1>5, <2>2, <2>3, <2>4 DEF Counted, Counts
<1>6. QED
  BY <1>4, <1>5

LEMMA ServerStepCounts ==
  ASSUME TokenInv, AttemptsInv, NEW c \in Calls, ServerStep(c) PROVE AttemptsInv'
<1>2. CASE RevokeFamily(c)
  <2>1. call[c].pc = "family" /\ call[c].op # "login" /\ CallGoto(c, "refuse")
    BY <1>2 DEF RevokeFamily, CallAt, TokenInv, Carries
  <2>2. call'[c].user = call[c].user /\ \A d \in Calls \ {c} : call'[d] = call[d]
    BY <2>1, GotoFields DEF TokenInv, Phases
  <2>3. UNCHANGED <<user, wrong, failures, overlapped>>
    BY <1>2 DEF RevokeFamily
  <2>4. QED
    BY <2>1, <2>2, <2>3, SessionUser, NoLoginMoves
<1>3. CASE RevokeExpired(c)
  <2>1. call[c].pc = "expire" /\ call[c].op = "refresh" /\ CallGoto(c, "refuse")
    BY <1>3 DEF RevokeExpired, CallAt, TokenInv, Carries
  <2>2. call'[c].user = call[c].user /\ \A d \in Calls \ {c} : call'[d] = call[d]
    BY <2>1, GotoFields DEF TokenInv, Phases
  <2>3. UNCHANGED <<user, wrong, failures, overlapped>>
    BY <1>3 DEF RevokeExpired, authHistory
  <2>4. QED
    BY <2>1, <2>2, <2>3, SessionUser, NoLoginMoves
<1>4. CASE Rotate(c)
  <2>1. call[c].pc = "rotate" /\ call[c].op = "refresh" /\ CallGoto(c, "answer")
    BY <1>4 DEF Rotate, CallAt, TokenInv, Carries
  <2>2. call'[c].user = call[c].user /\ \A d \in Calls \ {c} : call'[d] = call[d]
    BY <2>1, GotoFields DEF TokenInv, Phases
  <2>3. UNCHANGED <<user, wrong, failures, overlapped>>
    BY <1>4 DEF Rotate, authHistory
  <2>4. QED
    BY <2>1, <2>2, <2>3, SessionUser, NoLoginMoves
<1>5. CASE Issue(c)
  <2>1. /\ call[c].pc = "issue" /\ UNCHANGED <<user, wrong, failures, overlapped>>
    BY <1>5 DEF Issue, CallAt, authHistory
  <2>2. /\ \A d \in Calls \ {c} : call'[d] = call[d]
        /\ call'[c].user = call[c].user /\ call'[c].pc \in {"answer", "rotate"}
    BY <1>5, IssueFields
  <2>3. QED
    BY <2>1, <2>2, LoginGoesOn
<1>6. CASE ResolveTenant(c)
  <2>1. PICK pc \in {"issue", "refuse"} : CallGoto(c, pc)
    BY <1>6 DEF ResolveTenant
  <2>2. /\ \A d \in Calls \ {c} : call'[d] = call[d]
        /\ call'[c].user = call[c].user /\ call'[c].pc = pc
    BY <2>1, GotoFields DEF TokenInv, Phases
  <2>3. call[c].pc = "members" /\ UNCHANGED <<user, wrong, failures, overlapped>>
    BY <1>6 DEF ResolveTenant, CallAt, authHistory, tables
  <2>4. QED
    BY <2>2, <2>3, LoginGoesOn
<1>7. QED
  BY <1>2, <1>3, <1>4, <1>5, <1>6, VerifyCounts, RegisterFailedAttemptCounts,
     ResetAttemptsCounts DEF ServerStep

LEMMA AnswerCounts == ASSUME TokenInv, AttemptsInv, NEW c \in Calls, Answer(c) PROVE AttemptsInv'
<1>1. /\ call'[c] = NoCall /\ \A d \in Calls \ {c} : call'[d] = call[d]
      /\ UNCHANGED <<user, wrong, failures, overlapped>> /\ call[c].pc \in {"answer", "refuse"}
  BY DEF Answer, CallAt, TokenInv, AuthTypeOK, tables, authHistory
<1>2. QED
  BY <1>1, NoCallFields, LoginGoesOn

LEMMA AuthStepCounts == TokenInv /\ AttemptsInv /\ [AuthNext]_authVars => AttemptsInv'
<1> SUFFICES ASSUME TokenInv, AttemptsInv, [AuthNext]_authVars PROVE AttemptsInv'
  OBVIOUS
<1>1. ASSUME NEW c \in Calls, NEW t \in Tokens, StartRefresh(c, t) \/ StartLogout(c, t)
      PROVE  AttemptsInv'
  <2>1. PICK r \in CallRecords : BeginCall(c, token[t].family, r) /\ r.user = None
    BY <1>1, SessionBegins
  <2>2. /\ call'[c] = r /\ \A d \in Calls \ {c} : call'[d] = call[d]
        /\ UNCHANGED <<user, wrong, failures>> /\ overlapped \subseteq overlapped'
        /\ call[c].pc = "idle"
    BY <2>1 DEF BeginCall, CallAt, tables, TokenInv, AuthTypeOK
  <2>3. ASSUME failures = 0, NEW u \in Users \ overlapped' PROVE Counted(u)'
    <3>1. Counted(u)
      BY <2>2, <2>3 DEF AttemptsInv
    <3>2. \A d \in Calls : LoginOf(d, u) => call'[d] = call[d]
      BY <2>2 DEF LoginOf
    <3>3. \A d \in Calls : LoginOf(d, u)' => LoginOf(d, u)
      BY <2>1, <2>2, AuthConstantsOK DEF LoginOf
    <3>4. QED
      BY <2>2, <3>1, <3>2, <3>3, CountedStays
  <2>4. QED
    BY <2>2, <2>3 DEF AttemptsInv
<1>2. ASSUME NEW c \in Calls, Die(c) PROVE AttemptsInv'
  BY <1>2 DEF Die, AttemptsInv, TokenInv, AuthTypeOK
<1>3. ASSUME NEW v \in Users, LockRunsOut(v) PROVE AttemptsInv'
  <2>1. /\ UNCHANGED <<call, wrong, failures, overlapped>> /\ user[v].lock = "future"
        /\ user'[v].failed = user[v].failed /\ \A u \in Users \ {v} : user'[u] = user[u]
    BY <1>3 DEF LockRunsOut, authHistory, TokenInv, AuthTypeOK, Attempts
  <2>2. ASSUME failures = 0, NEW u \in Users \ overlapped PROVE Counted(u)'
    <3>1. Counted(u)
      BY <2>2 DEF AttemptsInv
    <3>2. CASE u # v
      BY <2>1, <3>1, <3>2 DEF Counted, Counts, LoginOf
    <3>3. CASE u = v
      BY <2>1, <3>1, <3>3 DEF Counted, Counts, LoginOf
    <3>4. QED
      BY <3>2, <3>3
  <2>3. QED
    BY <2>1, <2>2 DEF AttemptsInv
<1>4. ASSUME UNCHANGED <<user, wrong, call, failures, overlapped>> PROVE AttemptsInv'
  BY <1>4 DEF AttemptsInv, Counted, Counts, LoginOf
<1>5. CASE UNCHANGED authVars
  BY <1>4, <1>5 DEF authVars, tables, authHistory
<1>6. ASSUME NEW t \in Tokens, TokenRunsOut(t) PROVE AttemptsInv'
  BY <1>4, <1>6 DEF TokenRunsOut, authHistory
<1>7. CASE AuthNext
  BY <1>1, <1>2, <1>3, <1>6, <1>7, LoginBeginsCounts, ServerStepCounts, AnswerCounts, Zenon
     DEF AuthNext
<1>8. QED
  BY <1>5, <1>7

LEMMA AuthInvariant == AuthSpec => [](TokenInv /\ AttemptsInv)
<1>1. AuthInit => TokenInv /\ AttemptsInv
  BY AuthStarts
<1>2. TokenInv /\ AttemptsInv /\ [AuthNext]_authVars => (TokenInv /\ AttemptsInv)'
  BY AuthStepKeepsTokens, AuthStepCounts
<1>3. QED
  BY <1>1, <1>2, PTL DEF AuthSpec

-----------------------------------------------------------------------------
\* A family whose calls do not overlap has at most one valid token that anybody
\* holds, and none at all once it is closed by a logout or a reuse
\* (AuthService.refresh, TokenService), wherever its calls die.
THEOREM OneTokenIsValid == AuthSpec => []OneTokenPerFamily
<1>1. TokenInv => OneTokenPerFamily
  <2> SUFFICES ASSUME TokenInv PROVE OneTokenPerFamily
    OBVIOUS
  <2>1. \A f \in Tokens \ overlapped : Single(f)
    BY DEF TokenInv
  <2>2. ASSUME NEW s \in known, NEW t \in known, token[s].family = token[t].family,
               token[s].family \notin overlapped,
               token[s].state = "live", token[t].state = "live"
        PROVE  s = t
    <3>1. s \in Tokens /\ t \in Tokens /\ token[s].family \in Tokens
      BY <2>2 DEF TokenInv, AuthTypeOK, Fresh
    <3>2. s \in Held(token[s].family) /\ t \in Held(token[s].family)
      BY <2>2, <3>1 DEF Held, Live
    <3>3. QED
      BY <2>1, <2>2, <3>1, <3>2 DEF Single
  <2>3. \A f \in closed \ overlapped : Live(f) = {}
    BY <2>1 DEF TokenInv, AuthTypeOK, Single
  <2>4. QED
    BY <2>2, <2>3 DEF OneTokenPerFamily
<1>2. QED
  BY <1>1, AuthInvariant, PTL

\* Of a user whose logins do not overlap and do not die, maxFailedAttempts wrong
\* passwords never go by without a lock (AuthService.registerFailedAttempt).
THEOREM LocksComeInTime == AuthSpec => []AttemptsAreCounted
<1>1. TokenInv /\ AttemptsInv => AttemptsAreCounted
  <2> SUFFICES ASSUME TokenInv, AttemptsInv, failures = 0, NEW u \in Users \ overlapped, ~Busy(u)
      PROVE  wrong[u] < MaxFailed
    BY DEF AttemptsAreCounted
  <2>1. Counted(u)
    BY DEF AttemptsInv
  <2>2. \A c \in Calls : ~LoginOf(c, u)
    BY DEF Busy, LoginOf
  <2>3. QED
    BY <2>1, <2>2 DEF Counted, Counts
<1>2. QED
  BY <1>1, AuthInvariant, PTL

-----------------------------------------------------------------------------
(* ClientSession. Whenever the web client thinks no refresh is in flight,   *)
(* none is in flight with the token that is stored.                         *)

\* The client makes no call that the service would not accept from anybody.
LEMMA ClientStepsAreCalls == TokenInv /\ [ClientNext]_sessionVars => [AuthNext]_authVars
<1> SUFFICES ASSUME TokenInv, ClientNext PROVE [AuthNext]_authVars
  BY DEF sessionVars
<1>0. known \subseteq Tokens
  BY DEF TokenInv, AuthTypeOK
<1>1. ASSUME NEW r \in Requests, Send(r) \/ Progress(r) PROVE [AuthNext]_authVars
  <2>1. CASE Unauthorized(r)
    <3>1. ASSUME NEW c \in Calls, StartRefresh(c, store) PROVE AuthNext
      BY <1>0, <3>1 DEF AuthNext, StartRefresh
    <3>2. QED
      BY <2>1, <3>1 DEF Unauthorized
  <2>2. QED
    BY <1>1, <2>1 DEF Send, Progress, AnswerRequest, Resume, SignOut, AnswerRetry, AnswerOwnRetry
<1>2. ASSUME NEW c \in Calls, ServerRuns(c) \/ Arrives(c) \/ Logout(c) PROVE AuthNext
  <2>1. CASE ServerRuns(c)
    BY <2>1 DEF ServerRuns, AuthNext
  <2>2. CASE Arrives(c)
    BY <2>2 DEF Arrives, Refreshed, RefreshFailed, LoggedIn, LoggedOut, RefusedOrLost, AuthNext
  <2>3. CASE Logout(c)
    BY <1>0, <2>3 DEF Logout, StartLogout, AuthNext
  <2>4. QED
    BY <1>2, <2>1, <2>2, <2>3
<1>3. ASSUME NEW c \in Calls, NEW u \in Users, Login(c, u) PROVE AuthNext
  BY <1>3 DEF Login, AuthNext
<1>4. ASSUME NEW t \in Tokens, AccessRunsOut(t) PROVE UNCHANGED authVars
  BY <1>4 DEF AccessRunsOut
<1>5. QED
  BY <1>1, <1>2, <1>3, <1>4, Zenon DEF ClientNext

\* The interceptors and screens make no call of the service that it does not
\* take from anybody: what is proved of the service holds of it with a client.
THEOREM ClientsUseTheService == ClientSpec => AuthSpec
<1>1. ClientInit => AuthInit
  BY DEF ClientInit
<1>2. TokenInv /\ [ClientNext]_sessionVars => TokenInv'
  BY ClientStepsAreCalls, AuthStepKeepsTokens
<1>3. AuthInit => TokenInv
  BY AuthStarts
<1>4. QED
  BY <1>1, <1>2, <1>3, ClientStepsAreCalls, PTL DEF ClientSpec, AuthSpec

\* What a client may await the answer of a call for.
Awaited == Requests \cup {None, "login", "logout"}
Refreshing(c) == awaits[c] \in Requests

\* A revoked token is of a family that was closed, or somebody has been
\* answered it.
Unheard == \A t \in Tokens \ known : token[t].state = "revoked" => token[t].family \in closed

\* The client awaits every call in flight, and for what the call is.
Awaits(c) ==
  /\ awaits[c] = None <=> CallAt(c, "idle")
  /\ Refreshing(c) => call[c].op = "refresh"
  /\ awaits[c] \in {"login", "logout"} => call[c].op = awaits[c]

\* What the client of the web knows of the token it stores.
WebInv ==
  /\ store # None /\ token[store].state = "revoked" => token[store].family \in closed \/ refreshing
  /\ ~refreshing => \A c \in Calls : Refreshing(c) => call[c].stored # store
  /\ \A c \in Calls : Refreshing(c) /\ CallAt(c, "family") => call[c].family \in closed

\* The invariant of service and client.
ClientInv ==
  /\ TokenInv /\ Unheard
  /\ awaits \in [Calls -> Awaited] /\ \A c \in Calls : Awaits(c)
  /\ store \in known \cup {None}
  /\ kind = "web" => WebInv

\* What the client has begun when a call begins.
LEMMA RefreshBegins ==
  ASSUME TokenInv, NEW c \in Calls, NEW t \in Tokens, StartRefresh(c, t)
  PROVE  /\ \A d \in Calls \ {c} : call'[d] = call[d]
         /\ call[c].pc = "idle" /\ call'[c].pc # "idle" /\ call'[c].op = "refresh"
         /\ call'[c].stored = t /\ call'[c].family = token[t].family
         /\ call'[c].pc = "family" => token[t].state = "revoked"
         /\ UNCHANGED <<token, known, closed>>
<1>1. PICK r \in CallRecords :
        /\ BeginCall(c, token[t].family, r) /\ r.op = "refresh" /\ r.pc \in {"family", "expire", "issue"}
        /\ r.stored = t /\ r.family = token[t].family
        /\ r.pc = "family" => token[t].state = "revoked"
  BY RefreshCall
<1>2. call'[c] = r /\ (\A d \in Calls \ {c} : call'[d] = call[d]) /\ call[c].pc = "idle"
  BY <1>1 DEF BeginCall, TokenInv, AuthTypeOK, CallAt
<1>3. UNCHANGED <<token, known, closed>>
  BY <1>1 DEF BeginCall, tables
<1>4. QED
  BY <1>1, <1>2, <1>3

LEMMA LogoutBegins ==
  ASSUME TokenInv, NEW c \in Calls, NEW t \in Tokens, StartLogout(c, t)
  PROVE  /\ \A d \in Calls \ {c} : call'[d] = call[d]
         /\ call[c].pc = "idle" /\ call'[c].pc # "idle" /\ call'[c].op = "logout"
         /\ UNCHANGED <<token, known, closed>>
<1>1. PICK r \in CallRecords :
        BeginCall(c, token[t].family, r) /\ r.op = "logout" /\ r.pc = "family"
  BY LogoutCall
<1>2. call'[c] = r /\ (\A d \in Calls \ {c} : call'[d] = call[d]) /\ call[c].pc = "idle"
  BY <1>1 DEF BeginCall, TokenInv, AuthTypeOK, CallAt
<1>3. UNCHANGED <<token, known, closed>>
  BY <1>1 DEF BeginCall, tables
<1>4. QED
  BY <1>1, <1>2, <1>3

\* What a statement of a call does for the client: the only token it revokes
\* without closing a family is the one that a refresh was given.
LEMMA ServerStepMeans ==
  ASSUME TokenInv, NEW c \in Calls, ServerStep(c)
  PROVE  /\ \A d \in Calls \ {c} : call'[d] = call[d]
         /\ call'[c].op = call[c].op /\ call'[c].stored = call[c].stored
         /\ call[c].pc # "idle" /\ call'[c].pc \notin {"idle", "family"}
         /\ known' = known /\ closed \subseteq closed'
         /\ \A t \in Tokens : token'[t].state = "revoked" =>
              \/ token'[t].family \in closed'
              \/ token[t].state = "revoked" /\ token'[t].family = token[t].family
              \/ t = call[c].stored /\ call[c].op = "refresh" /\ t \in known
<1>1. CASE RevokeFamily(c)
  <2>1. CallGoto(c, "refuse") /\ "refuse" \in Phases /\ CallAt(c, "family")
    BY <1>1 DEF RevokeFamily, Phases
  <2>2. known' = known /\ closed' = closed \cup {call[c].family}
    BY <1>1 DEF RevokeFamily
  <2>3. ASSUME NEW t \in Tokens
        PROVE  /\ token'[t].family = token[t].family
               /\ token'[t].state = "revoked" => token[t].state = "revoked" \/ token[t].family = call[c].family
    <3>1. PICK row \in TokenRows : row = [token[t] EXCEPT !.state = "revoked"]
      BY DEF TokenInv, AuthTypeOK, TokenRows
    <3>2. row.state = "revoked" /\ row.family = token[t].family
      BY <3>1 DEF TokenInv, AuthTypeOK, TokenRows
    <3>3. token'[t] = IF t \in Live(call[c].family) THEN row ELSE token[t]
      BY <1>1, <3>1, Zenon DEF RevokeFamily
    <3>4. QED
      BY <3>2, <3>3 DEF Live
  <2>4. QED
    BY <2>1, <2>2, <2>3, GotoFields DEF TokenInv, CallAt
<1>2. CASE RevokeExpired(c) \/ Rotate(c)
  <2>1. PICK pc \in {"refuse", "answer"} : CallGoto(c, pc)
    BY <1>2 DEF RevokeExpired, Rotate
  <2>2. call[c].pc # "idle" /\ call[c].op = "refresh"
    BY <1>2 DEF RevokeExpired, Rotate, CallAt, TokenInv, Carries
  <2>3. call[c].stored \in Tokens \cap known
    BY <2>2, SessionCall
  <2>4. token' = [token EXCEPT ![call[c].stored].state = "revoked"] /\ known' = known /\ closed' = closed
    BY <1>2 DEF RevokeExpired, Rotate, authHistory
  <2>5. /\ \A s \in Tokens : token'[s].family = token[s].family
        /\ \A s \in Tokens \ {call[c].stored} : token'[s] = token[s]
    BY <2>3, <2>4, RevokeFields DEF TokenInv
  <2>6. /\ \A d \in Calls \ {c} : call'[d] = call[d]
        /\ call'[c].op = call[c].op /\ call'[c].stored = call[c].stored
        /\ call'[c].pc \notin {"idle", "family"}
    BY <2>1, GotoFields DEF TokenInv, Phases
  <2>7. QED
    BY <2>2, <2>3, <2>4, <2>5, <2>6
<1>3. CASE Issue(c)
  <2>1. known' = known /\ closed' = closed /\ call[c].pc # "idle"
    BY <1>3 DEF Issue, authHistory, CallAt
  <2>2. QED
    BY <1>3, <2>1, IssueFields
<1>4. CASE Verify(c) \/ RegisterFailedAttempt(c) \/ ResetAttempts(c) \/ ResolveTenant(c)
  <2>1. PICK pc \in {"fail", "reset", "members", "issue", "refuse"} : CallGoto(c, pc)
    BY <1>4 DEF Verify, RegisterFailedAttempt, ResetAttempts, ResolveTenant
  <2>2. call[c].pc # "idle" /\ UNCHANGED <<token, known, closed>>
    BY <1>4 DEF Verify, RegisterFailedAttempt, ResetAttempts, ResolveTenant, CallAt, tables, authHistory
  <2>3. /\ \A d \in Calls \ {c} : call'[d] = call[d]
        /\ call'[c].op = call[c].op /\ call'[c].stored = call[c].stored /\ call'[c].pc = pc
    BY <2>1, GotoFields DEF TokenInv, Phases
  <2>4. QED
    BY <2>2, <2>3
<1>5. QED
  BY <1>1, <1>2, <1>3, <1>4 DEF ServerStep

\* The service goes on.
LEMMA ServerRunsKeepsClient == ASSUME ClientInv, TokenInv', NEW c \in Calls, ServerRuns(c) PROVE ClientInv'
<1>1. /\ UNCHANGED <<kind, store, refreshing, awaits>> /\ ServerStep(c) /\ TokenInv
      /\ awaits \in [Calls -> Awaited] /\ None \notin Requests
  BY ClientConstantsOK DEF ServerRuns, clientVars, ClientInv
<1>2. /\ \A d \in Calls \ {c} : call'[d] = call[d]
      /\ call'[c].op = call[c].op /\ call'[c].stored = call[c].stored
      /\ call[c].pc # "idle" /\ call'[c].pc \notin {"idle", "family"}
      /\ known' = known /\ closed \subseteq closed'
      /\ \A t \in Tokens : token'[t].state = "revoked" =>
           \/ token'[t].family \in closed'
           \/ token[t].state = "revoked" /\ token'[t].family = token[t].family
           \/ t = call[c].stored /\ call[c].op = "refresh" /\ t \in known
  BY <1>1, ServerStepMeans
<1>3. Unheard'
  BY <1>2 DEF ClientInv, Unheard
<1>4. \A d \in Calls : Awaits(d)'
  <2>1. \A d \in Calls : Awaits(d)
    BY DEF ClientInv
  <2>2. QED
    BY <1>1, <1>2, <2>1 DEF Awaits, CallAt, Refreshing
<1>5. ASSUME kind = "web" PROVE WebInv'
  <2>1. WebInv
    BY <1>5 DEF ClientInv
  <2>2. known \subseteq Tokens /\ store \in known \cup {None}
    BY DEF ClientInv, TokenInv, AuthTypeOK
  <2>3. call[c].op = "refresh" => Refreshing(c)
    BY <1>1, <1>2 DEF ClientInv, Awaits, Refreshing, Awaited, CallAt
  <2>4. store # None /\ token'[store].state = "revoked" => token'[store].family \in closed' \/ refreshing
    BY <1>2, <2>1, <2>2, <2>3 DEF WebInv
  <2>5. ~refreshing => \A d \in Calls : Refreshing(d) => call'[d].stored # store
    BY <1>2, <2>1 DEF WebInv
  <2>6. \A d \in Calls : Refreshing(d) /\ call'[d].pc = "family" => call'[d].family \in closed'
    BY <1>2, <2>1 DEF WebInv, CallAt
  <2>7. QED
    BY <1>1, <2>4, <2>5, <2>6 DEF WebInv, Refreshing, CallAt
<1>6. QED
  BY <1>1, <1>2, <1>3, <1>4, <1>5 DEF ClientInv

\* A call that ends, with an answer or without.
CallOver(c) ==
  /\ call' = [call EXCEPT ![c] = NoCall] /\ UNCHANGED <<token, closed>>
  /\ awaits' = [awaits EXCEPT ![c] = None]

\* The client has the answer, or knows that none comes.
LEMMA EndedCall ==
  ASSUME ClientInv, TokenInv', NEW c \in Calls, CallOver(c), known \subseteq known'
  PROVE  /\ Unheard' /\ awaits' \in [Calls -> Awaited] /\ \A d \in Calls : Awaits(d)'
         /\ call'[c] = NoCall /\ ~Refreshing(c)' /\ call'[c].pc = "idle"
         /\ \A d \in Calls \ {c} : call'[d] = call[d] /\ Refreshing(d)' = Refreshing(d)
<1>1. /\ call'[c] = NoCall /\ NoCall.pc = "idle" /\ NoCall.op = "login"
      /\ \A d \in Calls \ {c} : call'[d] = call[d]
  BY NoCallFields DEF ClientInv, TokenInv, AuthTypeOK, CallOver
<1>2. /\ awaits' \in [Calls -> Awaited] /\ awaits'[c] = None /\ \A d \in Calls \ {c} : awaits'[d] = awaits[d]
  BY DEF ClientInv, Awaited, CallOver
<1>3. Unheard'
  BY DEF ClientInv, Unheard, CallOver
<1>4. \A d \in Calls : Awaits(d)'
  BY <1>1, <1>2, ClientConstantsOK DEF ClientInv, Awaits, Refreshing, CallAt
<1>5. QED
  BY <1>1, <1>2, <1>3, <1>4, ClientConstantsOK DEF Refreshing

\* The answer to a refresh or a login brings a token nobody has been answered.
LEMMA NewPair ==
  ASSUME ClientInv, NEW c \in Calls, CallAt(c, "answer"), Answer(c)
  PROVE  /\ call[c].issued \in Tokens \ known /\ known' = known \cup {call[c].issued}
         /\ call' = [call EXCEPT ![c] = NoCall] /\ UNCHANGED <<token, closed>>
         /\ token[call[c].issued].state = "revoked" => token[call[c].issued].family \in closed
         /\ \A d \in Calls : Refreshing(d) /\ call[d].pc # "idle" =>
              call[d].stored \in known /\ call[d].stored # call[c].issued
<1>1. Issued(c) /\ TokenInv
  BY DEF CallAt, Issued, ClientInv
<1>2. call[c].issued \in Tokens \ known
  BY <1>1 DEF TokenInv, Carries
<1>3. /\ known' = known \cup {call[c].issued}
      /\ call' = [call EXCEPT ![c] = NoCall] /\ UNCHANGED <<token, closed>>
  BY DEF Answer, tables, authHistory
<1>4. ASSUME NEW d \in Calls, Refreshing(d), call[d].pc # "idle" PROVE call[d].stored \in known
  <2>1. call[d].op = "refresh"
    BY <1>4 DEF ClientInv, Awaits
  <2>2. QED
    BY <1>1, <1>4, <2>1, SessionCall
<1>5. QED
  BY <1>2, <1>3, <1>4 DEF ClientInv, Unheard

\* An answer without a token, or none, changes no token.
LEMMA RefusedMeans ==
  ASSUME NEW c \in Calls, RefusedOrLost(c)
  PROVE  call' = [call EXCEPT ![c] = NoCall] /\ UNCHANGED <<token, closed, known>>
BY DEF RefusedOrLost, Answer, Die, CallAt, tables, authHistory

\* A pair that arrives replaces the stored one, whichever that is by now.
LEMMA ArrivalKeepsClient == ASSUME ClientInv, TokenInv', NEW c \in Calls, Arrives(c) PROVE ClientInv'
<1>1. kind' = kind /\ awaits' = [awaits EXCEPT ![c] = None] /\ awaits[c] # None
  <2>1. None \notin Requests \cup {"login", "logout"}
    BY ClientConstantsOK
  <2>2. QED
    BY <2>1 DEF Arrives, Refreshed, RefreshFailed, LoggedIn, LoggedOut
<1>2. \A d \in Calls : Refreshing(d) => call[d].pc # "idle"
  BY ClientConstantsOK DEF ClientInv, Awaits, Refreshing, CallAt
<1>3. ASSUME NEW n \in Tokens \ known, CallOver(c), known' = known \cup {n}, store' = n,
             token[n].state = "revoked" => token[n].family \in closed,
             \A d \in Calls : Refreshing(d) => call[d].stored # n
      PROVE  ClientInv'
  <2>1. /\ Unheard' /\ awaits' \in [Calls -> Awaited] /\ \A d \in Calls : Awaits(d)'
        /\ call'[c] = NoCall /\ ~Refreshing(c)' /\ call'[c].pc = "idle"
        /\ \A d \in Calls \ {c} : call'[d] = call[d] /\ Refreshing(d)' = Refreshing(d)
    BY <1>3, EndedCall
  <2>2. kind = "web" => WebInv'
    BY <1>3, <2>1 DEF CallOver, ClientInv, WebInv, CallAt
  <2>3. QED
    BY <1>1, <1>3, <2>1, <2>2 DEF ClientInv
<1>4. ASSUME CallOver(c), known' = known, refreshing' \in {refreshing, FALSE}, store' \in {store, None},
             refreshing' = refreshing \/ store' = None \/ kind # "web"
      PROVE  ClientInv'
  <2>1. /\ Unheard' /\ awaits' \in [Calls -> Awaited] /\ \A d \in Calls : Awaits(d)'
        /\ call'[c] = NoCall /\ ~Refreshing(c)' /\ call'[c].pc = "idle"
        /\ \A d \in Calls \ {c} : call'[d] = call[d] /\ Refreshing(d)' = Refreshing(d)
    BY <1>4, EndedCall
  <2>2. \A d \in Calls : Refreshing(d) => call[d].stored # None
    <3>1. ASSUME NEW d \in Calls, Refreshing(d) PROVE call[d].stored \in Tokens
      <4>1. call[d].op = "refresh" /\ TokenInv
        BY <3>1 DEF ClientInv, Awaits
      <4>2. QED
        BY <1>2, <3>1, <4>1, SessionCall
    <3>2. QED
      BY <3>1, AuthConstantsOK
  <2>3. kind = "web" => WebInv'
    <3>1. CASE store' = None
      BY <1>4, <2>1, <2>2, <3>1 DEF CallOver, ClientInv, WebInv, CallAt
    <3>2. CASE store' = store /\ refreshing' = refreshing
      BY <1>4, <2>1, <3>2 DEF CallOver, ClientInv, WebInv, CallAt
    <3>3. QED
      BY <1>4, <3>1, <3>2
  <2>4. QED
    BY <1>1, <1>4, <2>1, <2>3 DEF ClientInv
<1>5. CASE CallAt(c, "answer") /\ Answer(c) /\ store' = call[c].issued
  <2>1. PICK n : n = call[c].issued
    OBVIOUS
  <2>2. /\ n \in Tokens \ known /\ known' = known \cup {n}
        /\ call' = [call EXCEPT ![c] = NoCall] /\ UNCHANGED <<token, closed>>
        /\ token[n].state = "revoked" => token[n].family \in closed
        /\ \A d \in Calls : Refreshing(d) /\ call[d].pc # "idle" => call[d].stored # n
    BY <1>5, <2>1, NewPair
  <2>3. QED
    BY <1>1, <1>2, <1>3, <1>5, <2>1, <2>2 DEF CallOver
<1>6. CASE RefusedOrLost(c) /\ (RefreshFailed(c) \/ LoggedIn(c) \/ LoggedOut(c))
  <2>1. CallOver(c) /\ known' = known
    BY <1>1, <1>6, RefusedMeans DEF CallOver
  <2>2. CASE RefreshFailed(c)
    BY <1>4, <2>1, <2>2 DEF RefreshFailed
  <2>3. CASE LoggedIn(c) /\ UNCHANGED store
    BY <1>4, <2>1, <2>3 DEF LoggedIn
  <2>4. CASE LoggedOut(c)
    BY <1>4, <2>1, <2>4 DEF LoggedOut
  <2>5. CASE LoggedIn(c) /\ CallAt(c, "answer") /\ Answer(c) /\ store' = call[c].issued
    BY <1>5, <2>5
  <2>6. QED
    BY <1>6, <2>2, <2>3, <2>4, <2>5 DEF LoggedIn
<1>7. QED
  BY <1>5, <1>6 DEF Arrives, Refreshed, RefreshFailed, LoggedIn, LoggedOut

\* A call begins, which the client awaits for w.
LEMMA CallKeepsClient ==
  ASSUME ClientInv, TokenInv', NEW c \in Calls, NEW w \in Awaited \ {None},
         awaits' = [awaits EXCEPT ![c] = w], UNCHANGED <<kind, store>>,
         \/ /\ w = "logout" /\ StartLogout(c, store) /\ store # None /\ refreshing' = refreshing
         \/ \E u \in Users, good \in BOOLEAN :
              w = "login" /\ StartLogin(c, u, good) /\ refreshing' = refreshing
         \/ /\ w \in Requests /\ StartRefresh(c, store) /\ store # None
            /\ ~refreshing /\ refreshing' = TRUE
  PROVE  ClientInv'
<1>1. known \subseteq Tokens /\ store \in known \cup {None} /\ TokenInv
  BY DEF ClientInv, TokenInv, AuthTypeOK
<1>2. /\ \A d \in Calls \ {c} : call'[d] = call[d]
      /\ call[c].pc = "idle" /\ call'[c].pc # "idle" /\ UNCHANGED <<token, known, closed>>
      /\ w \in Requests => /\ call'[c].op = "refresh" /\ call'[c].stored = store
                           /\ call'[c].family = token[store].family
                           /\ call'[c].pc = "family" => token[store].state = "revoked"
      /\ w = "login" => call'[c].op = "login"
      /\ w = "logout" => call'[c].op = "logout"
  <2>1. CASE w = "logout" /\ StartLogout(c, store) /\ store # None
    BY <1>1, <2>1, LogoutBegins, ClientConstantsOK
  <2>2. ASSUME NEW u \in Users, NEW good \in BOOLEAN, w = "login", StartLogin(c, u, good)
        PROVE  /\ \A d \in Calls \ {c} : call'[d] = call[d]
               /\ call[c].pc = "idle" /\ call'[c].pc # "idle" /\ UNCHANGED <<token, known, closed>>
               /\ call'[c].op = "login" /\ w \notin Requests /\ w # "logout"
    <3>1. PICK r \in CallRecords : BeginCall(c, u, r) /\ r.op = "login" /\ r.pc = "verify"
      BY <1>1, <2>2, LoginBegins
    <3>2. /\ call'[c] = r /\ (\A d \in Calls \ {c} : call'[d] = call[d]) /\ call[c].pc = "idle"
          /\ UNCHANGED <<token, known, closed>>
      BY <1>1, <3>1 DEF BeginCall, TokenInv, AuthTypeOK, CallAt, tables
    <3>3. QED
      BY <2>2, <3>1, <3>2, ClientConstantsOK
  <2>3. CASE w \in Requests /\ StartRefresh(c, store) /\ store # None
    BY <1>1, <2>3, RefreshBegins, ClientConstantsOK
  <2>4. QED
    BY <2>1, <2>2, <2>3
<1>3. /\ awaits' \in [Calls -> Awaited] /\ awaits'[c] = w /\ \A d \in Calls \ {c} : awaits'[d] = awaits[d]
  BY DEF ClientInv
<1>4. \A d \in Calls : Awaits(d)'
  BY <1>2, <1>3, ClientConstantsOK DEF ClientInv, Awaits, Refreshing, CallAt
<1>5. Unheard'
  BY <1>2 DEF ClientInv, Unheard
<1>6. ASSUME kind = "web" PROVE WebInv'
  <2>1. WebInv
    BY <1>6 DEF ClientInv
  <2>2. Refreshing(c)' <=> w \in Requests
    BY <1>3 DEF Refreshing
  <2>3. \A d \in Calls \ {c} : Refreshing(d)' = Refreshing(d)
    BY <1>3 DEF Refreshing
  <2>4. CASE w \in Requests
    <3>1. ~refreshing /\ refreshing' = TRUE /\ store # None
      BY <2>4, ClientConstantsOK
    <3>2. call'[c].pc = "family" => token[store].family \in closed
      BY <1>2, <2>1, <2>4, <3>1 DEF WebInv
    <3>3. QED
      BY <1>2, <2>1, <2>2, <2>3, <2>4, <3>1, <3>2 DEF WebInv, CallAt
  <2>5. CASE w \notin Requests
    <3>1. refreshing' = refreshing
      BY <2>5
    <3>2. QED
      BY <1>2, <2>1, <2>2, <2>3, <2>5, <3>1 DEF WebInv, CallAt
  <2>6. QED
    BY <2>4, <2>5
<1>7. QED
  BY <1>1, <1>2, <1>3, <1>4, <1>5, <1>6 DEF ClientInv

\* What happens in the client alone: the flag is reset only together with the
\* session.
LEMMA ClientAloneKeeps ==
  ASSUME ClientInv, UNCHANGED authVars, UNCHANGED <<kind, awaits>>,
         refreshing' = refreshing \/ store' = None, store' \in {store, None},
         refreshing' \in {refreshing, FALSE}
  PROVE  ClientInv'
<1>1. UNCHANGED <<token, user, call, known, closed, overlapped, wrong, failures>>
  BY DEF authVars, tables, authHistory
<1>2. [AuthNext]_authVars
  OBVIOUS
<1>3. TokenInv'
  BY <1>2, AuthStepKeepsTokens DEF ClientInv
<1>4. \A d \in Calls : Refreshing(d) => call[d].stored # None
  <2>1. ASSUME NEW d \in Calls, Refreshing(d) PROVE call[d].stored \in Tokens
    <3>1. call[d].op = "refresh" /\ TokenInv /\ call[d].pc # "idle"
      BY <2>1, ClientConstantsOK DEF ClientInv, Awaits, CallAt, Refreshing
    <3>2. QED
      BY <3>1, SessionCall
  <2>2. QED
    BY <2>1, AuthConstantsOK
<1>5. /\ \A d \in Calls : Refreshing(d)' = Refreshing(d) /\ Awaits(d)' = Awaits(d)
      /\ Unheard' = Unheard
  BY <1>1 DEF Refreshing, Awaits, Unheard, CallAt
<1>6. kind = "web" => WebInv'
  <2>1. CASE store' = None
    BY <1>1, <1>4, <1>5, <2>1 DEF ClientInv, WebInv, CallAt
  <2>2. CASE store' = store /\ refreshing' = refreshing
    BY <1>1, <1>5, <2>2 DEF ClientInv, WebInv, CallAt
  <2>3. QED
    BY <2>1, <2>2
<1>7. QED
  BY <1>1, <1>3, <1>5, <1>6 DEF ClientInv

\* Every step of either.
LEMMA ClientStepKeeps == ClientInv /\ [ClientNext]_sessionVars => ClientInv'
<1> SUFFICES ASSUME ClientInv, [ClientNext]_sessionVars PROVE ClientInv'
  OBVIOUS
<1>1. TokenInv'
  BY ClientStepsAreCalls, AuthStepKeepsTokens DEF ClientInv
<1>2. ASSUME NEW r \in Requests, Send(r) \/ Progress(r) PROVE ClientInv'
  <2>1. CASE Unauthorized(r)
    <3>1. CASE UNCHANGED <<authVars, refreshing, awaits>>
      BY <2>1, <3>1, ClientAloneKeeps DEF Unauthorized
    <3>2. ASSUME NEW c \in Calls, ~refreshing, store # None, StartRefresh(c, store),
                 refreshing' = TRUE, awaits' = [awaits EXCEPT ![c] = r]
          PROVE  ClientInv'
      <4>1. r \in Awaited \ {None} /\ UNCHANGED <<kind, store>>
        BY <2>1, ClientConstantsOK DEF Awaited, Unauthorized
      <4>2. QED
        BY <1>1, <3>2, <4>1, CallKeepsClient
    <3>3. QED
      BY <2>1, <3>1, <3>2 DEF Unauthorized
  <2>2. CASE Send(r) \/ AnswerRequest(r) \/ Resume(r) \/ AnswerRetry(r)
    BY <2>2, ClientAloneKeeps DEF Send, AnswerRequest, Resume, AnswerRetry
  <2>3. CASE SignOut(r) \/ AnswerOwnRetry(r)
    BY <2>3, ClientAloneKeeps DEF SignOut, AnswerOwnRetry
  <2>4. QED
    BY <1>2, <2>1, <2>2, <2>3 DEF Progress
<1>3. ASSUME NEW c \in Calls, ServerRuns(c) PROVE ClientInv'
  BY <1>1, <1>3, ServerRunsKeepsClient
<1>4. ASSUME NEW c \in Calls, Arrives(c) PROVE ClientInv'
  BY <1>1, <1>4, ArrivalKeepsClient
<1>5. ASSUME NEW c \in Calls, Logout(c) PROVE ClientInv'
  BY <1>1, <1>5, CallKeepsClient, ClientConstantsOK DEF Logout, Awaited
<1>6. ASSUME NEW c \in Calls, NEW u \in Users, Login(c, u) PROVE ClientInv'
  <2>1. "login" \in Awaited \ {None} /\ StartLogin(c, u, TRUE) /\ TRUE \in BOOLEAN
    BY <1>6, ClientConstantsOK DEF Login, Awaited
  <2>2. /\ awaits' = [awaits EXCEPT ![c] = "login"] /\ UNCHANGED <<kind, store>>
        /\ refreshing' = refreshing
    BY <1>6 DEF Login
  <2>3. QED
    BY <1>1, <2>1, <2>2, CallKeepsClient
<1>7. ASSUME NEW t \in Tokens, AccessRunsOut(t) PROVE ClientInv'
  BY <1>7, ClientAloneKeeps DEF AccessRunsOut
<1>8. CASE UNCHANGED sessionVars
  BY <1>8, ClientAloneKeeps DEF sessionVars, clientVars
<1>9. QED
  BY <1>2, <1>3, <1>4, <1>5, <1>6, <1>7, <1>8 DEF ClientNext

\* The web interceptor: however refreshes overlap with logins, logouts and lost
\* answers, for any number of requests and calls, the session revoked by the
\* detection of reuse is one that was logged out.
THEOREM NoTokenIsPresentedTwice == ClientSpec => NeverReuses
<1>1. ClientInit => ClientInv
  <2> SUFFICES ASSUME ClientInit PROVE ClientInv
    OBVIOUS
  <2>1. TokenInv
    BY AuthStarts DEF ClientInit
  <2>2. \A c \in Calls : call[c].pc = "idle" /\ awaits[c] = None
    BY NoCallFields DEF ClientInit, AuthInit
  <2>3. \A t \in Tokens : token[t].state = "unused"
    BY DEF ClientInit, AuthInit, Unused
  <2>4. QED
    BY <2>1, <2>2, <2>3, ClientConstantsOK
       DEF ClientInit, ClientInv, Unheard, Awaited, Awaits, WebInv, Refreshing, CallAt
<1>2. ClientInv => (kind = "web" => \A c \in Calls :
                     RevokeFamily(c) /\ call[c].op = "refresh" => call[c].family \in closed)
  <2> SUFFICES ASSUME ClientInv, kind = "web", NEW c \in Calls, RevokeFamily(c), call[c].op = "refresh"
               PROVE  call[c].family \in closed
    OBVIOUS
  <2>1. CallAt(c, "family") /\ ~CallAt(c, "idle")
    BY DEF RevokeFamily, CallAt
  <2>2. Refreshing(c)
    BY <2>1 DEF ClientInv, Awaits, Refreshing, Awaited
  <2>3. QED
    BY <2>1, <2>2 DEF ClientInv, WebInv
<1>3. QED
  BY <1>1, <1>2, ClientStepKeeps, PTL DEF ClientSpec, NeverReuses

-----------------------------------------------------------------------------
(* Chains: the elements that are met going on from p along f, until e, the  *)
(* end, is.                                                                 *)

\* Every set of numbers has a least one.
LEMMA LeastOf ==
  ASSUME NEW T, T \subseteq Nat, T # {} PROVE \E m \in T : \A k \in T : m <= k
<1> DEFINE R == OpToRel(<, Nat)
<1>1. IsWellFoundedOn(R, Nat)
  BY NatLessThanWellFounded
<1>2. \A a, b \in Nat : a < b => <<a, b>> \in R
  BY DEF OpToRel
<1> HIDE DEF R
<1>3. PICK m \in T : \A k \in T : ~(<<k, m>> \in R)
  BY <1>1, WFMin
<1>4. ASSUME NEW k \in T PROVE m <= k
  <2>1. m \in Nat /\ k \in Nat /\ ~(k < m)
    BY <1>2, <1>3
  <2>2. QED
    BY <2>1
<1>5. QED
  BY <1>4

\* What holds of 0 and passes on from n to n + 1 holds of every number.
LEMMA Upward ==
  ASSUME NEW T, T \subseteq Nat, 0 \in T, \A n \in T : n + 1 \in T PROVE T = Nat
<1>1. ASSUME Nat \ T # {} PROVE FALSE
  <2>1. PICK m \in Nat \ T : \A k \in Nat \ T : m <= k
    <3>1. Nat \ T \subseteq Nat
      OBVIOUS
    <3>2. QED
      BY ONLY <1>1, <3>1, LeastOf
  <2>2. m # 0
    BY <2>1
  <2>3. m - 1 \in Nat /\ (m - 1) + 1 = m /\ ~(m <= m - 1)
    BY <2>1, <2>2
  <2>4. m - 1 \in T
    BY <2>1, <2>3
  <2>5. QED
    BY <2>1, <2>3, <2>4
<1>2. QED
  BY <1>1

\* One step from x along f, which is defined on S; e is the end of every line.
Along(S, e, f, x) == IF x \in S THEN f[x] ELSE e
Chain(S, e, f, p) ==
  LET h[n \in Nat] == IF n = 0 THEN p ELSE Along(S, e, f, h[n - 1]) IN h

\* The first n steps of the chain above p.
Part(S, e, f, p, n, g) ==
  g = [k \in 0..n |-> IF k = 0 THEN p ELSE Along(S, e, f, g[k - 1])]

LEMMA PartAt ==
  ASSUME NEW S, NEW e, NEW f, NEW p, NEW n \in Nat, NEW g, Part(S, e, f, p, n, g)
  PROVE  /\ g[0] = p
         /\ \A k \in Nat : k + 1 <= n => g[k + 1] = Along(S, e, f, g[k])
<1>1. \A k \in 0..n : g[k] = IF k = 0 THEN p ELSE Along(S, e, f, g[k - 1])
  BY Zenon DEF Part
<1>2. ASSUME NEW k \in Nat, k + 1 <= n PROVE g[k + 1] = Along(S, e, f, g[k])
  <2>1. k + 1 \in 0..n /\ k + 1 # 0 /\ (k + 1) - 1 = k
    BY <1>2
  <2>2. QED
    BY <1>1, <2>1
<1>3. QED
  BY <1>1, <1>2

LEMMA PartsAgree ==
  ASSUME NEW S, NEW e, NEW f, NEW p, NEW m \in Nat, NEW n \in Nat, NEW g, NEW h,
         Part(S, e, f, p, m, g), Part(S, e, f, p, n, h)
  PROVE  \A k \in Nat : k <= m /\ k <= n => g[k] = h[k]
<1> DEFINE T == {k \in Nat : k <= m /\ k <= n => g[k] = h[k]}
<1>1. 0 \in T
  BY PartAt
<1>2. ASSUME NEW k \in T PROVE k + 1 \in T
  <2>1. SUFFICES ASSUME k + 1 <= m, k + 1 <= n PROVE g[k + 1] = h[k + 1]
    OBVIOUS
  <2>2. g[k] = h[k]
    BY <2>1
  <2> k \in Nat
    OBVIOUS
  <2> HIDE DEF T
  <2>5. g[k + 1] = Along(S, e, f, g[k])
    BY <2>1, PartAt
  <2>6. h[k + 1] = Along(S, e, f, h[k])
    BY <2>1, PartAt
  <2>4. QED
    BY <2>1, <2>2, <2>5, <2>6 DEF T
<1> HIDE DEF T
<1>3. T = Nat
  BY <1>1, <1>2, Upward DEF T
<1>4. QED
  BY <1>3 DEF T

\* The chain is defined by recursion; these lemmas give its equation.
LEMMA PartsExist ==
  ASSUME NEW S, NEW e, NEW f, NEW p PROVE \A n \in Nat : \E g : Part(S, e, f, p, n, g)
<1> DEFINE T == {n \in Nat : \E g : Part(S, e, f, p, n, g)}
<1>1. 0 \in T
  <2> DEFINE g == [k \in 0..0 |-> p]
  <2>1. g = [k \in 0..0 |-> IF k = 0 THEN p ELSE Along(S, e, f, g[k - 1])]
    OBVIOUS
  <2>2. Part(S, e, f, p, 0, g)
    BY <2>1 DEF Part
  <2>3. QED
    BY <2>2
<1>2. ASSUME NEW n \in T PROVE n + 1 \in T
  <2>1. PICK f0 : Part(S, e, f, p, n, f0)
    OBVIOUS
  <2> DEFINE g == [k \in 0..(n + 1) |-> IF k = n + 1 THEN Along(S, e, f, f0[n]) ELSE f0[k]]
  <2>2. ASSUME NEW k \in 0..(n + 1)
        PROVE  g[k] = IF k = 0 THEN p ELSE Along(S, e, f, g[k - 1])
    <3>1. CASE k = n + 1
      <4>1. k # 0 /\ k - 1 = n /\ n \in 0..(n + 1) /\ n # n + 1
        BY <3>1
      <4>2. g[n] = f0[n] /\ g[k] = Along(S, e, f, f0[n])
        BY <4>1, <3>1
      <4> HIDE DEF g
      <4>3. QED
        BY <4>1, <4>2
    <3>2. CASE k # n + 1
      <4>1. k \in 0..n
        BY <3>2
      <4>2. f0[k] = IF k = 0 THEN p ELSE Along(S, e, f, f0[k - 1])
        BY <2>1, <4>1, Zenon DEF Part
      <4>3. g[k] = f0[k]
        BY <3>2
      <4>4. k # 0 => g[k - 1] = f0[k - 1]
        <5>1. k # 0 => k - 1 \in 0..(n + 1) /\ k - 1 # n + 1
          BY <4>1
        <5>2. QED
          BY <5>1
      <4> HIDE DEF g
      <4>5. QED
        BY <4>2, <4>3, <4>4
    <3>3. QED
      BY <3>1, <3>2
  <2>3. g = [k \in 0..(n + 1) |-> g[k]]
    OBVIOUS
  <2> HIDE DEF g
  <2>4. Part(S, e, f, p, n + 1, g)
    BY <2>2, <2>3 DEF Part
  <2>5. QED
    BY <2>4
<1> HIDE DEF T
<1>3. T = Nat
  BY <1>1, <1>2, Upward DEF T
<1>4. QED
  BY <1>3 DEF T

LEMMA ChainEquation ==
  ASSUME NEW S, NEW e, NEW f, NEW p
  PROVE  /\ Chain(S, e, f, p)[0] = p
         /\ \A n \in Nat : Chain(S, e, f, p)[n + 1] = Along(S, e, f, Chain(S, e, f, p)[n])
<1> DEFINE nth(n) == CHOOSE g : Part(S, e, f, p, n, g)
           F == [n \in Nat |-> nth(n)[n]]
<1>1. \A n \in Nat : Part(S, e, f, p, n, nth(n))
  BY PartsExist
<1>2. F[0] = p
  <2>1. Part(S, e, f, p, 0, nth(0)) /\ F[0] = nth(0)[0]
    BY <1>1
  <2> HIDE DEF nth, F
  <2>2. QED
    BY <2>1, PartAt
<1>3. ASSUME NEW n \in Nat PROVE F[n + 1] = Along(S, e, f, F[n])
  <2>1. F[n + 1] = nth(n + 1)[n + 1] /\ F[n] = nth(n)[n]
    OBVIOUS
  <2>2. Part(S, e, f, p, n + 1, nth(n + 1)) /\ Part(S, e, f, p, n, nth(n))
    BY <1>1
  <2> HIDE DEF nth, F
  <2>3. nth(n + 1)[n] = nth(n)[n]
    BY <2>2, PartsAgree
  <2>4. nth(n + 1)[n + 1] = Along(S, e, f, nth(n + 1)[n])
    BY <2>2, PartAt
  <2>5. QED
    BY <2>1, <2>3, <2>4
<1>4. F = [n \in Nat |-> F[n]]
  OBVIOUS
<1> HIDE DEF F
<1>5. ASSUME NEW n \in Nat PROVE F[n] = IF n = 0 THEN p ELSE Along(S, e, f, F[n - 1])
  <2>1. CASE n # 0
    <3>1. n - 1 \in Nat /\ (n - 1) + 1 = n
      BY <2>1
    <3>2. F[(n - 1) + 1] = Along(S, e, f, F[n - 1])
      BY <3>1, <1>3
    <3>3. QED
      BY <2>1, <3>1, <3>2
  <2>2. QED
    BY <2>1, <1>2
<1>6. F = [n \in Nat |-> IF n = 0 THEN p ELSE Along(S, e, f, F[n - 1])]
  BY <1>4, <1>5
<1>7. PICK h : /\ h = Chain(S, e, f, p)
               /\ h = [n \in Nat |-> IF n = 0 THEN p ELSE Along(S, e, f, h[n - 1])]
  BY <1>6 DEF Chain
<1>8. h[0] = p
  BY <1>7
<1>9. ASSUME NEW n \in Nat PROVE h[n + 1] = Along(S, e, f, h[n])
  <2>1. n + 1 \in Nat /\ n + 1 # 0 /\ (n + 1) - 1 = n
    OBVIOUS
  <2>2. h[n + 1] = Along(S, e, f, h[(n + 1) - 1])
    BY <1>7, <2>1
  <2>3. QED
    BY <2>1, <2>2
<1>10. QED
  BY <1>7, <1>8, <1>9

\* f leads from each element of S to another or to the end.
OnLine(S, e, f) == e \notin S /\ f \in [S -> S \cup {e}]

\* A chain that begins in S stays there until it ends.
LEMMA ChainStays ==
  ASSUME NEW S, NEW e, NEW f, OnLine(S, e, f), NEW p \in S \cup {e}
  PROVE  \A n \in Nat : Chain(S, e, f, p)[n] \in S \cup {e}
<1> DEFINE c == Chain(S, e, f, p)
           T == {n \in Nat : c[n] \in S \cup {e}}
<1>1. c[0] = p /\ \A n \in Nat : c[n + 1] = Along(S, e, f, c[n])
  BY ChainEquation
<1> HIDE DEF c
<1>2. \A n \in T : n + 1 \in T
  BY <1>1 DEF Along, OnLine
<1>3. 0 \in T
  BY <1>1
<1> HIDE DEF T
<1>4. T = Nat
  BY <1>2, <1>3, Upward DEF T
<1>5. QED
  BY <1>4 DEF T, c

\* Going on from where the first n steps lead.
LEMMA ChainAdds ==
  ASSUME NEW S, NEW e, NEW f, NEW p, NEW n \in Nat
  PROVE  \A m \in Nat : Chain(S, e, f, p)[m + n] = Chain(S, e, f, Chain(S, e, f, p)[n])[m]
<1> DEFINE c == Chain(S, e, f, p)
           d == Chain(S, e, f, c[n])
           T == {m \in Nat : c[m + n] = d[m]}
<1>1. \A k \in Nat : c[k + 1] = Along(S, e, f, c[k])
  BY ChainEquation
<1>2. d[0] = c[n] /\ \A k \in Nat : d[k + 1] = Along(S, e, f, d[k])
  BY ChainEquation
<1> HIDE DEF c, d
<1>3. 0 \in T
  BY <1>2
<1>4. ASSUME NEW m \in T PROVE m + 1 \in T
  <2>1. m + n \in Nat /\ (m + n) + 1 = (m + 1) + n
    OBVIOUS
  <2>2. c[(m + n) + 1] = Along(S, e, f, c[m + n])
    BY <2>1, <1>1
  <2>3. QED
    BY <2>1, <2>2, <1>2
<1> HIDE DEF T
<1>5. T = Nat
  BY <1>3, <1>4, Upward DEF T
<1>6. QED
  BY <1>5 DEF T, c, d

\* The end is never left.
LEMMA ChainOver ==
  ASSUME NEW S, NEW e, NEW f, e \notin S, NEW p, NEW n \in Nat
  PROVE  Chain(S, e, f, p)[n] = e => \A m \in Nat : m >= n => Chain(S, e, f, p)[m] = e
<1> DEFINE d == Chain(S, e, f, e)
           T == {m \in Nat : d[m] = e}
<1>1. d[0] = e /\ \A k \in Nat : d[k + 1] = Along(S, e, f, d[k])
  BY ChainEquation
<1>2. \A k \in Nat : Chain(S, e, f, p)[k + n] = Chain(S, e, f, Chain(S, e, f, p)[n])[k]
  BY ChainAdds
<1> HIDE DEF d
<1>3. 0 \in T /\ \A m \in T : m + 1 \in T
  BY <1>1 DEF Along
<1> HIDE DEF T
<1>4. T = Nat
  BY <1>3, Upward DEF T
<1>5. ASSUME Chain(S, e, f, p)[n] = e, NEW m \in Nat, m >= n PROVE Chain(S, e, f, p)[m] = e
  <2>1. m - n \in Nat /\ (m - n) + n = m
    BY <1>5
  <2>2. Chain(S, e, f, p)[(m - n) + n] = d[m - n]
    BY <2>1, <1>2, <1>5 DEF d
  <2>3. QED
    BY <2>1, <2>2, <1>4 DEF T
<1>6. QED
  BY <1>5

\* n is the first step at which the chain above p is in A.
FirstIn(S, e, f, p, A, n) ==
  /\ Chain(S, e, f, p)[n] \in A
  /\ \A k \in 0..(n - 1) : Chain(S, e, f, p)[k] \notin A

LEMMA FirstExists ==
  ASSUME NEW S, NEW e, NEW f, NEW p, NEW A, \E n \in Nat : Chain(S, e, f, p)[n] \in A
  PROVE  \E n \in Nat : FirstIn(S, e, f, p, A, n)
<1> DEFINE c == Chain(S, e, f, p)
           T == {n \in Nat : c[n] \in A}
<1> HIDE DEF c
<1>1. T \subseteq Nat /\ T # {}
  BY DEF c
<1>2. PICK n \in T : \A k \in T : n <= k
  BY <1>1, LeastOf
<1>3. \A k \in 0..(n - 1) : k \in Nat /\ ~(n <= k)
  BY <1>2
<1>4. QED
  BY <1>2, <1>3 DEF FirstIn, c

\* Before it gets there it repeats nothing.
LEMMA FirstIsSimple ==
  ASSUME NEW S, NEW e, NEW f, OnLine(S, e, f), NEW p \in S \cup {e}, NEW A,
         NEW n \in Nat, FirstIn(S, e, f, p, A, n)
  PROVE  /\ \A i \in 0..(n - 1) : Chain(S, e, f, p)[i] \in S \ A
         /\ \A i, j \in 0..n : i < j => Chain(S, e, f, p)[i] # Chain(S, e, f, p)[j]
<1> DEFINE c == Chain(S, e, f, p)
<1>1. ASSUME NEW i \in 0..(n - 1) PROVE c[i] \in S \ A
  <2>1. i \in Nat /\ n >= i
    OBVIOUS
  <2>2. c[i] \notin A /\ c[n] \in A
    BY <1>1 DEF FirstIn
  <2>3. c[i] = e => c[n] = e
    BY <2>1, ChainOver DEF OnLine
  <2>4. c[i] \in S \cup {e}
    BY <2>1, ChainStays
  <2>5. QED
    BY <2>2, <2>3, <2>4
<1>2. ASSUME NEW i \in 0..n, NEW j \in 0..n, i < j, c[i] = c[j] PROVE FALSE
  <2>1. i \in Nat /\ j \in Nat /\ n - j \in Nat /\ (n - j) + j = n /\ (n - j) + i \in 0..(n - 1)
    BY <1>2
  <2>2. c[(n - j) + i] = Chain(S, e, f, c[i])[n - j]
    BY <2>1, ChainAdds
  <2>3. c[(n - j) + j] = Chain(S, e, f, c[j])[n - j]
    BY <2>1, ChainAdds
  <2>4. c[(n - j) + i] = c[n]
    BY <2>1, <2>2, <2>3, <1>2
  <2>5. QED
    BY <2>1, <2>4 DEF FirstIn
<1>3. QED
  BY <1>1, <1>2

\* A simple chain is no longer than the set it runs in.
LEMMA FirstIsNear ==
  ASSUME NEW S, NEW e, NEW f, OnLine(S, e, f), IsFiniteSet(S), NEW p \in S \cup {e}, NEW A,
         NEW n \in Nat, FirstIn(S, e, f, p, A, n)
  PROVE  n <= Cardinality(S)
<1> DEFINE c == Chain(S, e, f, p)
           g == [i \in 0..(n - 1) |-> c[i]]
<1>1. Cardinality(S) \in Nat
  BY FS_CardinalityType
<1>2. ASSUME ~(n <= Cardinality(S)) PROVE FALSE
  <2>1. g \in [0..(n - 1) -> S]
    BY FirstIsSimple
  <2>2. IsFiniteSet(0..(n - 1)) /\ Cardinality(0..(n - 1)) = n
    <3>1. n >= 1 /\ n - 1 \in Int /\ 0 <= n - 1
      BY <1>1, <1>2
    <3>2. IsFiniteSet(0..(n - 1)) /\ Cardinality(0..(n - 1)) = (n - 1) - 0 + 1
      BY <3>1, FS_Interval
    <3>3. QED
      BY <3>2
  <2>3. \E i, j \in 0..(n - 1) : i # j /\ g[i] = g[j]
    <3> HIDE DEF g
    <3>1. Cardinality(S) < Cardinality(0..(n - 1))
      BY <1>1, <1>2, <2>2
    <3>2. QED
      BY <3>1, <2>1, <2>2, FS_PigeonHole
  <2>4. PICK i \in 0..(n - 1), j \in 0..(n - 1) : i # j /\ c[i] = c[j]
    BY <2>3
  <2>5. i \in 0..n /\ j \in 0..n /\ (i < j \/ j < i)
    BY <2>4
  <2>6. QED
    BY <2>4, <2>5, FirstIsSimple
<1>3. QED
  BY <1>2

\* What is reached from A going down at most n steps.
Below(S, e, f, A, n) == {u \in S : \E k \in 0..n : Chain(S, e, f, u)[k] \in A}

\* The chain above u goes on as the one above the next.
LEMMA ChainFromNext ==
  ASSUME NEW S, NEW e, NEW f, NEW u \in S
  PROVE  \A k \in Nat : Chain(S, e, f, u)[k + 1] = Chain(S, e, f, f[u])[k]
<1>1. Chain(S, e, f, u)[0 + 1] = Along(S, e, f, u)
  BY ChainEquation
<1>2. Chain(S, e, f, u)[1] = f[u]
  BY <1>1 DEF Along
<1>3. \A k \in Nat : Chain(S, e, f, u)[k + 1] = Chain(S, e, f, Chain(S, e, f, u)[1])[k]
  BY ChainAdds
<1>4. QED
  BY <1>2, <1>3

\* One step further down are those whose next was reached before.
LEMMA BelowSteps ==
  ASSUME NEW S, NEW e, NEW f, OnLine(S, e, f), NEW A, A \subseteq S
  PROVE  /\ Below(S, e, f, A, 0) = A
         /\ \A n \in Nat : Below(S, e, f, A, n + 1) =
              Below(S, e, f, A, n) \cup {u \in S : f[u] \in Below(S, e, f, A, n)}
<1> DEFINE c(u) == Chain(S, e, f, u)
<1>0. \A u : c(u)[0] = u
  BY ChainEquation
<1>1. Below(S, e, f, A, 0) = A
  BY <1>0 DEF Below
<1>2. \A u \in S : \A k \in Nat : c(u)[k + 1] = c(f[u])[k]
  BY ChainFromNext
<1>3. \A u \in S : f[u] \notin S => \A k \in Nat : c(f[u])[k] \notin S
  <2> SUFFICES ASSUME NEW u \in S, f[u] \notin S, NEW k \in Nat PROVE c(f[u])[k] = e
    BY DEF OnLine
  <2>1. f[u] = e /\ c(e)[0] = e /\ e \notin S
    BY ChainEquation DEF OnLine
  <2>2. c(e)[k] = e
    BY <2>1, ChainOver
  <2>3. QED
    BY <2>1, <2>2
<1> HIDE DEF c
<1>4. ASSUME NEW n \in Nat, NEW u \in S
      PROVE  (\E k \in 0..(n + 1) : c(u)[k] \in A)
               <=> (\E k \in 0..n : c(u)[k] \in A) \/ (f[u] \in S /\ \E k \in 0..n : c(f[u])[k] \in A)
  <2>1. ASSUME NEW k \in 0..(n + 1), c(u)[k] \in A, k \notin 0..n
        PROVE  f[u] \in S /\ n \in 0..n /\ c(f[u])[n] \in A
    <3>1. k = n + 1
      BY <2>1
    <3>2. QED
      BY <2>1, <3>1, <1>2, <1>3
  <2>2. ASSUME NEW k \in 0..n, c(f[u])[k] \in A PROVE k + 1 \in 0..(n + 1) /\ c(u)[k + 1] \in A
    BY <2>2, <1>2
  <2>3. \A k \in 0..n : k \in 0..(n + 1)
    OBVIOUS
  <2>4. QED
    BY <2>1, <2>2, <2>3
<1>5. ASSUME NEW n \in Nat, NEW u \in S
      PROVE  u \in Below(S, e, f, A, n + 1)
               <=> u \in Below(S, e, f, A, n) \/ f[u] \in Below(S, e, f, A, n)
  <2>1. /\ u \in Below(S, e, f, A, n + 1) <=> \E k \in 0..(n + 1) : c(u)[k] \in A
        /\ u \in Below(S, e, f, A, n) <=> \E k \in 0..n : c(u)[k] \in A
        /\ f[u] \in Below(S, e, f, A, n) <=> f[u] \in S /\ \E k \in 0..n : c(f[u])[k] \in A
    BY DEF Below, c
  <2>2. QED
    BY <2>1, <1>4
<1>6. \A n : Below(S, e, f, A, n) \subseteq S
  BY DEF Below
<1>7. QED
  BY <1>1, <1>5, <1>6

\* The recursion by which trees are walked down.
IsDown(S, f, A, N, g) ==
  g = [n \in 0..N |-> IF n = 0 THEN A ELSE g[n - 1] \cup {u \in S : f[u] \in g[n - 1]}]

\* That recursion computes what is below A.
LEMMA DownIsBelow ==
  ASSUME NEW S, NEW e, NEW f, OnLine(S, e, f), NEW A, A \subseteq S, NEW N \in Nat
  PROVE  /\ \E g : IsDown(S, f, A, N, g)
         /\ \A g : IsDown(S, f, A, N, g) => g[N] = Below(S, e, f, A, N)
<1> DEFINE w == [n \in 0..N |-> Below(S, e, f, A, n)]
<1>1. /\ Below(S, e, f, A, 0) = A
      /\ \A n \in Nat : Below(S, e, f, A, n + 1) =
              Below(S, e, f, A, n) \cup {u \in S : f[u] \in Below(S, e, f, A, n)}
  BY BelowSteps
<1>2. ASSUME NEW n \in 0..N
      PROVE  w[n] = IF n = 0 THEN A ELSE w[n - 1] \cup {u \in S : f[u] \in w[n - 1]}
  <2>1. CASE n # 0
    <3>1. n - 1 \in Nat /\ (n - 1) + 1 = n /\ n - 1 \in 0..N
      BY <2>1
    <3>2. w[n - 1] = Below(S, e, f, A, n - 1) /\ w[n] = Below(S, e, f, A, (n - 1) + 1)
      BY <3>1
    <3> HIDE DEF w
    <3>3. QED
      BY <1>1, <2>1, <3>1, <3>2
  <2>2. QED
    BY <1>1, <2>1
<1>3. w = [n \in 0..N |-> w[n]] /\ \A n \in 0..N : w[n] = Below(S, e, f, A, n)
  OBVIOUS
<1> HIDE DEF w
<1>4. w = [n \in 0..N |-> IF n = 0 THEN A ELSE w[n - 1] \cup {u \in S : f[u] \in w[n - 1]}]
  BY <1>2, <1>3
<1> SUFFICES ASSUME NEW d, IsDown(S, f, A, N, d) PROVE d[N] = Below(S, e, f, A, N)
  BY <1>4 DEF IsDown
<1>5. \A n \in 0..N : d[n] = IF n = 0 THEN A ELSE d[n - 1] \cup {u \in S : f[u] \in d[n - 1]}
  BY Zenon DEF IsDown
<1> DEFINE T == {n \in Nat : n <= N => d[n] = w[n]}
<1>6. 0 \in T
  <2>1. 0 \in 0..N
    OBVIOUS
  <2>2. QED
    BY <2>1, <1>2, <1>5
<1>7. ASSUME NEW n \in T PROVE n + 1 \in T
  <2> SUFFICES ASSUME n + 1 <= N PROVE d[n + 1] = w[n + 1]
    OBVIOUS
  <2>1. n + 1 \in 0..N /\ n + 1 # 0 /\ (n + 1) - 1 = n /\ d[n] = w[n]
    OBVIOUS
  <2>2. d[n + 1] = d[(n + 1) - 1] \cup {u \in S : f[u] \in d[(n + 1) - 1]}
    BY <1>5, <2>1
  <2>3. w[n + 1] = w[(n + 1) - 1] \cup {u \in S : f[u] \in w[(n + 1) - 1]}
    BY <1>2, <2>1
  <2>4. QED
    BY <2>1, <2>2, <2>3
<1> HIDE DEF T
<1>8. T = Nat
  BY <1>6, <1>7, Upward DEF T
<1>9. d[N] = w[N]
  BY <1>8 DEF T
<1>10. w[N] = Below(S, e, f, A, N)
  <2>1. N \in 0..N
    OBVIOUS
  <2>2. QED
    BY <2>1, <1>3
<1>11. QED
  BY <1>9, <1>10

\* Within as many steps as there are elements, all is reached.
LEMMA BelowAll ==
  ASSUME NEW S, NEW e, NEW f, OnLine(S, e, f), IsFiniteSet(S), NEW A, A \subseteq S
  PROVE  Below(S, e, f, A, Cardinality(S)) = {u \in S : \E k \in Nat : Chain(S, e, f, u)[k] \in A}
<1>1. ASSUME NEW u \in S, NEW k \in Nat, Chain(S, e, f, u)[k] \in A
      PROVE  \E m \in 0..Cardinality(S) : Chain(S, e, f, u)[m] \in A
  <2>1. PICK n \in Nat : FirstIn(S, e, f, u, A, n)
    BY <1>1, FirstExists
  <2>2. n <= Cardinality(S) /\ Cardinality(S) \in Nat
    BY <2>1, FirstIsNear, FS_CardinalityType
  <2>3. QED
    BY <2>1, <2>2 DEF FirstIn
<1>2. Cardinality(S) \in Nat
  BY FS_CardinalityType
<1>3. QED
  BY <1>1, <1>2 DEF Below

-----------------------------------------------------------------------------
(* AccessScope. From the unit the walk has come to, the caller's scope can  *)
(* be reached exactly if it can from the unit the write names.              *)

MaybeUnit == Units \cup {NoUnit}
Guarding == [pc : {"idle", "roles", "units", "walk"} \cup Verdicts, write : BOOLEAN,
             target : MaybeUnit, scoped : SUBSET Units, units : [Units -> MaybeUnit],
             cursor : MaybeUnit, was : SUBSET Grants]

\* Some unit on the way from u to the root is in the scope of the caller.
Reaches(r, u) == \E k \in Nat : Chain(Units, NoUnit, r.units, u)[k] \in r.scoped

ScopeInv ==
  /\ parentOf \in [Units -> MaybeUnit]
  /\ granted \subseteq Grants /\ request \in Guarding
  /\ request.pc \in {"idle", "roles"} => request.was = {}
  /\ request.pc = "walk" => (Reaches(request, request.cursor) <=> Reaches(request, request.target))
  /\ request.pc \in Verdicts /\ request.was # {} =>
       (request.pc = "admitted" <=> Reaches(request, request.target))

\* expandSubtrees yields the units from which the anchors are reached.
LEMMA SubtreesAreBelow ==
  ASSUME NEW parent \in [Units -> MaybeUnit], NEW anchors, anchors \subseteq Units
  PROVE  expandSubtrees(parent, anchors) =
           {u \in Units : \E k \in Nat : Chain(Units, NoUnit, parent, u)[k] \in anchors}
<1>1. OnLine(Units, NoUnit, parent) /\ IsFiniteSet(Units) /\ Cardinality(Units) \in Nat
  BY TribeOK, FS_CardinalityType DEF OnLine, MaybeUnit
<1> DEFINE N == Cardinality(Units)
           down == CHOOSE g : IsDown(Units, parent, anchors, N, g)
<1>2. expandSubtrees(parent, anchors) = down[N]
  BY DEF expandSubtrees, IsDown
<1>3. IsDown(Units, parent, anchors, N, down)
  BY <1>1, DownIsBelow
<1> HIDE DEF down
<1>4. down[N] = Below(Units, NoUnit, parent, anchors, N)
  BY <1>1, <1>3, DownIsBelow
<1>5. QED
  BY <1>1, <1>2, <1>4, BelowAll

\* The scope is reached from a unit outside of it exactly if from its parent.
LEMMA ReachesByParent ==
  ASSUME NEW r \in Guarding, NEW u \in MaybeUnit
  PROVE  /\ u \in r.scoped => Reaches(r, u)
         /\ u = NoUnit => ~Reaches(r, u)
         /\ u \in Units /\ u \notin r.scoped => (Reaches(r, u) <=> Reaches(r, r.units[u]))
<1> DEFINE c(x) == Chain(Units, NoUnit, r.units, x)
<1>1. c(u)[0] = u /\ r.scoped \subseteq Units /\ NoUnit \notin Units
  BY ChainEquation, TribeOK DEF Guarding
<1>2. u \in r.scoped => Reaches(r, u)
  BY <1>1 DEF Reaches
<1>3. ASSUME u = NoUnit PROVE ~Reaches(r, u)
  <2>1. \A k \in Nat : c(u)[k] = NoUnit
    BY <1>1, <1>3, ChainOver
  <2>2. QED
    BY <2>1, <1>1 DEF Reaches
<1>4. ASSUME u \in Units, u \notin r.scoped PROVE Reaches(r, u) <=> Reaches(r, r.units[u])
  <2>1. \A k \in Nat : c(u)[k + 1] = c(r.units[u])[k]
    BY <1>4, ChainFromNext
  <2> HIDE DEF c
  <2>2. ASSUME NEW k \in Nat, c(u)[k] \in r.scoped
        PROVE  \E m \in Nat : c(r.units[u])[m] \in r.scoped
    <3>1. k # 0
      BY <1>1, <1>4, <2>2
    <3>2. k - 1 \in Nat /\ (k - 1) + 1 = k
      BY <3>1
    <3>3. c(u)[(k - 1) + 1] = c(r.units[u])[k - 1]
      BY <3>2, <2>1
    <3>4. QED
      BY <2>2, <3>2, <3>3
  <2>3. ASSUME NEW k \in Nat, c(r.units[u])[k] \in r.scoped
        PROVE  \E m \in Nat : c(u)[m] \in r.scoped
    <3>1. k + 1 \in Nat /\ c(u)[k + 1] \in r.scoped
      BY <2>1, <2>3
    <3>2. QED
      BY <3>1
  <2>4. QED
    BY <2>2, <2>3 DEF Reaches, c
<1>5. QED
  BY <1>2, <1>3, <1>4

LEMMA ScopeInit_Inv == ScopeInit => ScopeInv
BY DEF ScopeInit, ScopeInv, Quick, Guarding, MaybeUnit, Verdicts

\* From a unit outside the scope the guard goes on to its parent.
LEMMA WalkKeeps == ASSUME ScopeInv, Walk PROVE ScopeInv'
<1>1. request \in Guarding /\ request.pc = "walk" /\ request.cursor \in MaybeUnit
  BY DEF Walk, ScopeInv, Guarding
<1>2. Reaches(request, request.cursor) <=> Reaches(request, request.target)
  BY <1>1 DEF ScopeInv
<1>3. UNCHANGED <<parentOf, granted>>
  BY DEF Walk
<1>4. \A v \in Verdicts : Conclude(v) => /\ request' \in Guarding /\ request'.pc = v
                                         /\ Reaches(request', request'.target)
                                              <=> Reaches(request, request.target)
  BY <1>1 DEF Conclude, Guarding, Reaches
<1>5. CASE request.cursor \in request.scoped
  <2>1. Conclude("admitted") /\ Reaches(request, request.target)
    BY <1>1, <1>2, <1>5, ReachesByParent DEF Walk
  <2>2. QED
    BY <1>3, <1>4, <2>1 DEF ScopeInv, Verdicts
<1>6. CASE request.cursor \notin request.scoped /\ request.cursor = NoUnit
  <2>1. Conclude("forbidden") /\ ~Reaches(request, request.target)
    BY <1>1, <1>2, <1>6, ReachesByParent DEF Walk
  <2>2. QED
    BY <1>3, <1>4, <2>1 DEF ScopeInv, Verdicts
<1>7. CASE request.cursor \notin request.scoped /\ request.cursor # NoUnit
  <2>1. request' = [request EXCEPT !.cursor = request.units[request.cursor]]
    BY <1>7 DEF Walk
  <2>2. /\ request' \in Guarding /\ request'.pc = "walk"
        /\ request'.cursor = request.units[request.cursor]
        /\ request'.target = request.target
        /\ request'.units = request.units /\ request'.scoped = request.scoped
    BY <1>1, <1>7, <2>1 DEF Guarding, MaybeUnit
  <2>3. Reaches(request, request.cursor) <=> Reaches(request, request.units[request.cursor])
    BY <1>1, <1>7, ReachesByParent DEF MaybeUnit
  <2>4. Reaches(request', request'.cursor) <=> Reaches(request', request'.target)
    BY <1>2, <2>2, <2>3 DEF Reaches
  <2>5. QED
    BY <1>3, <2>2, <2>4 DEF ScopeInv, Verdicts
<1>8. QED
  BY <1>5, <1>6, <1>7

\* Whatever role there is, the scope is a set of units.
LEMMA ReadAssignmentsKeeps == ASSUME ScopeInv, ReadAssignments PROVE ScopeInv'
<1> DEFINE matching == {g \in granted : request.write => g.role # "member"}
           scoped == {g.unit : g \in matching}
<1>1. /\ request \in Guarding /\ request.pc = "roles" /\ request.was = {}
      /\ granted \subseteq Grants /\ parentOf \in [Units -> MaybeUnit]
      /\ UNCHANGED <<parentOf, granted>>
  BY DEF ReadAssignments, ScopeInv
<1>2. ASSUME NEW v \in Verdicts, Conclude(v) PROVE ScopeInv'
  BY <1>1, <1>2 DEF Conclude, ScopeInv, Guarding, Verdicts
<1>3. ASSUME NoUnit \notin scoped,
             request' = [request EXCEPT !.pc = "units", !.scoped = scoped, !.was = matching]
      PROVE  ScopeInv'
  <2>1. scoped \subseteq Units /\ matching \subseteq Grants
    BY <1>1, <1>3 DEF Grants
  <2> HIDE DEF scoped, matching
  <2>2. request' \in Guarding /\ request'.pc = "units"
    BY <1>1, <1>3, <2>1 DEF Guarding
  <2>3. QED
    BY <1>1, <2>2 DEF ScopeInv, Verdicts
<1>4. \/ \E v \in Verdicts : Conclude(v)
      \/ /\ NoUnit \notin scoped
         /\ request' = [request EXCEPT !.pc = "units", !.scoped = scoped, !.was = matching]
  BY DEF ReadAssignments, Verdicts
<1>5. QED
  BY <1>2, <1>3, <1>4

\* The walk begins at the unit the write names.
LEMMA ReadUnitsKeeps == ASSUME ScopeInv, ReadUnits PROVE ScopeInv'
<1>1. /\ request' \in Guarding /\ request'.pc = "walk"
      /\ request'.cursor = request'.target
  BY DEF ReadUnits, ScopeInv, Guarding
<1>2. QED
  BY <1>1 DEF ReadUnits, ScopeInv, Verdicts

LEMMA ScopeStepKeeps == ScopeInv /\ [ScopeNext]_scopeVars => ScopeInv'
<1> SUFFICES ASSUME ScopeInv, [ScopeNext]_scopeVars PROVE ScopeInv'
  OBVIOUS
<1>1. ASSUME UNCHANGED request, granted' \subseteq Grants, parentOf' \in [Units -> MaybeUnit]
      PROVE  ScopeInv'
  BY <1>1 DEF ScopeInv
<1>2. granted \subseteq Grants /\ parentOf \in [Units -> MaybeUnit]
  BY DEF ScopeInv
<1>3. ASSUME NEW u \in Units, removeUnit(u) PROVE ScopeInv'
  <2>1. granted' = {IF g.unit = u THEN [g EXCEPT !.unit = NoUnit] ELSE g : g \in granted}
    BY <1>3 DEF removeUnit
  <2>2. \A g \in Grants : [g EXCEPT !.unit = NoUnit] \in Grants
    BY DEF Grants
  <2>3. granted' \subseteq Grants
    BY <1>2, <2>1, <2>2
  <2>4. parentOf' \in [Units -> MaybeUnit]
    BY <1>2, <1>3 DEF removeUnit, MaybeUnit
  <2>5. QED
    BY <1>1, <1>3, <2>3, <2>4 DEF removeUnit
<1>4. ASSUME NEW u \in Units, NEW p \in MaybeUnit, createUnit(u, p) \/ updateUnit(u, p)
      PROVE  ScopeInv'
  BY <1>1, <1>2, <1>4 DEF createUnit, updateUnit
<1>5. ASSUME NEW g \in Assignments, Assign(g) PROVE ScopeInv'
  BY <1>1, <1>2, <1>5, AssignmentsOK DEF Assign
<1>6. ASSUME NEW g \in granted, Lapse(g) PROVE ScopeInv'
  BY <1>1, <1>2, <1>6 DEF Lapse
<1>7. ASSUME NEW write \in BOOLEAN, NEW target \in MaybeUnit, Arrive(write, target) PROVE ScopeInv'
  <2>1. request' \in Guarding /\ request'.pc = "roles" /\ request'.was = {}
    BY <1>7 DEF Arrive, Quick, Guarding, MaybeUnit
  <2>2. QED
    BY <1>2, <1>7, <2>1 DEF Arrive, ScopeInv, Verdicts
<1>8. ASSUME Handled PROVE ScopeInv'
  <2>1. request' \in Guarding /\ request'.pc = "idle" /\ request'.was = {}
    BY <1>8 DEF Handled, Quick, Guarding, MaybeUnit
  <2>2. QED
    BY <1>2, <1>8, <2>1 DEF Handled, ScopeInv, Verdicts
<1>9. CASE UNCHANGED scopeVars
  BY <1>1, <1>2, <1>9 DEF scopeVars
<1>10. QED
  BY <1>3, <1>4, <1>5, <1>6, <1>7, <1>8, <1>9, WalkKeeps, ReadAssignmentsKeeps, ReadUnitsKeeps
     DEF ScopeNext, GuardSteps, MaybeUnit

\* PolicyGuard, climbing from the unit a write names, and the resolver, going
\* down from the units of the caller, draw the same border, however the units
\* are moved and removed around the request and though they may form a cycle.
THEOREM GuardAndResolverAgree == ScopeSpec => []GuardAgreesWithResolver
<1>1. ScopeInv => GuardAgreesWithResolver
  <2> SUFFICES ASSUME ScopeInv, request.was # {}, request.pc \in Verdicts
               PROVE  (request.pc = "admitted")
                        = (request.target \in expandSubtrees(request.units, request.scoped))
    BY DEF GuardAgreesWithResolver
  <2>1. request \in Guarding
    BY DEF ScopeInv
  <2>2. request.pc = "admitted" <=> Reaches(request, request.target)
    BY DEF ScopeInv
  <2>3. expandSubtrees(request.units, request.scoped)
          = {u \in Units : Reaches(request, u)}
    BY <2>1, SubtreesAreBelow DEF Guarding, Reaches
  <2>4. request.target = NoUnit => ~Reaches(request, request.target)
    BY <2>1, ReachesByParent DEF MaybeUnit
  <2>5. request.target \in Units \cup {NoUnit}
    BY <2>1 DEF Guarding, MaybeUnit
  <2>6. QED
    BY <2>2, <2>3, <2>4, <2>5
<1>2. QED
  BY <1>1, ScopeInit_Inv, ScopeStepKeeps, PTL DEF ScopeSpec

-----------------------------------------------------------------------------
(* Chains upwards, generations, and changes of one link.                    *)

\* Every line ends.
Ends(S, e, f) == \A p \in S : \E n \in Nat : Chain(S, e, f, p)[n] = e

\* The first n steps up, the end left out.
Above(S, e, f, p, n) == {Chain(S, e, f, p)[k] : k \in 0..n} \ {e}

\* The recursion by which lines are walked up.
IsUp(f, e, p, N, g) ==
  g = [n \in 0..N |-> IF n = 0 THEN {p} ELSE g[n - 1] \cup ({f[q] : q \in g[n - 1]} \ {e})]

\* One step further up are the next of those reached before.
LEMMA AboveSteps ==
  ASSUME NEW S, NEW e, NEW f, OnLine(S, e, f), NEW p \in S
  PROVE  /\ Above(S, e, f, p, 0) = {p}
         /\ \A n \in Nat : Above(S, e, f, p, n + 1) =
              Above(S, e, f, p, n) \cup ({f[q] : q \in Above(S, e, f, p, n)} \ {e})
<1> DEFINE c == Chain(S, e, f, p)
           up(n) == {c[k] : k \in 0..n} \ {e}
<1>1. c[0] = p /\ \A n \in Nat : c[n + 1] = Along(S, e, f, c[n])
  BY ChainEquation
<1>2. \A n \in Nat : c[n] \in S \cup {e}
  BY ChainStays
<1>3. e \notin S
  BY DEF OnLine
<1> HIDE DEF c
<1>4. up(0) = {p}
  BY <1>1, <1>3
<1>5. ASSUME NEW n \in Nat, NEW x PROVE x \in up(n + 1) <=> x \in up(n) \/ (x # e /\ \E q \in up(n) : x = f[q])
  <2>1. ASSUME x \in up(n), x \notin up(n + 1) PROVE FALSE
    <3>1. PICK k \in 0..n : x = c[k]
      BY <2>1
    <3>2. k \in 0..(n + 1)
      OBVIOUS
    <3>3. QED
      BY <2>1, <3>1, <3>2
  <2>2. ASSUME NEW q \in up(n), x = f[q], x # e PROVE x \in up(n + 1)
    <3>1. PICK k \in 0..n : q = c[k]
      BY <2>2
    <3>2. k + 1 \in 0..(n + 1) /\ c[k + 1] = f[q]
      BY <1>1, <1>2, <2>2, <3>1 DEF Along
    <3>3. QED
      BY <2>2, <3>2
  <2>3. ASSUME x \in up(n + 1), x \notin up(n) PROVE x # e /\ \E q \in up(n) : x = f[q]
    <3>1. PICK k \in 0..(n + 1) : x = c[k]
      BY <2>3
    <3>2. k = n + 1
      BY <2>3, <3>1
    <3>3. x = Along(S, e, f, c[n])
      BY <1>1, <3>1, <3>2
    <3>4. c[n] \in S /\ x = f[c[n]] /\ x # e
      BY <2>3, <3>3 DEF Along
    <3>5. c[n] \in up(n)
      BY <1>3, <3>4
    <3>6. QED
      BY <3>4, <3>5
  <2>4. QED
    BY <2>1, <2>2, <2>3
<1>6. \A n : Above(S, e, f, p, n) = up(n)
  BY DEF Above, c
<1> HIDE DEF up
<1>7. ASSUME NEW n \in Nat PROVE up(n + 1) = up(n) \cup ({f[q] : q \in up(n)} \ {e})
  BY <1>5
<1>8. QED
  BY <1>4, <1>6, <1>7

\* The recursion by which the closure table is read.
LEMMA UpIsAbove ==
  ASSUME NEW S, NEW e, NEW f, OnLine(S, e, f), NEW p \in S, NEW N \in Nat
  PROVE  /\ \E g : IsUp(f, e, p, N, g)
         /\ \A g : IsUp(f, e, p, N, g) => g[N] = Above(S, e, f, p, N)
<1> DEFINE w == [n \in 0..N |-> Above(S, e, f, p, n)]
           next(X) == X \cup ({f[q] : q \in X} \ {e})
<1>1. /\ Above(S, e, f, p, 0) = {p}
      /\ \A n \in Nat : Above(S, e, f, p, n + 1) = next(Above(S, e, f, p, n))
  <2>1. /\ Above(S, e, f, p, 0) = {p}
        /\ \A n \in Nat : Above(S, e, f, p, n + 1) =
             Above(S, e, f, p, n) \cup ({f[q] : q \in Above(S, e, f, p, n)} \ {e})
    BY AboveSteps
  <2>2. QED
    BY <2>1
<1> HIDE DEF next
<1>2. ASSUME NEW n \in 0..N PROVE w[n] = IF n = 0 THEN {p} ELSE next(w[n - 1])
  <2>1. CASE n # 0
    <3>1. n - 1 \in Nat /\ (n - 1) + 1 = n /\ n - 1 \in 0..N
      BY <2>1
    <3>2. w[n - 1] = Above(S, e, f, p, n - 1) /\ w[n] = Above(S, e, f, p, (n - 1) + 1)
      BY <3>1
    <3> HIDE DEF w
    <3>3. QED
      BY <1>1, <2>1, <3>1, <3>2
  <2>2. QED
    BY <1>1, <2>1
<1>3. w = [n \in 0..N |-> w[n]] /\ \A n \in 0..N : w[n] = Above(S, e, f, p, n)
  OBVIOUS
<1> HIDE DEF w
<1>4. w = [n \in 0..N |-> IF n = 0 THEN {p} ELSE next(w[n - 1])]
  BY <1>2, <1>3
<1>5. \A g : IsUp(f, e, p, N, g) <=> g = [n \in 0..N |-> IF n = 0 THEN {p} ELSE next(g[n - 1])]
  BY DEF IsUp, next
<1> SUFFICES ASSUME NEW d, IsUp(f, e, p, N, d) PROVE d[N] = Above(S, e, f, p, N)
  BY <1>4, <1>5
<1>6. \A n \in 0..N : d[n] = IF n = 0 THEN {p} ELSE next(d[n - 1])
  BY Zenon DEF IsUp, next
<1> DEFINE T == {n \in Nat : n <= N => d[n] = w[n]}
<1>7. 0 \in T
  <2>1. 0 \in 0..N
    OBVIOUS
  <2>2. QED
    BY <2>1, <1>2, <1>6
<1>8. ASSUME NEW n \in T PROVE n + 1 \in T
  <2> SUFFICES ASSUME n + 1 <= N PROVE d[n + 1] = w[n + 1]
    OBVIOUS
  <2>1. n + 1 \in 0..N /\ n + 1 # 0 /\ (n + 1) - 1 = n /\ d[n] = w[n]
    OBVIOUS
  <2>2. d[n + 1] = next(d[(n + 1) - 1])
    BY <1>6, <2>1
  <2>3. w[n + 1] = next(w[(n + 1) - 1])
    BY <1>2, <2>1
  <2>4. QED
    BY <2>1, <2>2, <2>3
<1> HIDE DEF T
<1>9. T = Nat
  BY <1>7, <1>8, Upward DEF T
<1>10. d[N] = w[N]
  BY <1>9 DEF T
<1>11. N \in 0..N
  OBVIOUS
<1>12. QED
  BY <1>3, <1>10, <1>11

\* Above p are all whom any number of steps reaches.
LEMMA AboveAll ==
  ASSUME NEW S, NEW e, NEW f, OnLine(S, e, f), IsFiniteSet(S), NEW p \in S
  PROVE  Above(S, e, f, p, Cardinality(S)) = {Chain(S, e, f, p)[k] : k \in Nat} \ {e}
<1> DEFINE c == Chain(S, e, f, p)
<1>1. ASSUME NEW k \in Nat, c[k] # e PROVE \E m \in 0..Cardinality(S) : c[m] = c[k]
  <2>1. PICK n \in Nat : FirstIn(S, e, f, p, {c[k]}, n)
    BY FirstExists
  <2>2. n <= Cardinality(S) /\ Cardinality(S) \in Nat
    BY <2>1, FirstIsNear, FS_CardinalityType
  <2>3. c[n] = c[k]
    BY <2>1 DEF FirstIn
  <2>4. n \in 0..Cardinality(S)
    BY <2>2
  <2>5. QED
    BY <2>3, <2>4
<1>2. \A k \in 0..Cardinality(S) : k \in Nat
  BY FS_CardinalityType
<1> HIDE DEF c
<1>3. ASSUME NEW x, x # e PROVE x \in {c[k] : k \in 0..Cardinality(S)} <=> x \in {c[k] : k \in Nat}
  BY <1>1, <1>2, <1>3
<1>4. QED
  BY <1>3 DEF Above, c

\* Where lines end nobody is met twice on one.
LEMMA EndingIsSimple ==
  ASSUME NEW S, NEW e, NEW f, OnLine(S, e, f), Ends(S, e, f), NEW p \in S,
         NEW i \in Nat, NEW j \in Nat, i < j, Chain(S, e, f, p)[j] # e
  PROVE  Chain(S, e, f, p)[i] # Chain(S, e, f, p)[j]
<1> DEFINE c == Chain(S, e, f, p)
<1>1. PICK n \in Nat : FirstIn(S, e, f, p, {e}, n)
  BY FirstExists DEF Ends
<1>2. c[n] = e
  BY <1>1 DEF FirstIn
<1>3. ~(j >= n)
  BY <1>2, ChainOver DEF OnLine
<1>4. i \in 0..n /\ j \in 0..n
  BY <1>3
<1>5. QED
  BY <1>1, <1>4, FirstIsSimple

\* g is f but for the link of c.
AgreeOff(S, c, f, g) == \A q \in S \ {c} : f[q] = g[q]

\* The first n steps from p do not come to c.
Avoids(S, e, f, p, c, n) == \A k \in 0..(n - 1) : Chain(S, e, f, p)[k] # c

\* Chains that agree off c agree until they meet it.
LEMMA ChainsAgree ==
  ASSUME NEW S, NEW e, NEW f, NEW g, NEW c, AgreeOff(S, c, f, g), NEW p, NEW n \in Nat,
         Avoids(S, e, f, p, c, n)
  PROVE  Chain(S, e, g, p)[n] = Chain(S, e, f, p)[n]
<1> DEFINE a == Chain(S, e, f, p)
           b == Chain(S, e, g, p)
           T == {m \in Nat : m <= n => b[m] = a[m]}
<1>1. a[0] = p /\ \A k \in Nat : a[k + 1] = Along(S, e, f, a[k])
  BY ChainEquation
<1>2. b[0] = p /\ \A k \in Nat : b[k + 1] = Along(S, e, g, b[k])
  BY ChainEquation
<1> HIDE DEF a, b
<1>3. 0 \in T
  BY <1>1, <1>2
<1>4. ASSUME NEW m \in T PROVE m + 1 \in T
  <2> SUFFICES ASSUME m + 1 <= n PROVE b[m + 1] = a[m + 1]
    OBVIOUS
  <2>1. m \in 0..(n - 1) /\ b[m] = a[m]
    OBVIOUS
  <2>2. a[m] # c
    BY <2>1 DEF a, Avoids
  <2>3. Along(S, e, g, b[m]) = Along(S, e, f, a[m])
    BY <2>1, <2>2 DEF Along, AgreeOff
  <2>4. QED
    BY <2>1, <2>3, <1>1, <1>2
<1> HIDE DEF T
<1>5. T = Nat
  BY <1>3, <1>4, Upward DEF T
<1>6. QED
  BY <1>5 DEF T, a, b

\* To hang c below somebody who is not below c leaves every line with an end.
LEMMA HangingEnds ==
  ASSUME NEW S, NEW e, NEW f, NEW g, NEW c \in S, OnLine(S, e, f), Ends(S, e, f),
         g \in [S -> S \cup {e}], AgreeOff(S, c, f, g),
         g[c] # e => \A n \in Nat : Chain(S, e, f, g[c])[n] # c
  PROVE  Ends(S, e, g)
<1>1. OnLine(S, e, g)
  BY DEF OnLine
<1>2. \E n \in Nat : Chain(S, e, g, g[c])[n] = e
  <2>1. CASE g[c] = e
    <3>1. Chain(S, e, g, g[c])[0] = e
      BY <2>1, ChainEquation
    <3>2. QED
      BY <3>1
  <2>2. CASE g[c] # e
    <3>1. g[c] \in S
      BY <2>2
    <3>2. PICK n \in Nat : Chain(S, e, f, g[c])[n] = e
      BY <3>1 DEF Ends
    <3>3. Avoids(S, e, f, g[c], c, n)
      BY <2>2 DEF Avoids
    <3>4. Chain(S, e, g, g[c])[n] = Chain(S, e, f, g[c])[n]
      BY <3>3, ChainsAgree
    <3>5. QED
      BY <3>2, <3>4
  <2>3. QED
    BY <2>1, <2>2
<1>3. PICK m \in Nat : Chain(S, e, g, g[c])[m] = e
  BY <1>2
<1>4. ASSUME NEW p \in S PROVE \E n \in Nat : Chain(S, e, g, p)[n] = e
  <2>1. CASE \A n \in Nat : Chain(S, e, f, p)[n] # c
    <3>1. PICK n \in Nat : Chain(S, e, f, p)[n] = e
      BY DEF Ends
    <3>2. Avoids(S, e, f, p, c, n)
      BY <2>1 DEF Avoids
    <3>3. Chain(S, e, g, p)[n] = Chain(S, e, f, p)[n]
      BY <3>2, ChainsAgree
    <3>4. QED
      BY <3>1, <3>3
  <2>2. CASE \E n \in Nat : Chain(S, e, f, p)[n] = c
    <3>1. PICK d \in Nat : FirstIn(S, e, f, p, {c}, d)
      BY <2>2, FirstExists
    <3>3. Avoids(S, e, f, p, c, d)
      BY <3>1 DEF FirstIn, Avoids
    <3>4. Chain(S, e, g, p)[d] = Chain(S, e, f, p)[d]
      BY <3>3, ChainsAgree
    <3>5. Chain(S, e, g, p)[d] = c
      BY <3>1, <3>4 DEF FirstIn
    <3>6. Chain(S, e, g, p)[d + 1] = Along(S, e, g, c)
      BY <3>5, ChainEquation
    <3>7. Chain(S, e, g, p)[d + 1] = g[c]
      BY <3>6 DEF Along
    <3>8. d + 1 \in Nat /\ m + (d + 1) \in Nat
      OBVIOUS
    <3>9. Chain(S, e, g, p)[m + (d + 1)] = Chain(S, e, g, Chain(S, e, g, p)[d + 1])[m]
      BY <3>8, ChainAdds
    <3>10. QED
      BY <3>7, <3>8, <3>9, <1>3
  <2>3. QED
    BY <2>1, <2>2
<1>5. QED
  BY <1>4 DEF Ends

\* To cut links leaves every line with an end.
LEMMA CuttingEnds ==
  ASSUME NEW S, NEW e, NEW f, NEW g, OnLine(S, e, f), Ends(S, e, f),
         \A q \in S : g[q] \in {f[q], e}
  PROVE  Ends(S, e, g)
<1> SUFFICES ASSUME NEW p \in S PROVE \E n \in Nat : Chain(S, e, g, p)[n] = e
  BY DEF Ends
<1> DEFINE a == Chain(S, e, f, p)
           b == Chain(S, e, g, p)
           T == {m \in Nat : b[m] \in {a[m], e}}
<1>1. a[0] = p /\ \A k \in Nat : a[k + 1] = Along(S, e, f, a[k])
  BY ChainEquation
<1>2. b[0] = p /\ \A k \in Nat : b[k + 1] = Along(S, e, g, b[k])
  BY ChainEquation
<1>3. PICK n \in Nat : a[n] = e
  BY DEF Ends
<1> HIDE DEF a, b
<1>4. 0 \in T
  BY <1>1, <1>2
<1>5. ASSUME NEW m \in T PROVE m + 1 \in T
  BY <1>1, <1>2 DEF Along, OnLine
<1> HIDE DEF T
<1>6. T = Nat
  BY <1>4, <1>5, Upward DEF T
<1>7. QED
  BY <1>3, <1>6 DEF T, b

\* Between p and an ancestor r of hers stand as many persons as there are
\* steps from p up to r: what p's line has and the line of r has not.
LEMMA StepsApart ==
  ASSUME NEW S, NEW e, NEW f, OnLine(S, e, f), Ends(S, e, f), NEW p \in S, NEW r \in S,
         NEW d \in Nat, FirstIn(S, e, f, p, {r}, d)
  PROVE  Cardinality(({Chain(S, e, f, p)[k] : k \in Nat} \ {e})
                       \ ({Chain(S, e, f, r)[k] : k \in Nat} \ {e})) = d
<1> DEFINE c == Chain(S, e, f, p)
           b == Chain(S, e, f, r)
           D == {c[k] : k \in 0..(d - 1)}
           X == ({c[k] : k \in Nat} \ {e}) \ ({b[k] : k \in Nat} \ {e})
<1>1. c[d] = r
  BY DEF FirstIn
<1>2. \A k \in Nat : c[k + d] = Chain(S, e, f, c[d])[k]
  BY ChainAdds
<1>3. \A k \in Nat : c[k + d] = b[k]
  BY <1>1, <1>2
<1>4. \A i \in 0..(d - 1) : c[i] \in S
  BY FirstIsSimple
<1>5. \A i, j \in 0..d : i < j => c[i] # c[j]
  BY FirstIsSimple
<1>6. \A i, j \in Nat : i < j /\ c[j] # e => c[i] # c[j]
  BY EndingIsSimple
<1>7. e \notin S
  BY DEF OnLine
<1> HIDE DEF c, b
<1>8. ASSUME NEW k \in 0..(d - 1), NEW m \in Nat, c[k] = b[m] PROVE FALSE
  <2>1. m + d \in Nat /\ k \in Nat /\ k < m + d
    OBVIOUS
  <2>2. c[m + d] = b[m]
    BY <1>3
  <2>3. c[k] # e
    BY <1>4, <1>7
  <2>4. QED
    BY <2>1, <2>2, <2>3, <1>6, <1>8
<1>9. ASSUME NEW x \in D PROVE x \in X
  <2>1. PICK k \in 0..(d - 1) : x = c[k]
    OBVIOUS
  <2>2. k \in Nat /\ c[k] # e
    BY <1>4, <1>7
  <2>3. x \notin {b[m] : m \in Nat}
    BY <2>1, <1>8
  <2>4. QED
    BY <2>1, <2>2, <2>3
<1>10. ASSUME NEW x \in X PROVE x \in D
  <2>1. PICK k \in Nat : x = c[k] /\ x # e
    OBVIOUS
  <2>2. ASSUME ~(k \in 0..(d - 1)) PROVE FALSE
    <3>1. k - d \in Nat /\ (k - d) + d = k
      BY <2>2
    <3>2. c[(k - d) + d] = b[k - d]
      BY <3>1, <1>3
    <3>3. x = b[k - d]
      BY <3>1, <3>2, <2>1
    <3>4. QED
      BY <3>1, <3>3, <2>1
  <2>3. QED
    BY <2>1, <2>2
<1> HIDE DEF X
<1>11. X = D
  BY <1>9, <1>10
<1> DEFINE g == [k \in 0..(d - 1) |-> c[k]]
<1>12. g \in Bijection(0..(d - 1), D)
  <2>1. g \in Surjection(0..(d - 1), D)
    BY DEF Surjection
  <2>2. ASSUME NEW i \in 0..(d - 1), NEW j \in 0..(d - 1), g[i] = g[j] PROVE i = j
    <3>1. c[i] = c[j] /\ i \in 0..d /\ j \in 0..d /\ (i < j \/ j < i \/ i = j)
      BY <2>2
    <3>2. QED
      BY <3>1, <1>5
  <2>3. g \in Injection(0..(d - 1), D)
    BY <2>1, <2>2 DEF Surjection, Injection, IsInjective
  <2>4. QED
    BY <2>1, <2>3 DEF Bijection
<1>13. IsFiniteSet(0..(d - 1)) /\ Cardinality(0..(d - 1)) = d
  <2>1. d - 1 \in Int /\ 0 \in Int
    OBVIOUS
  <2>2. IsFiniteSet(0..(d - 1)) /\ Cardinality(0..(d - 1)) = IF 0 > d - 1 THEN 0 ELSE (d - 1) - 0 + 1
    BY <2>1, FS_Interval
  <2>3. QED
    BY <2>2
<1>14. Cardinality(D) = d
  <2>1. ExistsBijection(0..(d - 1), D)
    BY <1>12 DEF ExistsBijection
  <2> HIDE DEF D
  <2>2. QED
    BY <2>1, <1>13, FS_Bijection
<1>15. QED
  BY <1>11, <1>14 DEF X, c, b

\* A line that goes on for more than n steps before it meets r passes one who
\* meets r after n steps exactly.
LEMMA OneInEveryGeneration ==
  ASSUME NEW S, NEW e, NEW f, OnLine(S, e, f), NEW p \in S, NEW r \in S,
         NEW d \in Nat, FirstIn(S, e, f, p, {r}, d), NEW n \in Nat, n <= d
  PROVE  /\ d - n \in Nat
         /\ Chain(S, e, f, p)[d - n] \in S
         /\ FirstIn(S, e, f, Chain(S, e, f, p)[d - n], {r}, n)
<1> DEFINE c == Chain(S, e, f, p)
           q == c[d - n]
<1>1. d - n \in Nat /\ \A k \in Nat : k + (d - n) \in Nat
  OBVIOUS
<1>2. \A k \in Nat : c[k + (d - n)] = Chain(S, e, f, q)[k]
  BY <1>1, ChainAdds
<1>3. c[d] = r /\ \A k \in 0..(d - 1) : c[k] # r
  BY DEF FirstIn
<1>4. q \in S
  <2>1. \A i \in 0..(d - 1) : c[i] \in S
    BY FirstIsSimple
  <2>2. d - n = d \/ d - n \in 0..(d - 1)
    OBVIOUS
  <2>3. QED
    BY <2>1, <2>2, <1>3
<1> HIDE DEF q, c
<1>5. Chain(S, e, f, q)[n] = r
  <2>1. n + (d - n) = d
    OBVIOUS
  <2>2. QED
    BY <2>1, <1>2, <1>3
<1>6. ASSUME NEW k \in 0..(n - 1) PROVE Chain(S, e, f, q)[k] # r
  <2>1. k \in Nat /\ k + (d - n) \in 0..(d - 1)
    OBVIOUS
  <2>2. QED
    BY <2>1, <1>2, <1>3
<1>7. FirstIn(S, e, f, q, {r}, n)
  BY <1>5, <1>6 DEF FirstIn
<1>8. QED
  BY <1>1, <1>4, <1>7 DEF q, c

-----------------------------------------------------------------------------
(* TreeReading: what tighter settings show.                                 *)

\* Tightening one setting changes a viewer's context in three ways only: the
\* level may take all of it, the default scope may narrow one that was the whole
\* tribe, and hiding women adds relatives, of whom nothing is shown but what the
\* scope shows already.
LEMMA ContextOfTighter ==
  ASSUME NEW grants, NEW s \in Settings, NEW t \in Tightened(s), NEW parent, NEW fa
  PROVE  LET a == buildContext(grants, s, parent, fa)
             b == buildContext(grants, t, parent, fa)
         IN /\ b.bypass = a.bypass
            /\ a.scope = "tribe" \/ b.scope \in {a.scope, "none"}
            /\ a.scope # "tribe" /\ b.scope = "unit" => b.unitIds = a.unitIds
            /\ (a.bypass \/ a.scope = "direct" \/ s.women = "hidden") /\ b.scope # "none"
                 => b.relatives = a.relatives
<1>1. /\ t.defaultScope = s.defaultScope \/ (s.defaultScope = "tribe" /\ t.level = s.level)
      /\ t.level \in {s.level, "admin"}
      /\ t.women \in {s.women, "hidden"}
  BY DEF Tightened, Settings
<1> DEFINE members == {g \in grants : g.role = "member"}
           scoped(x, v) == {g \in members : ScopeOf(g, x) = v}
           branch(x) == {g \in grants : g.role = "branch_admin"} \cup scoped(x, "branch")
           bypass == \E g \in grants : g.role # "member"
           scope(x) == IF x.level = "admin" /\ ~bypass THEN "none"
                       ELSE IF scoped(x, "tribe") # {} \/ \E g \in grants : g.role = "admin" THEN "tribe"
                       ELSE IF branch(x) # {} THEN "unit"
                       ELSE IF scoped(x, "direct") # {} THEN "direct" ELSE "none"
           anchors == {g.anchor : g \in grants} \ {NoPerson}
           units(x) == IF scope(x) = "unit"
                       THEN expandSubtrees(parent, {g.unit : g \in branch(x)} \ {NoUnit}) ELSE {}
           relatives(x) == IF ~bypass /\ (scope(x) = "direct" \/ x.women = "hidden")
                           THEN computeDirectRelatives(fa, anchors) ELSE {}
\* Either nobody's scope depends on what was changed, or somebody had the tribe.
<1>2. \/ \A g \in members : ScopeOf(g, t) = ScopeOf(g, s)
      \/ (t.level = s.level /\ scoped(s, "tribe") # {})
  <2>1. CASE t.defaultScope = s.defaultScope \/ \A g \in members : g.scope # "default"
    BY <2>1 DEF ScopeOf
  <2>2. ASSUME NEW g \in members, g.scope = "default", s.defaultScope = "tribe"
        PROVE  g \in scoped(s, "tribe")
    BY <2>2 DEF ScopeOf
  <2> HIDE DEF members, scoped
  <2> QED BY <1>1, <2>1, <2>2
<1>3. /\ scope(s) = "tribe" \/ scope(t) \in {scope(s), "none"}
      /\ scope(s) # "tribe" /\ scope(t) = "unit" => units(t) = units(s)
  <2>1. CASE \A g \in members : ScopeOf(g, t) = ScopeOf(g, s)
    <3>1. \A v : scoped(t, v) = scoped(s, v)
      BY <2>1
    <3>2. branch(t) = branch(s)
      BY <3>1
    <3> HIDE DEF scoped, branch, bypass
    <3>3. scope(t) \in {scope(s), "none"}
      BY <1>1, <3>1, <3>2
    <3> HIDE DEF scope
    <3> QED BY <3>2, <3>3
  <2>2. CASE t.level = s.level /\ scoped(s, "tribe") # {}
    <3> HIDE DEF scoped, branch, bypass
    <3>1. scope(s) = "tribe" \/ scope(t) = "none"
      BY <2>2
    <3> HIDE DEF scope, units
    <3> QED BY <3>1
  <2> HIDE DEF scoped, scope, units, members
  <2> QED BY <1>2, <2>1, <2>2
<1>4. \A x : buildContext(grants, x, parent, fa) =
               [bypass |-> bypass, scope |-> scope(x), unitIds |-> units(x), relatives |-> relatives(x)]
  BY DEF buildContext
<1>5. (bypass \/ scope(s) = "direct" \/ s.women = "hidden") /\ scope(t) # "none"
        => relatives(t) = relatives(s)
  <2> HIDE DEF scope, bypass, anchors
  <2> QED BY <1>1, <1>3
<1> HIDE DEF bypass, scope, units, relatives
<1> QED BY <1>3, <1>4, <1>5

LEMMA TighterShows ==
  ASSUME NEW grants, NEW s \in Settings, NEW t \in Tightened(s), NEW parent, NEW fa,
         NEW p
  PROVE  Shown(grants, t, parent, fa, p) \subseteq Shown(grants, s, parent, fa, p)
<1> DEFINE a == buildContext(grants, s, parent, fa)
           b == buildContext(grants, t, parent, fa)
<1>1. /\ b.bypass = a.bypass
      /\ a.scope = "tribe" \/ b.scope \in {a.scope, "none"}
      /\ a.scope # "tribe" /\ b.scope = "unit" => b.unitIds = a.unitIds
      /\ (a.bypass \/ a.scope = "direct" \/ s.women = "hidden") /\ b.scope # "none"
           => b.relatives = a.relatives
  BY ContextOfTighter
<1>2. /\ t.women \in {s.women, "hidden"} /\ s.women \in {"shown", "hidden"}
      /\ t.photos => s.photos
      /\ t.birthDates => s.birthDates
      /\ t.deceased => s.deceased
      /\ t.minors => s.minors
  BY DEF Tightened, Settings
<1> HIDE DEF a, b
<1>3. ASSUME isVisible(b, t, p) PROVE isVisible(a, s, p)
  BY <1>1, <1>2, <1>3 DEF isVisible, inScope
<1>4. redact(b, t) \subseteq redact(a, s)
  BY <1>1, <1>2 DEF redact
<1>5. /\ Shown(grants, t, parent, fa, p) = IF isVisible(b, t, p) THEN redact(b, t) ELSE {}
      /\ Shown(grants, s, parent, fa, p) = IF isVisible(a, s, p) THEN redact(a, s) ELSE {}
  BY DEF Shown, a, b
<1> QED BY <1>3, <1>4, <1>5

\* redact and isVisible: of two settings of which one is the other with its
\* level, a policy or the default scope tightened, the tighter one shows no viewer
\* more of anybody, for any tribe and any assignments of roles.  From "branch" to
\* "direct" is left out: neither contains the other.
THEOREM TighterNeverShowsMore == TreeSpec => []TighterSettingsShowLess
<1>1. TighterSettingsShowLess
  BY TighterShows, ReadersOK DEF TighterSettingsShowLess
<1> QED BY <1>1, PTL

-----------------------------------------------------------------------------
(* TreeReading: a tree read in several queries. A query that was made holds *)
(* still what it found, as long as nothing has changed since the first.     *)

\* A family: father leads from each person to another one and no line is
\* closed.
InFamily(f) == OnLine(People, NoPerson, f) /\ Ends(People, NoPerson, f)
LineOf(f, p) == Chain(People, NoPerson, f, p)
StepsUp(f, p, r, d) == FirstIn(People, NoPerson, f, p, {r}, d)

\* The query of the tree finds who is at most so many steps below the root.
LEMMA DescendantsAre ==
  ASSUME NEW p \in People, NEW depth \in Nat, OnLine(People, NoPerson, father)
  PROVE  descendants(p, depth) = (Below(People, NoPerson, father, {p}, depth) \ {p}) \ deleted
<1> DEFINE down == CHOOSE g : IsDown(People, father, {p}, depth, g)
<1>1. descendants(p, depth) = (down[depth] \ {p}) \ deleted
  BY DEF descendants, IsDown
<1>2. {p} \subseteq People
  OBVIOUS
<1>3. /\ \E g : IsDown(People, father, {p}, depth, g)
      /\ \A g : IsDown(People, father, {p}, depth, g)
                  => g[depth] = Below(People, NoPerson, father, {p}, depth)
  BY <1>2, DownIsBelow
<1>4. IsDown(People, father, {p}, depth, down)
  BY <1>3
<1> HIDE DEF down
<1>5. QED
  BY <1>1, <1>3, <1>4

\* The closure table holds everybody on the line.
LEMMA AncestorsAre ==
  ASSUME NEW f, OnLine(People, NoPerson, f), NEW p \in People
  PROVE  Ancestors(f, p) = {LineOf(f, p)[k] : k \in Nat} \ {NoPerson}
<1> DEFINE N == Cardinality(People)
           up == CHOOSE g : IsUp(f, NoPerson, p, N, g)
<1>0. IsFiniteSet(People)
  BY TribeOK
<1>1. Ancestors(f, p) = up[N]
  BY DEF Ancestors, IsUp
<1>2. N \in Nat
  BY <1>0, FS_CardinalityType
<1> HIDE DEF N
<1>3. /\ \E g : IsUp(f, NoPerson, p, N, g)
      /\ \A g : IsUp(f, NoPerson, p, N, g) => g[N] = Above(People, NoPerson, f, p, N)
  BY <1>2, UpIsAbove
<1>4. IsUp(f, NoPerson, p, N, up)
  BY <1>3
<1> HIDE DEF up
<1>5. Above(People, NoPerson, f, p, N) = {LineOf(f, p)[k] : k \in Nat} \ {NoPerson}
  BY <1>0, AboveAll DEF N, LineOf
<1>6. QED
  BY <1>1, <1>3, <1>4, <1>5

\* The generations below r: whoever has r on her line is so many steps below
\* r, and that is the number of ancestors she has and r has not.
LEMMA Generations ==
  ASSUME NEW r \in People, InFamily(father)
  PROVE  /\ \A n \in Nat : \A p : p \in descendants(r, n) <=>
              /\ p \in People /\ p # r /\ p \notin deleted
              /\ \E d \in 0..n : StepsUp(father, p, r, d)
         /\ \A p : p \in descendants(r, Cardinality(People)) <=>
              /\ p \in People /\ p # r /\ p \notin deleted
              /\ \E d \in Nat : StepsUp(father, p, r, d)
         /\ \A p \in People, d \in Nat : StepsUp(father, p, r, d) =>
              Cardinality(Ancestors(father, p) \ Ancestors(father, r)) = d
<1>0. OnLine(People, NoPerson, father) /\ Ends(People, NoPerson, father) /\ IsFiniteSet(People)
  BY TribeOK DEF InFamily
<1>1. ASSUME NEW n \in Nat, NEW p \in People
      PROVE  (\E k \in 0..n : LineOf(father, p)[k] \in {r}) <=> \E d \in 0..n : StepsUp(father, p, r, d)
  <2>1. ASSUME NEW k \in 0..n, LineOf(father, p)[k] \in {r}
        PROVE  \E d \in 0..n : StepsUp(father, p, r, d)
    <3>1. PICK d \in Nat : StepsUp(father, p, r, d)
      BY <2>1, FirstExists DEF LineOf, StepsUp
    <3>2. ~(k \in 0..(d - 1))
      BY <2>1, <3>1 DEF StepsUp, FirstIn, LineOf
    <3>3. d \in 0..n
      BY <3>2
    <3>4. QED
      BY <3>1, <3>3
  <2>2. \A d \in 0..n : StepsUp(father, p, r, d) => LineOf(father, p)[d] \in {r}
    BY DEF StepsUp, FirstIn, LineOf
  <2>3. QED
    BY <2>1, <2>2
<1>2. \A n \in Nat : \A p : p \in Below(People, NoPerson, father, {r}, n) <=>
        p \in People /\ \E d \in 0..n : StepsUp(father, p, r, d)
  BY <1>1 DEF Below, LineOf
<1>3. \A n \in Nat : \A p : p \in descendants(r, n) <=>
        /\ p \in People /\ p # r /\ p \notin deleted
        /\ \E d \in 0..n : StepsUp(father, p, r, d)
  <2>1. \A n \in Nat : descendants(r, n) = (Below(People, NoPerson, father, {r}, n) \ {r}) \ deleted
    BY <1>0, DescendantsAre
  <2>2. QED
    BY <1>2, <2>1
<1>4. ASSUME NEW p \in People, NEW d \in Nat, StepsUp(father, p, r, d)
      PROVE  d \in 0..Cardinality(People)
  BY <1>0, <1>4, FirstIsNear, FS_CardinalityType DEF StepsUp
<1>5. \A p : p \in descendants(r, Cardinality(People)) <=>
        /\ p \in People /\ p # r /\ p \notin deleted
        /\ \E d \in Nat : StepsUp(father, p, r, d)
  <2>1. Cardinality(People) \in Nat
    BY <1>0, FS_CardinalityType
  <2>2. QED
    BY <2>1, <1>3, <1>4
<1>6. ASSUME NEW p \in People, NEW d \in Nat, StepsUp(father, p, r, d)
      PROVE  Cardinality(Ancestors(father, p) \ Ancestors(father, r)) = d
  <2>1. /\ Ancestors(father, p) = {LineOf(father, p)[k] : k \in Nat} \ {NoPerson}
        /\ Ancestors(father, r) = {LineOf(father, r)[k] : k \in Nat} \ {NoPerson}
    BY <1>0, AncestorsAre
  <2>2. FirstIn(People, NoPerson, father, p, {r}, d)
    BY <1>6 DEF StepsUp
  <2>3. Cardinality(({Chain(People, NoPerson, father, p)[k] : k \in Nat} \ {NoPerson})
                       \ ({Chain(People, NoPerson, father, r)[k] : k \in Nat} \ {NoPerson})) = d
    BY <1>0, <2>2, StepsApart
  <2>4. QED
    BY <2>1, <2>3 DEF LineOf
<1>7. QED
  BY <1>3, <1>5, <1>6

\* What has been read so far is what a query would find now, until something
\* changes.
TreeInv ==
  /\ father \in [People -> People \cup {NoPerson}] /\ Ends(People, NoPerson, father)
  /\ deleted \subseteq People /\ \A p \in People : father[p] \notin deleted
  /\ DOMAIN reading = DOMAIN NoReading
  /\ reading.pc # "idle" => reading.root \in People /\ reading.gens \in Nat
  /\ reading.pc \in {"beyond", "nodes"} => reading.within \subseteq People
  /\ steady /\ reading.pc \in {"beyond", "nodes"}
       => reading.within = descendants(reading.root, reading.gens)
  /\ steady /\ reading.pc = "nodes"
       => reading.beyond = descendants(reading.root, reading.gens + 1)

\* The persons of at most n generations below r, counted as the property
\* does.
Near(r, n) ==
  {p \in descendants(r, Cardinality(People)) :
     Cardinality(Ancestors(father, p) \ Ancestors(father, r)) <= n}

\* The persons of the generations asked for are those the first query finds,
\* and the second finds more exactly when there are later generations.
LEMMA TwoQueriesSuffice ==
  ASSUME NEW r \in People, NEW n \in Nat, InFamily(father),
         \A p \in People : father[p] \notin deleted
  PROVE  /\ Near(r, n) = descendants(r, n)
         /\ Cardinality(descendants(r, n + 1)) > Cardinality(descendants(r, n))
              <=> Near(r, n) # descendants(r, Cardinality(People))
<1> DEFINE all == descendants(r, Cardinality(People))
<1>1. /\ \A m \in Nat : \A p : p \in descendants(r, m) <=>
              /\ p \in People /\ p # r /\ p \notin deleted
              /\ \E d \in 0..m : StepsUp(father, p, r, d)
      /\ \A p : p \in all <=>
              /\ p \in People /\ p # r /\ p \notin deleted
              /\ \E d \in Nat : StepsUp(father, p, r, d)
      /\ \A p \in People, d \in Nat : StepsUp(father, p, r, d) =>
              Cardinality(Ancestors(father, p) \ Ancestors(father, r)) = d
  BY Generations
<1> HIDE DEF all
<1>2. ASSUME NEW p PROVE p \in Near(r, n) <=> p \in descendants(r, n)
  <2>1. ASSUME p \in Near(r, n) PROVE p \in descendants(r, n)
    <3>1. p \in all /\ Cardinality(Ancestors(father, p) \ Ancestors(father, r)) <= n
      BY <2>1 DEF Near, all
    <3>2. PICK d \in Nat : StepsUp(father, p, r, d)
      BY <3>1, <1>1
    <3>3. d \in 0..n
      BY <1>1, <3>1, <3>2
    <3>4. QED
      BY <1>1, <3>1, <3>2, <3>3
  <2>2. ASSUME p \in descendants(r, n) PROVE p \in Near(r, n)
    <3>1. PICK d \in 0..n : StepsUp(father, p, r, d)
      BY <2>2, <1>1
    <3>2. d \in Nat /\ d <= n /\ p \in all
      BY <2>2, <3>1, <1>1
    <3>3. Cardinality(Ancestors(father, p) \ Ancestors(father, r)) = d
      BY <1>1, <2>2, <3>1, <3>2
    <3>4. QED
      BY <3>2, <3>3 DEF Near, all
  <2>3. QED
    BY <2>1, <2>2
<1>3. Near(r, n) = descendants(r, n)
  BY <1>2 DEF Near
<1>4. ASSUME NEW p \in all, p \notin descendants(r, n)
      PROVE  \E q : q \in descendants(r, n + 1) /\ q \notin descendants(r, n)
  <2>1. p \in People /\ p # r /\ p \notin deleted
    BY <1>1
  <2>2. PICK d \in Nat : StepsUp(father, p, r, d)
    BY <1>1
  <2>3. n + 1 <= d /\ n + 1 \in Nat
    BY <1>1, <1>4, <2>1, <2>2
  <2> DEFINE q == LineOf(father, p)[d - (n + 1)]
  <2>4. d - (n + 1) \in Nat /\ q \in People /\ StepsUp(father, q, r, n + 1)
    BY <2>1, <2>2, <2>3, OneInEveryGeneration DEF InFamily, LineOf, StepsUp
  <2>5. q \notin deleted
    <3>1. CASE d - (n + 1) = 0
      <4>1. LineOf(father, p)[0] = p
        BY ChainEquation DEF LineOf
      <4>2. QED
        BY <2>1, <3>1, <4>1
    <3>2. CASE d - (n + 1) # 0
      <4> DEFINE m == (d - (n + 1)) - 1
      <4>1. m \in Nat /\ m + 1 = d - (n + 1)
        BY <2>4, <3>2
      <4> HIDE DEF m
      <4>2. LineOf(father, p)[m + 1] = Along(People, NoPerson, father, LineOf(father, p)[m])
        BY <4>1, ChainEquation DEF LineOf
      <4>3. q = Along(People, NoPerson, father, LineOf(father, p)[m])
        BY <4>1, <4>2
      <4>4. NoPerson \notin People
        BY TribeOK
      <4>5. QED
        BY <4>3, <4>4, <2>4 DEF Along
    <3>3. QED
      BY <3>1, <3>2
  <2> HIDE DEF q
  <2>6. LineOf(father, q)[0] = q
    BY ChainEquation DEF LineOf
  <2>7. q # r
    <3>1. 0 \in 0..((n + 1) - 1)
      OBVIOUS
    <3>2. LineOf(father, q)[0] \notin {r}
      BY <3>1, <2>4 DEF StepsUp, FirstIn, LineOf
    <3>3. QED
      BY <3>2, <2>6
  <2>8. q \in descendants(r, n + 1)
    BY <1>1, <2>3, <2>4, <2>5, <2>7
  <2>9. q \notin descendants(r, n)
    <3>1. SUFFICES ASSUME NEW k \in 0..n, StepsUp(father, q, r, k) PROVE FALSE
      BY <1>1
    <3>2. k \in 0..((n + 1) - 1)
      OBVIOUS
    <3>3. QED
      BY <3>1, <3>2, <2>4 DEF StepsUp, FirstIn
  <2>10. QED
    BY <2>8, <2>9
<1>5. descendants(r, n) \subseteq descendants(r, n + 1)
  <2>1. n + 1 \in Nat /\ \A d \in 0..n : d \in 0..(n + 1)
    OBVIOUS
  <2>2. QED
    BY <2>1, <1>1
<1>6. descendants(r, n + 1) \subseteq all
  <2>1. n + 1 \in Nat /\ \A d \in 0..(n + 1) : d \in Nat
    OBVIOUS
  <2>2. QED
    BY <2>1, <1>1
<1>7. IsFiniteSet(descendants(r, n + 1))
  <2>1. descendants(r, n + 1) \subseteq People /\ IsFiniteSet(People)
    BY <1>1, <1>6, TribeOK
  <2>2. QED
    BY <2>1, FS_Subset
<1>8. /\ Cardinality(descendants(r, n)) \in Nat /\ Cardinality(descendants(r, n + 1)) \in Nat
      /\ Cardinality(descendants(r, n)) <= Cardinality(descendants(r, n + 1))
      /\ Cardinality(descendants(r, n)) = Cardinality(descendants(r, n + 1))
           => descendants(r, n) = descendants(r, n + 1)
  <2>1. IsFiniteSet(descendants(r, n))
    BY <1>5, <1>7, FS_Subset
  <2>2. QED
    BY <2>1, <1>5, <1>7, FS_Subset, FS_CardinalityType
<1>9. Near(r, n) # all <=> descendants(r, n) # descendants(r, n + 1)
  BY <1>3, <1>4, <1>5, <1>6
<1>10. QED
  BY <1>3, <1>8, <1>9 DEF all

LEMMA TreeStarts == TreeInit => TreeInv
<1> SUFFICES ASSUME TreeInit PROVE TreeInv
  OBVIOUS
<1>1. father = [p \in People |-> NoPerson] /\ NoPerson \notin People
  BY TribeOK DEF TreeInit
<1>2. ASSUME NEW p \in People PROVE \E n \in Nat : Chain(People, NoPerson, father, p)[n] = NoPerson
  <2>1. /\ Chain(People, NoPerson, father, p)[0] = p
        /\ Chain(People, NoPerson, father, p)[0 + 1]
             = Along(People, NoPerson, father, Chain(People, NoPerson, father, p)[0])
    BY ChainEquation
  <2>2. Chain(People, NoPerson, father, p)[1] = NoPerson
    BY <1>1, <2>1 DEF Along
  <2>3. QED
    BY <2>2
<1>3. QED
  BY <1>1, <1>2 DEF TreeInit, TreeInv, Ends, NoReading

\* The family stays one.
LEMMA FamilyOfTree == ASSUME TreeInv PROVE InFamily(father)
BY TribeOK DEF TreeInv, InFamily, OnLine

\* A new father is no descendant: the line of the child ends still.
LEMMA ChangeFatherKeeps ==
  ASSUME TreeInv, NEW c \in People, NEW fa \in Adults \cup {NoPerson}, ChangeFather(c, fa)
  PROVE  TreeInv'
<1>1. /\ father' = [father EXCEPT ![c] = fa] /\ {c, fa} \cap deleted = {}
      /\ fa # NoPerson => c \notin Ancestors(father, fa)
      /\ ~steady' /\ deleted' = deleted /\ reading' = reading
  BY DEF ChangeFather
<1>2. fa \in People \cup {NoPerson}
  BY ReadersOK
<1>3. father' \in [People -> People \cup {NoPerson}]
  BY <1>1, <1>2 DEF TreeInv
<1>4. \A p \in People : father'[p] \notin deleted'
  BY <1>1 DEF TreeInv
<1>5. Ends(People, NoPerson, father')
  <2>1. OnLine(People, NoPerson, father) /\ Ends(People, NoPerson, father)
    BY FamilyOfTree DEF InFamily
  <2>2. AgreeOff(People, c, father, father') /\ father'[c] = fa
    BY <1>1 DEF AgreeOff, TreeInv
  <2>3. ASSUME fa # NoPerson, NEW n \in Nat PROVE Chain(People, NoPerson, father, fa)[n] # c
    <3>1. Ancestors(father, fa) = {LineOf(father, fa)[k] : k \in Nat} \ {NoPerson}
      BY <2>1, <2>3, <1>2, AncestorsAre
    <3>2. c # NoPerson
      BY TribeOK
    <3>3. QED
      BY <3>1, <3>2, <2>3, <1>1 DEF LineOf
  <2>4. father'[c] # NoPerson => \A n \in Nat : Chain(People, NoPerson, father, father'[c])[n] # c
    BY <2>2, <2>3
  <2>5. QED
    BY <2>1, <2>2, <2>4, <1>3, HangingEnds
<1>6. QED
  BY <1>1, <1>3, <1>4, <1>5 DEF TreeInv

\* A deleted person leaves her children without a father.
LEMMA DeletePersonKeeps ==
  ASSUME TreeInv, NEW x \in People, DeletePerson(x) PROVE TreeInv'
<1>1. /\ father' = [q \in People |-> IF father[q] = x THEN NoPerson ELSE father[q]]
      /\ deleted' = deleted \cup {x} /\ ~steady' /\ reading' = reading
  BY DEF DeletePerson
<1>2. father' \in [People -> People \cup {NoPerson}]
  BY <1>1 DEF TreeInv
<1>3. deleted' \subseteq People /\ \A p \in People : father'[p] \notin deleted'
  BY <1>1, TribeOK DEF TreeInv
<1>4. Ends(People, NoPerson, father')
  <2>1. OnLine(People, NoPerson, father) /\ Ends(People, NoPerson, father)
    BY FamilyOfTree DEF InFamily
  <2>2. \A q \in People : father'[q] \in {father[q], NoPerson}
    BY <1>1
  <2>3. QED
    BY <2>1, <2>2, CuttingEnds
<1>5. QED
  BY <1>1, <1>2, <1>3, <1>4 DEF TreeInv

LEMMA TreeStepKeeps == TreeInv /\ [TreeNext]_treeVars => TreeInv'
<1> SUFFICES ASSUME TreeInv, [TreeNext]_treeVars PROVE TreeInv'
  OBVIOUS
<1> USE DEF NoReading
<1>1. ASSUME NEW c \in People, NEW fa \in Adults \cup {NoPerson}, ChangeFather(c, fa) PROVE TreeInv'
  BY <1>1, ChangeFatherKeeps
<1>2. ASSUME NEW p \in People, DeletePerson(p) PROVE TreeInv'
  BY <1>2, DeletePersonKeeps
<1>3. ASSUME NEW grants \in Viewers, NEW settings \in Policies, NEW root \in People, NEW gens \in 1..2,
             AskTree(grants, settings, root, gens)
      PROVE  TreeInv'
  <2>1. /\ reading'.pc = "root" /\ reading'.root = root /\ reading'.gens = gens
        /\ DOMAIN reading' = DOMAIN NoReading /\ UNCHANGED <<father, deleted>>
    BY <1>3 DEF AskTree
  <2>2. gens \in Nat
    OBVIOUS
  <2>3. QED
    BY <2>1, <2>2 DEF TreeInv
<1>4. ASSUME ReadRoot PROVE TreeInv'
  <2>1. /\ UNCHANGED <<father, deleted, steady>>
        /\ \/ reading' = NoReading
           \/ reading.pc = "root" /\ reading' = [reading EXCEPT !.pc = "within"]
    BY <1>4 DEF ReadRoot
  <2>2. QED
    BY <2>1 DEF TreeInv
<1>5. ASSUME ReadWithin PROVE TreeInv'
  <2>1. /\ UNCHANGED <<father, deleted, steady>> /\ reading.pc = "within"
        /\ reading' = [reading EXCEPT !.pc = "beyond",
                                      !.within = descendants(reading.root, reading.gens)]
    BY <1>5 DEF ReadWithin
  <2>2. /\ reading'.pc = "beyond" /\ reading'.root = reading.root /\ reading'.gens = reading.gens
        /\ reading'.within = descendants(reading.root, reading.gens)
        /\ DOMAIN reading' = DOMAIN NoReading
    BY <2>1 DEF TreeInv
  <2>3. descendants(reading.root, reading.gens)' = descendants(reading.root, reading.gens)
    BY <2>1, <2>2 DEF descendants
  <2>4. reading'.within \subseteq People
    <3>1. /\ reading.root \in People /\ reading.gens \in Nat
          /\ OnLine(People, NoPerson, father)
      BY <2>1, FamilyOfTree DEF TreeInv, InFamily
    <3>2. QED
      BY <2>2, <3>1, DescendantsAre DEF Below
  <2>5. QED
    BY <2>1, <2>2, <2>3, <2>4 DEF TreeInv
<1>6. ASSUME ReadBeyond PROVE TreeInv'
  <2>1. /\ UNCHANGED <<father, deleted, steady>> /\ reading.pc = "beyond"
        /\ reading' = [reading EXCEPT !.pc = "nodes",
                                      !.beyond = descendants(reading.root, reading.gens + 1)]
    BY <1>6 DEF ReadBeyond
  <2>2. /\ reading'.pc = "nodes" /\ reading'.root = reading.root /\ reading'.gens = reading.gens
        /\ reading'.within = reading.within
        /\ reading'.beyond = descendants(reading.root, reading.gens + 1)
        /\ DOMAIN reading' = DOMAIN NoReading
    BY <2>1 DEF TreeInv
  <2>3. /\ descendants(reading.root, reading.gens)' = descendants(reading.root, reading.gens)
        /\ descendants(reading.root, reading.gens + 1)' = descendants(reading.root, reading.gens + 1)
    BY <2>1, <2>2 DEF descendants
  <2>4. QED
    BY <2>1, <2>2, <2>3 DEF TreeInv
<1>7. ASSUME ReadNodes PROVE TreeInv'
  <2>1. /\ UNCHANGED <<father, deleted, steady>> /\ reading.pc = "nodes"
        /\ reading'.pc = "answered" /\ reading'.root = reading.root /\ reading'.gens = reading.gens
        /\ DOMAIN reading' = DOMAIN NoReading
    BY <1>7 DEF ReadNodes, TreeInv
  <2>2. QED
    BY <2>1 DEF TreeInv
<1>8. ASSUME TreeAnswered PROVE TreeInv'
  <2>1. UNCHANGED <<father, deleted, steady>> /\ reading' = NoReading
    BY <1>8 DEF TreeAnswered
  <2>2. QED
    BY <2>1 DEF TreeInv
<1>9. ASSUME UNCHANGED treeVars PROVE TreeInv'
  BY <1>9 DEF treeVars, TreeInv, descendants
<1>10. QED
  BY <1>1, <1>2, <1>3, <1>4, <1>5, <1>6, <1>7, <1>8, <1>9 DEF TreeNext

\* The answer is complete when it is made and, once made, while nothing
\* changes; a change makes the reading unsteady.
LEMMA AnswersAreComplete ==
  ASSUME TreeInv, TreesAreComplete, [TreeNext]_treeVars PROVE TreesAreComplete'
<1>1. ASSUME ReadNodes PROVE TreesAreComplete'
  <2> DEFINE root == reading.root
             gens == reading.gens
             shown == {p \in (reading.within \ deleted) \cup {root} :
                         isVisible(reading.ctx, reading.settings, p)}
  <2>1. /\ reading.pc = "nodes" /\ UNCHANGED <<father, deleted, steady>>
        /\ reading'.pc = "answered" /\ reading'.root = root /\ reading'.gens = gens
        /\ reading'.ctx = reading.ctx /\ reading'.settings = reading.settings
        /\ reading'.nodes = shown
        /\ reading'.edges = {e \in shown \X shown : father[e[2]] = e[1]}
        /\ reading'.truncated = (Cardinality(reading.beyond) > Cardinality(reading.within))
    BY <1>1 DEF ReadNodes, TreeInv, NoReading
  <2>2. root \in People /\ gens \in Nat
    BY <2>1 DEF TreeInv
  <2>3. \A e, f \in reading'.edges : e[2] = f[2] => e = f
    BY <2>1
  <2>4. ASSUME NEW e \in reading'.edges PROVE e[1] # e[2]
    <3>1. e[2] \in {root} \cup reading.within /\ father[e[2]] = e[1]
      BY <2>1
    <3>2. ASSUME NEW p \in People PROVE father[p] # p
      <4>1. OnLine(People, NoPerson, father) /\ Ends(People, NoPerson, father)
        BY FamilyOfTree DEF InFamily
      <4>2. /\ Chain(People, NoPerson, father, p)[0] = p
            /\ Chain(People, NoPerson, father, p)[0 + 1]
                 = Along(People, NoPerson, father, Chain(People, NoPerson, father, p)[0])
        BY ChainEquation
      <4>3. Chain(People, NoPerson, father, p)[1] = father[p] /\ p # NoPerson
        BY <4>2, TribeOK DEF Along
      <4>4. ASSUME father[p] = p PROVE FALSE
        <5>1. Chain(People, NoPerson, father, p)[1] # NoPerson /\ 0 < 1
          BY <4>3, <4>4
        <5>2. Chain(People, NoPerson, father, p)[0] # Chain(People, NoPerson, father, p)[1]
          BY <4>1, <5>1, EndingIsSimple
        <5>3. QED
          BY <4>2, <4>3, <4>4, <5>2
      <4>5. QED
        BY <4>4
    <3>3. e[2] \in People
      BY <2>1, <2>2, <3>1 DEF TreeInv
    <3>4. QED
      BY <3>1, <3>2, <3>3
  <2>5. ASSUME steady
        PROVE  /\ reading.within = descendants(root, gens)
               /\ Near(root, gens) = descendants(root, gens)
               /\ reading'.truncated = (Near(root, gens) # descendants(root, Cardinality(People)))
    <3>1. /\ reading.within = descendants(root, gens)
          /\ reading.beyond = descendants(root, gens + 1)
      BY <2>1, <2>5 DEF TreeInv
    <3>2. InFamily(father) /\ \A p \in People : father[p] \notin deleted
      BY FamilyOfTree DEF TreeInv
    <3>3. /\ Near(root, gens) = descendants(root, gens)
          /\ Cardinality(descendants(root, gens + 1)) > Cardinality(descendants(root, gens))
              <=> Near(root, gens) # descendants(root, Cardinality(People))
      BY <2>2, <3>2, TwoQueriesSuffice
    <3>4. QED
      BY <2>1, <3>1, <3>3
  <2>6. ASSUME steady
        PROVE  /\ shown = {p \in Near(root, gens) \cup {root} :
                             isVisible(reading.ctx, reading.settings, p)}
               /\ \A p \in Near(root, gens) \cap shown :
                    father[p] \in shown => <<father[p], p>> \in reading'.edges
    <3>1. reading.within \ deleted = Near(root, gens)
      BY <2>5, <2>6 DEF descendants
    <3>2. QED
      BY <2>1, <3>1
  <2>7. /\ \A n : descendants(root, n)' = descendants(root, n)
        /\ \A n : Near(root, n)' = Near(root, n)
    <3>1. root' = root /\ father' = father /\ deleted' = deleted
      BY <2>1
    <3>2. \A n : descendants(root, n)' = descendants(root, n)
      BY <3>1 DEF descendants
    <3>3. \A p : (Ancestors(father, p) \ Ancestors(father, root))'
                  = Ancestors(father, p) \ Ancestors(father, root)
      BY <3>1 DEF Ancestors
    <3>4. QED
      BY <3>1, <3>2, <3>3 DEF Near
  <2> HIDE DEF shown
  <2>8. QED
    BY <2>1, <2>3, <2>4, <2>5, <2>6, <2>7 DEF TreesAreComplete, Near
<1>2. ASSUME reading' = reading, UNCHANGED <<father, deleted, steady>> \/ ~steady'
      PROVE  TreesAreComplete'
  <2>1. CASE ~steady'
    BY <1>2, <2>1 DEF TreesAreComplete
  <2>2. CASE UNCHANGED <<father, deleted, steady>>
    <3>1. \A r, n : descendants(r, n)' = descendants(r, n)
      BY <2>2 DEF descendants
    <3>2. \A p : (Ancestors(father, p) \ Ancestors(father, reading.root))'
                  = Ancestors(father, p) \ Ancestors(father, reading.root)
      BY <1>2, <2>2 DEF Ancestors
    <3>3. QED
      BY <1>2, <2>2, <3>1, <3>2 DEF TreesAreComplete
  <2>3. QED
    BY <1>2, <2>1, <2>2
<1>3. ASSUME reading'.pc # "answered" PROVE TreesAreComplete'
  BY <1>3 DEF TreesAreComplete
<1>4. ASSUME ~ReadNodes
      PROVE  \/ reading' = reading /\ (UNCHANGED <<father, deleted, steady>> \/ ~steady')
             \/ reading'.pc # "answered"
  <2>1. ASSUME NEW c, NEW fa, ChangeFather(c, fa) PROVE reading' = reading /\ ~steady'
    BY <2>1 DEF ChangeFather
  <2>2. ASSUME NEW p, DeletePerson(p) PROVE reading' = reading /\ ~steady'
    BY <2>2 DEF DeletePerson
  <2>3. ASSUME NEW grants, NEW settings, NEW root, NEW gens, AskTree(grants, settings, root, gens)
        PROVE  reading'.pc # "answered"
    BY <2>3 DEF AskTree, NoReading
  <2>4. ASSUME ReadRoot \/ ReadWithin \/ ReadBeyond \/ TreeAnswered PROVE reading'.pc # "answered"
    <3>1. ReadRoot => reading'.pc # "answered"
      BY DEF ReadRoot, TreeInv, NoReading
    <3>2. ReadWithin => reading'.pc # "answered"
      BY DEF ReadWithin, TreeInv, NoReading
    <3>3. ReadBeyond => reading'.pc # "answered"
      BY DEF ReadBeyond, TreeInv, NoReading
    <3>4. TreeAnswered => reading'.pc # "answered"
      BY DEF TreeAnswered, NoReading
    <3>5. QED
      BY <2>4, <3>1, <3>2, <3>3, <3>4
  <2>5. ASSUME UNCHANGED treeVars PROVE reading' = reading /\ UNCHANGED <<father, deleted, steady>>
    BY <2>5 DEF treeVars
  <2>6. QED
    BY <1>4, <2>1, <2>2, <2>3, <2>4, <2>5 DEF TreeNext
<1>5. QED
  BY <1>1, <1>2, <1>3, <1>4

\* tree.resolver reads the persons, those one generation further and the edges
\* in queries of their own: unless something changed between them, the answer
\* holds whom the viewer may see of the generations asked for, with every
\* edge between them, and says truly whether there are more.
THEOREM TreesReadInStepsAreComplete == TreeSpec => []TreesAreComplete
<1>1. TreeInit => TreeInv /\ TreesAreComplete
  BY TreeStarts DEF TreeInit, TreesAreComplete, NoReading
<1>2. TreeInv /\ TreesAreComplete /\ [TreeNext]_treeVars => (TreeInv /\ TreesAreComplete)'
  BY TreeStepKeeps, AnswersAreComplete
<1>3. QED
  BY <1>1, <1>2, PTL DEF TreeSpec

-----------------------------------------------------------------------------
(* ImportFile. The depth-first search for cycles, the sort of the rows by   *)
(* their references, and the persons that are created in that order.        *)

\* Max and Min, of sets of numbers.
LEMMA MaxOf ==
  ASSUME NEW N \in Nat, NEW T, T \subseteq 1..N, T # {} PROVE Max(T) \in T
<1> DEFINE U == {k \in Nat : \E t \in T : k = N - t}
<1>1. PICK t0 \in T : TRUE
  OBVIOUS
<1>2. U \subseteq Nat /\ U # {}
  <2>1. N - t0 \in U
    OBVIOUS
  <2>2. QED
    BY <2>1
<1>3. PICK m \in U : \A k \in U : m <= k
  <2> HIDE DEF U
  <2>1. QED
    BY <1>2, LeastOf
<1>4. PICK t \in T : m = N - t
  OBVIOUS
<1>5. \A s \in T : N - s \in U
  OBVIOUS
<1>6. ASSUME NEW s \in T PROVE t >= s
  <2>1. m <= N - s /\ s \in Int /\ t \in Int
    BY <1>3, <1>5
  <2> HIDE DEF U
  <2>2. QED
    BY <2>1, <1>4
<1>7. QED
  BY <1>6 DEF Max

LEMMA MinOf ==
  ASSUME NEW T, T \subseteq Nat, T # {} PROVE Min(T) \in T /\ \A t \in T : Min(T) <= t
<1>1. PICK m \in T : \A t \in T : m <= t
  BY LeastOf
<1>2. \E x \in T : \A y \in T : x <= y
  BY <1>1
<1>3. QED
  BY <1>2 DEF Min

\* A label that some row bears.
Named(l) == l \in Labels /\ HasRow(l)

\* byRef finds a row of that label.
LEMMA RowNamed ==
  ASSUME file \in Seq(Row), NEW l, HasRow(l)
  PROVE  ByRef(l) \in Rows /\ Label(ByRef(l)) = l /\ l \in Labels
<1> DEFINE T == {r \in Rows : Label(r) = l}
<1>1. T \subseteq 1..Len(file) /\ T # {} /\ Len(file) \in Nat
  BY DEF HasRow, Rows
<1>2. Max(T) \in T
  <2> HIDE DEF T
  <2>1. QED
    BY <1>1, MaxOf
<1>3. \A r \in Rows : Label(r) \in Labels
  <2>1. \A r \in Rows : file[r] \in Row
    BY DEF Rows
  <2>2. \A x \in Row : x.label \in Labels
    BY DEF Row
  <2>3. QED
    BY <2>1, <2>2 DEF Label
<1>4. QED
  BY <1>2, <1>3 DEF ByRef

\* Where labels differ a row is the one its label finds.
LEMMA DistinctRows ==
  ASSUME file \in Seq(Row), Distinct, NEW r \in Rows
  PROVE  ByRef(Label(r)) = r /\ HasRow(Label(r)) /\ Label(r) \in Labels
<1>1. HasRow(Label(r))
  BY DEF HasRow
<1>2. QED
  BY <1>1, RowNamed DEF Distinct

\* The parent of a row is nobody or the label of a row.
LEMMA ParentIs ==
  ASSUME file \in Seq(Row), NEW r \in Rows, NEW i
  PROVE  Parent(r, i) # Nobody =>
           /\ HasRow(Parent(r, i)) /\ Parent(r, i) \in Labels
           /\ LET link == IF i = 1 THEN file[r].father ELSE file[r].mother
              IN link.kind = "ref" /\ link.label = Parent(r, i)
<1>1. Parent(r, i) # Nobody =>
           /\ HasRow(Parent(r, i))
           /\ LET link == IF i = 1 THEN file[r].father ELSE file[r].mother
              IN link.kind = "ref" /\ link.label = Parent(r, i)
  BY DEF Parent, InFileTarget
<1>2. QED
  BY <1>1, RowNamed

RowDecisions == {"new", "merge", "ignore"}
FilePhases == {"upload", "validate", "resolve", "cycles", "preview", "sort", "apply", "thrown", "published"}
FileTyped ==
  /\ file \in Seq(Row) /\ phase \in FilePhases
  /\ colour \in [Labels -> {"white", "grey", "black"}]
  /\ path \in Seq([row : Rows, next : 1..3])
  /\ phase # "upload" => DOMAIN errors = Rows /\ decision \in [Rows -> RowDecisions]
  /\ order \in Seq(Rows)

\* The search is done with the kth parent of r, or has marked r.
Settled(r, k) ==
  LET p == Parent(r, k)
  IN  p = Nobody \/ colour[p] = "black" \/ (colour[p] = "grey" /\ Label(r) \in cyclic)

Searching == phase \in {"upload", "validate", "resolve", "cycles"}

\* The depth-first search: the path is the grey rows, each row on it names
\* the next among its parents already looked at, and black rows that are not
\* marked are free of cycles.
SearchInv ==
  /\ \A l \in Labels : colour[l] = "grey" <=> \E i \in DOMAIN path : Label(path[i].row) = l
  /\ \A i, j \in DOMAIN path : Label(path[i].row) = Label(path[j].row) => i = j
  /\ \A i \in DOMAIN path : \A k \in 1..(path[i].next - 1) :
       Settled(path[i].row, k) \/ (i < Len(path) /\ Parent(path[i].row, k) = Label(path[i + 1].row))
  /\ \A r \in Rows : colour[Label(r)] = "black" => \A k \in {1, 2} : Settled(r, k)
  /\ \A S \in SUBSET {r \in Rows : colour[Label(r)] = "black" /\ Label(r) \notin cyclic} :
       S # {} => \E r \in S : ParentRows(r) \cap S = {}

\* What a step of the handling has not been reached yet is as it was at
\* first.
Untouched ==
  /\ phase \in {"upload", "validate", "resolve"} =>
       path = <<>> /\ \A l \in Labels : colour[l] = "white"
  /\ phase \in {"upload", "validate", "resolve", "cycles", "preview"} => seen = {} /\ order = <<>>
  /\ phase \in {"upload", "validate", "resolve", "cycles", "preview", "sort"} =>
       person = {} /\ manFather = Nobody /\ made = [l \in Labels |-> Nobody]
  /\ phase = "published" => order = <<>>

\* Among rows without a mark, some row has no parent among them.
NoHiddenCycle ==
  \A S \in SUBSET {r \in Rows : ~Marked(r)} : S # {} => \E r \in S : ParentRows(r) \cap S = {}

\* The references of rows labelled c to rows that are not sorted yet.
Pending(c) == UNION {Edges(p, c) : p \in Labels \ seen}

\* The sort: the counters are the numbers of pending references, and who is
\* sorted comes after her parents.
SortInv ==
  /\ seen \subseteq {l \in Labels : HasRow(l)}
  /\ indegree = [l \in Labels |-> Cardinality(Pending(l))]
  /\ free = {l \in Labels : HasRow(l) /\ indegree[l] = 0} \ seen
  /\ \A l \in seen : indegree[l] = 0
  /\ \A i \in DOMAIN order : Label(order[i]) \in seen /\ ByRef(Label(order[i])) = order[i]
  /\ \A l \in seen : \E i \in DOMAIN order : order[i] = ByRef(l)
  /\ \A i, j \in DOMAIN order : order[i] = order[j] => i = j
  /\ \A i \in DOMAIN order : \A k \in ParentRefs(order[i]) :
        \E j \in DOMAIN order : j < i /\ order[j] = ByRef(Parent(order[i], k))

\* The rows still to be applied.
Left == {order[i] : i \in DOMAIN order}

\* x is the person the kth reference of r stands for, if that row is applied.
Linked(r, k, x) ==
  LET q == ByRef(Parent(r, k)) IN Appliable(q) => x = IF decision[q] = "merge" THEN Man ELSE q

\* Nobody is created twice, nor before her turn.
ApplyInv ==
  /\ \A i, j \in DOMAIN order : order[i] = order[j] => i = j
  /\ \A p \in person : p.row \in Rows \ Left
  /\ \A p, q \in person : p.row = q.row => p = q

\* Where nothing is marked parents come first, so that references find them.
LinkInv ==
  /\ \A i \in DOMAIN order : \A k \in ParentRefs(order[i]) :
        \A j \in DOMAIN order : order[j] = ByRef(Parent(order[i], k)) => j < i
  /\ \A r \in Rows \ Left : Appliable(r) =>
       /\ made[Label(r)] = IF decision[r] = "new" THEN r ELSE Man
       /\ decision[r] = "new" => \E p \in person : p.row = r
  /\ \A p \in person : \A k \in InFile(p.row) : Linked(p.row, k, IF k = 1 THEN p.father ELSE p.mother)

\* The persons the file has made, with Man, and their fathers.
Persons == {Man} \cup {p.row : p \in person}
FatherLine == [x \in Persons |-> FatherOf(x)]

\* No line of fathers is closed.
LineInv ==
  /\ IsFiniteSet(person)
  /\ made \in [Labels -> Persons \cup {Nobody}]
  /\ OnLine(Persons, Nobody, FatherLine) /\ Ends(Persons, Nobody, FatherLine)

\* A file whose labels differ and of which no row is marked.
Clean == Distinct /\ \A r \in Rows : ~Marked(r)
Applying == phase \in {"apply", "thrown", "published"}

\* The invariant, in the phases of a file.
FileInv ==
  /\ FileTyped /\ Untouched
  /\ Distinct /\ phase = "cycles" => SearchInv
  /\ Distinct /\ ~Searching => NoHiddenCycle
  /\ phase = "sort" => SortInv
  /\ Applying => ApplyInv /\ (Clean => LinkInv)
  /\ LineInv

OnStack == [row : Rows, next : 1..3]

\* The call on top of the stack.
LEMMA TopOf ==
  ASSUME FileTyped, path # <<>>
  PROVE  /\ Len(path) \in Nat /\ Len(path) \in DOMAIN path /\ DOMAIN path = 1..Len(path)
         /\ Top.row \in Rows /\ Top.next \in 1..3 /\ path[Len(path)] = Top
         /\ \A i \in DOMAIN path : path[i] \in OnStack
<1>1. path \in Seq(OnStack)
  BY DEF FileTyped, OnStack
<1>2. Len(path) \in Nat /\ DOMAIN path = 1..Len(path) /\ Len(path) # 0
  BY <1>1
<1>3. Len(path) \in DOMAIN path /\ \A i \in DOMAIN path : path[i] \in OnStack
  BY <1>1, <1>2
<1>4. QED
  BY <1>2, <1>3 DEF Top, OnStack

\* Its next parent has been looked at.
LEMMA Skipped ==
  ASSUME FileTyped, path # <<>>, Top.next <= 2
  PROVE  /\ Skip \in Seq(OnStack) /\ Len(Skip) = Len(path) /\ DOMAIN Skip = DOMAIN path
         /\ \A i \in DOMAIN path : Skip[i].row = path[i].row
         /\ \A i \in DOMAIN path : Skip[i].next = IF i = Len(path) THEN Top.next + 1 ELSE path[i].next
<1>1. path \in Seq(OnStack)
  BY DEF FileTyped, OnStack
<1>2. /\ Len(path) \in Nat /\ Len(path) \in DOMAIN path /\ DOMAIN path = 1..Len(path)
      /\ \A i \in DOMAIN path : path[i] \in OnStack
  BY TopOf
<1>3. Skip = [path EXCEPT ![Len(path)] = [path[Len(path)] EXCEPT !.next = @ + 1]]
  BY DEF Skip
<1> DEFINE new == [path[Len(path)] EXCEPT !.next = @ + 1]
<1>4. new \in OnStack /\ new.row = path[Len(path)].row /\ new.next = Top.next + 1
  BY <1>2 DEF OnStack, Top
<1> HIDE DEF new
<1>5. Skip = [path EXCEPT ![Len(path)] = new]
  BY <1>3 DEF new
<1>6. QED
  BY <1>1, <1>2, <1>4, <1>5

\* Whatever is read in the file alone stays while the file does.
LEMMA FileStays ==
  ASSUME file' = file
  PROVE  /\ Rows' = Rows /\ \A r : Label(r)' = Label(r)
         /\ \A l : HasRow(l)' = HasRow(l) /\ ByRef(l)' = ByRef(l)
         /\ \A r, k : Parent(r, k)' = Parent(r, k)
         /\ \A r : InFile(r)' = InFile(r) /\ ParentRows(r)' = ParentRows(r)
         /\ \A r : ParentRefs(r)' = ParentRefs(r)
         /\ \A p, c : Edges(p, c)' = Edges(p, c)
         /\ Distinct' = Distinct
<1>1. Rows' = Rows /\ \A r : Label(r)' = Label(r)
  BY DEF Rows, Label
<1>2. \A l : HasRow(l)' = HasRow(l)
  BY <1>1 DEF HasRow
<1>3. \A l : {r \in Rows : Label(r) = l}' = {r \in Rows : Label(r) = l}
  BY <1>1
<1>4. \A l : ByRef(l)' = ByRef(l)
  BY <1>3 DEF ByRef, Max
<1>5. \A r, k : Parent(r, k)' = Parent(r, k)
  BY <1>2 DEF Parent, InFileTarget
<1>6. \A r : InFile(r)' = InFile(r)
  BY <1>5 DEF InFile
<1>7. \A r : ParentRows(r)' = ParentRows(r)
  BY <1>4, <1>5, <1>6 DEF ParentRows
<1>8. \A r : ParentRefs(r)' = ParentRefs(r)
  BY <1>5 DEF ParentRefs
<1>9. \A p, c : Edges(p, c)' = Edges(p, c)
  BY <1>1, <1>5, <1>8 DEF Edges
<1>10. Distinct' = Distinct
  BY <1>1 DEF Distinct
<1>11. QED
  BY <1>1, <1>2, <1>4, <1>5, <1>6, <1>7, <1>8, <1>9, <1>10

\* Rows get darker only.
Darker ==
  \A l \in Labels : /\ colour[l] = "black" => colour'[l] = "black"
                    /\ colour[l] = "grey" => colour'[l] \in {"grey", "black"}

\* What is settled stays so.
LEMMA SettledStays ==
  ASSUME FileTyped, file' = file, cyclic \subseteq cyclic', Darker
  PROVE  \A r \in Rows : \A k : Settled(r, k) => Settled(r, k)'
<1> SUFFICES ASSUME NEW r \in Rows, NEW k, Settled(r, k) PROVE Settled(r, k)'
  OBVIOUS
<1>1. Parent(r, k)' = Parent(r, k) /\ Label(r)' = Label(r)
  BY FileStays
<1>2. Parent(r, k) # Nobody => Parent(r, k) \in Labels
  BY ParentIs DEF FileTyped
<1>3. QED
  BY <1>1, <1>2 DEF Settled, Darker

\* A white row is put on the path.
LEMMA PushKeeps ==
  ASSUME FileTyped, SearchInv, file' = file, cyclic' = cyclic,
         NEW b \in Seq(OnStack), Len(b) = Len(path), \A i \in DOMAIN path : b[i].row = path[i].row,
         NEW q \in Rows, colour[Label(q)] = "white", Label(q) \in Labels,
         path' = Append(b, [row |-> q, next |-> 1]), colour' = [colour EXCEPT ![Label(q)] = "grey"],
         \A i \in DOMAIN b : \A k \in 1..(b[i].next - 1) :
           \/ Settled(b[i].row, k)
           \/ i < Len(b) /\ Parent(b[i].row, k) = Label(b[i + 1].row)
           \/ i = Len(b) /\ Parent(b[i].row, k) = Label(q)
  PROVE  SearchInv'
<1>1. /\ Rows' = Rows /\ \A r : Label(r)' = Label(r)
      /\ \A r, k : Parent(r, k)' = Parent(r, k)
      /\ \A r : ParentRows(r)' = ParentRows(r)
  BY FileStays
<1>2. Darker
  BY DEF Darker, FileTyped
<1>3. \A r \in Rows : \A k : Settled(r, k) => Settled(r, k)'
  BY <1>2, SettledStays
<1> DEFINE n == Len(path) + 1
<1>4. /\ path \in Seq(OnStack) /\ Len(path) \in Nat /\ DOMAIN path = 1..Len(path)
      /\ DOMAIN b = DOMAIN path
  BY DEF FileTyped, OnStack
<1>5. /\ DOMAIN path' = 1..n /\ Len(path') = n /\ path'[n] = [row |-> q, next |-> 1]
      /\ \A i \in DOMAIN path : path'[i] = b[i]
  BY <1>4
<1>6. \A i \in DOMAIN path : path[i].row \in Rows /\ b[i].row = path[i].row
  <2>1. \A i \in DOMAIN path : path[i] \in OnStack
    BY <1>4
  <2>2. QED
    BY <2>1 DEF OnStack
<1>7. /\ path'[n].row = q /\ n \in DOMAIN path'
      /\ \A i \in DOMAIN path : i \in DOMAIN path' /\ path'[i].row = path[i].row
      /\ \A i \in DOMAIN path' : i = n \/ i \in DOMAIN path
  BY <1>4, <1>5, <1>6
<1>8. \A l \in Labels : colour'[l] = IF l = Label(q) THEN "grey" ELSE colour[l]
  BY DEF FileTyped
<1>9. \A l \in Labels : colour'[l] = "grey" <=> \E i \in DOMAIN path' : Label(path'[i].row) = l
  <2>1. \A l \in Labels : colour[l] = "grey" <=> \E i \in DOMAIN path : Label(path[i].row) = l
    BY DEF SearchInv
  <2>2. QED
    BY <2>1, <1>7, <1>8
<1>10. \A i, j \in DOMAIN path' : Label(path'[i].row) = Label(path'[j].row) => i = j
  <2>1. \A i \in DOMAIN path : Label(path[i].row) # Label(q)
    BY DEF SearchInv
  <2>2. \A i, j \in DOMAIN path : Label(path[i].row) = Label(path[j].row) => i = j
    BY DEF SearchInv
  <2>3. QED
    BY <2>1, <2>2, <1>7
<1>11. ASSUME NEW i \in DOMAIN path', NEW k \in 1..(path'[i].next - 1)
       PROVE  (Settled(path[i].row, k)
                 \/ (i < Len(path) /\ Parent(path[i].row, k) = Label(path[i + 1].row)))'
  <2>1. CASE i = n
    BY <2>1, <1>5
  <2>2. CASE i # n
    <3>1. i \in DOMAIN path /\ path'[i] = b[i] /\ i < n
      BY <2>2, <1>4, <1>5, <1>7
    <3>2. PICK r \in Rows : r = b[i].row /\ r = path'[i].row
      BY <3>1, <1>6, <1>7
    <3>3. \/ Settled(r, k)
          \/ i < Len(b) /\ Parent(r, k) = Label(b[i + 1].row)
          \/ i = Len(b) /\ Parent(r, k) = Label(q)
      BY <3>1, <3>2, <1>4
    <3>4. i < Len(b) => b[i + 1].row = path'[i + 1].row /\ i < Len(path')
      BY <3>1, <1>4, <1>5
    <3>5. i = Len(b) => i + 1 = n /\ path'[i + 1].row = q /\ i < Len(path')
      <4>1. i = Len(b) => i + 1 = n
        OBVIOUS
      <4>2. path'[n].row = q /\ Len(path') = n
        BY <1>5, <1>7
      <4> HIDE DEF n
      <4>3. QED
        BY <3>1, <4>1, <4>2
    <3>6. Settled(r, k) => Settled(r, k)'
      BY <1>3
    <3>7. Parent(r, k)' = Parent(r, k) /\ Label(path[i + 1].row)' = Label(path'[i + 1].row)
      BY <1>1
    <3>8. CASE Settled(r, k)
      BY <3>2, <3>6, <3>8
    <3>9. CASE i < Len(b) /\ Parent(r, k) = Label(b[i + 1].row)
      BY <3>2, <3>4, <3>7, <3>9
    <3>10. CASE i = Len(b) /\ Parent(r, k) = Label(q)
      BY <3>2, <3>5, <3>7, <3>10
    <3>11. QED
      BY <3>3, <3>8, <3>9, <3>10
  <2>3. QED
    BY <2>1, <2>2
<1>12. \A r \in Rows : colour'[Label(r)] = "black" => \A k \in {1, 2} : Settled(r, k)'
  <2>1. \A r \in Rows : Label(r) \in Labels
    BY RowNamed DEF FileTyped, HasRow
  <2>2. QED
    BY <2>1, <1>3, <1>8 DEF SearchInv
<1>13. {r \in Rows : colour'[Label(r)] = "black" /\ Label(r) \notin cyclic'}
         \subseteq {r \in Rows : colour[Label(r)] = "black" /\ Label(r) \notin cyclic}
  <2>1. \A r \in Rows : Label(r) \in Labels
    BY RowNamed DEF FileTyped, HasRow
  <2>2. QED
    BY <2>1, <1>8
<1>14. \A S \in SUBSET {r \in Rows : colour'[Label(r)] = "black" /\ Label(r) \notin cyclic'} :
         S # {} => \E r \in S : ParentRows(r) \cap S = {}
  BY <1>13 DEF SearchInv
<1>15. (\A l \in Labels : colour[l] = "grey" <=> \E i \in DOMAIN path : Label(path[i].row) = l)'
  BY <1>1, <1>9
<1>16. (\A i, j \in DOMAIN path : Label(path[i].row) = Label(path[j].row) => i = j)'
  BY <1>1, <1>10
<1>17. (\A i \in DOMAIN path : \A k \in 1..(path[i].next - 1) :
         Settled(path[i].row, k) \/ (i < Len(path) /\ Parent(path[i].row, k) = Label(path[i + 1].row)))'
  BY <1>11
<1>18. (\A r \in Rows : colour[Label(r)] = "black" => \A k \in {1, 2} : Settled(r, k))'
  BY <1>1, <1>12
<1>19. (\A S \in SUBSET {r \in Rows : colour[Label(r)] = "black" /\ Label(r) \notin cyclic} :
         S # {} => \E r \in S : ParentRows(r) \cap S = {})'
  BY <1>1, <1>14
<1>20. QED
  BY <1>15, <1>16, <1>17, <1>18, <1>19 DEF SearchInv

\* Rows are the numbers up to the length of the file, their labels labels.
LEMMA LabelsAre == FileTyped => \A r \in Rows : Label(r) \in Labels /\ Rows = 1..Len(file) /\ Len(file) \in Nat
BY RowNamed DEF FileTyped, HasRow, Rows

\* The first white row is put on an empty path.
LEMMA StartVisitKeeps ==
  ASSUME FileTyped, SearchInv, StartVisit PROVE SearchInv'
<1> DEFINE white == {r \in Rows : colour[Label(r)] = "white"}
           q == Min(white)
<1>1. /\ path = <<>> /\ white # {} /\ file' = file /\ cyclic' = cyclic
      /\ colour' = [colour EXCEPT ![Label(q)] = "grey"]
      /\ path' = Append(path, [row |-> q, next |-> 1])
  BY DEF StartVisit, Visit, CyclesUnchanged
<1>2. q \in white
  <2>1. white \subseteq Nat
    BY LabelsAre
  <2> HIDE DEF white
  <2>2. QED
    BY <2>1, <1>1, MinOf
<1>3. q \in Rows /\ colour[Label(q)] = "white" /\ Label(q) \in Labels
  BY <1>2, LabelsAre
<1>4. path \in Seq(OnStack) /\ DOMAIN path = {}
  BY <1>1 DEF FileTyped, OnStack
<1> HIDE DEF q
<1>5. QED
  BY <1>1, <1>3, <1>4, PushKeeps

\* With a white parent: it is pushed.
LEMMA FollowWhiteKeeps ==
  ASSUME FileTyped, SearchInv, FollowParent,
         Parent(Top.row, Top.next) # Nobody, colour[Parent(Top.row, Top.next)] = "white"
  PROVE  SearchInv'
<1> DEFINE p == Parent(Top.row, Top.next)
           q == ByRef(p)
<1>1. /\ path # <<>> /\ Top.next <= 2 /\ file' = file /\ cyclic' = cyclic
      /\ colour' = [colour EXCEPT ![p] = "grey"]
      /\ path' = Append(Skip, [row |-> q, next |-> 1])
  BY DEF FollowParent, CyclesUnchanged
<1>2. /\ Len(path) \in Nat /\ Len(path) \in DOMAIN path /\ DOMAIN path = 1..Len(path)
      /\ Top.row \in Rows /\ Top.next \in 1..3 /\ path[Len(path)] = Top
      /\ \A i \in DOMAIN path : path[i] \in OnStack
  BY <1>1, TopOf
<1>3. q \in Rows /\ Label(q) = p /\ p \in Labels
  BY <1>2, ParentIs, RowNamed DEF FileTyped
<1>4. /\ Skip \in Seq(OnStack) /\ Len(Skip) = Len(path) /\ DOMAIN Skip = DOMAIN path
      /\ \A i \in DOMAIN path : Skip[i].row = path[i].row
      /\ \A i \in DOMAIN path : Skip[i].next = IF i = Len(path) THEN Top.next + 1 ELSE path[i].next
  BY <1>1, Skipped
<1>5. ASSUME NEW i \in DOMAIN Skip, NEW k \in 1..(Skip[i].next - 1)
      PROVE  \/ Settled(Skip[i].row, k)
             \/ i < Len(Skip) /\ Parent(Skip[i].row, k) = Label(Skip[i + 1].row)
             \/ i = Len(Skip) /\ Parent(Skip[i].row, k) = Label(q)
  <2>1. CASE i = Len(path) /\ k = Top.next
    BY <2>1, <1>2, <1>3, <1>4
  <2>2. CASE ~(i = Len(path) /\ k = Top.next)
    <3>1. i \in DOMAIN path /\ k \in 1..(path[i].next - 1)
      BY <2>2, <1>2, <1>4 DEF OnStack
    <3>2. Settled(path[i].row, k) \/ (i < Len(path) /\ Parent(path[i].row, k) = Label(path[i + 1].row))
      BY <3>1 DEF SearchInv
    <3>3. i < Len(path) => i + 1 \in DOMAIN path
      BY <3>1, <1>2
    <3>4. QED
      BY <3>1, <3>2, <3>3, <1>4
  <2>3. QED
    BY <2>1, <2>2
<1>6. /\ colour' = [colour EXCEPT ![Label(q)] = "grey"] /\ Label(q) \in Labels
      /\ colour[Label(q)] = "white"
  BY <1>1, <1>3
<1> HIDE DEF p, q
<1>7. QED
  BY <1>1, <1>3, <1>4, <1>5, <1>6, PushKeeps

\* With a parent that is on the path or done with, or with none.
LEMMA FollowOtherKeeps ==
  ASSUME FileTyped, SearchInv, FollowParent,
         ~(Parent(Top.row, Top.next) # Nobody /\ colour[Parent(Top.row, Top.next)] = "white")
  PROVE  SearchInv'
<1> DEFINE p == Parent(Top.row, Top.next)
           first == Min({i \in DOMAIN path : Label(path[i].row) = p})
<1>1. /\ path # <<>> /\ Top.next <= 2 /\ file' = file /\ colour' = colour /\ path' = Skip
      /\ cyclic' = IF p # Nobody /\ colour[p] = "grey"
                    THEN cyclic \cup {Label(path[i].row) : i \in first..Len(path)}
                    ELSE cyclic
  BY DEF FollowParent, CyclesUnchanged
<1>2. /\ Len(path) \in Nat /\ Len(path) \in DOMAIN path /\ DOMAIN path = 1..Len(path)
      /\ Top.row \in Rows /\ Top.next \in 1..3 /\ path[Len(path)] = Top
      /\ \A i \in DOMAIN path : path[i] \in OnStack
  BY <1>1, TopOf
<1>3. /\ Skip \in Seq(OnStack) /\ Len(Skip) = Len(path) /\ DOMAIN Skip = DOMAIN path
      /\ \A i \in DOMAIN path : Skip[i].row = path[i].row
      /\ \A i \in DOMAIN path : Skip[i].next = IF i = Len(path) THEN Top.next + 1 ELSE path[i].next
  BY <1>1, Skipped
<1>4. p # Nobody => p \in Labels
  BY <1>2, ParentIs DEF FileTyped
<1>5. cyclic \subseteq cyclic'
  BY <1>1
<1>6. p # Nobody /\ colour[p] = "grey" => Label(Top.row) \in cyclic'
  <2> SUFFICES ASSUME p # Nobody, colour[p] = "grey" PROVE Label(Top.row) \in cyclic'
    OBVIOUS
  <2> DEFINE T == {i \in DOMAIN path : Label(path[i].row) = p}
  <2>1. T # {} /\ T \subseteq Nat
    BY <1>2, <1>4 DEF SearchInv
  <2>2. Min(T) \in T
    <3> HIDE DEF T
    <3>1. QED
      BY <2>1, MinOf
  <2>3. first \in DOMAIN path
    BY <2>2
  <2> HIDE DEF T, first
  <2>4. Len(path) \in first..Len(path)
    BY <2>3, <1>2
  <2>5. QED
    BY <2>4, <1>1, <1>2
<1> HIDE DEF first
<1>7. /\ Rows' = Rows /\ \A r : Label(r)' = Label(r)
      /\ \A r, k : Parent(r, k)' = Parent(r, k)
      /\ \A r : ParentRows(r)' = ParentRows(r)
  BY <1>1, FileStays
<1>8. \A r \in Rows : \A k : Settled(r, k) => Settled(r, k)'
  BY <1>1, <1>5, SettledStays DEF Darker
<1>9. PICK t \in Rows, m \in 1..3 : t = Top.row /\ m = Top.next
  BY <1>2
<1>10. Settled(t, m)'
  <2>1. p # Nobody => colour[p] \in {"grey", "black"}
    BY <1>4 DEF FileTyped
  <2>2. Parent(t, m) = p
    BY <1>9
  <2> HIDE DEF p
  <2>3. QED
    BY <2>1, <2>2, <1>1, <1>6, <1>7, <1>9 DEF Settled
<1>11. \A i \in DOMAIN path : path'[i].row = path[i].row
  BY <1>1, <1>3
<1>12. (\A l \in Labels : colour[l] = "grey" <=> \E i \in DOMAIN path : Label(path[i].row) = l)'
  <2>1. \A l \in Labels : colour[l] = "grey" <=> \E i \in DOMAIN path : Label(path[i].row) = l
    BY DEF SearchInv
  <2>2. QED
    BY <2>1, <1>1, <1>3, <1>7, <1>11
<1>13. (\A i, j \in DOMAIN path : Label(path[i].row) = Label(path[j].row) => i = j)'
  <2>1. \A i, j \in DOMAIN path : Label(path[i].row) = Label(path[j].row) => i = j
    BY DEF SearchInv
  <2>2. QED
    BY <2>1, <1>1, <1>3, <1>7, <1>11
<1>14. ASSUME NEW i \in DOMAIN path', NEW k \in 1..(path'[i].next - 1)
       PROVE  (Settled(path[i].row, k)
                 \/ (i < Len(path) /\ Parent(path[i].row, k) = Label(path[i + 1].row)))'
  <2>1. i \in DOMAIN path /\ path[i] \in OnStack
    BY <1>1, <1>2, <1>3
  <2>2. PICK r \in Rows : r = path[i].row /\ r = path'[i].row
    BY <2>1, <1>11 DEF OnStack
  <2>3. CASE i = Len(path) /\ k = m
    BY <2>2, <2>3, <1>2, <1>9, <1>10
  <2>4. CASE ~(i = Len(path) /\ k = m)
    <3>1. k \in 1..(path[i].next - 1)
      BY <2>1, <2>4, <1>1, <1>2, <1>3, <1>9 DEF OnStack
    <3>2. Settled(r, k) \/ (i < Len(path) /\ Parent(r, k) = Label(path[i + 1].row))
      <4>1. Settled(path[i].row, k) \/ (i < Len(path) /\ Parent(path[i].row, k) = Label(path[i + 1].row))
        BY <2>1, <3>1 DEF SearchInv
      <4>2. QED
        BY <4>1, <2>2
    <3>3. i < Len(path) => i + 1 \in DOMAIN path /\ Len(path') = Len(path)
      BY <2>1, <1>1, <1>2, <1>3
    <3>4. Parent(r, k)' = Parent(r, k) /\ Label(path[i + 1].row)' = Label(path'[i + 1].row)
      BY <1>7
    <3>5. CASE Settled(r, k)
      BY <3>5, <2>2, <1>8
    <3>6. CASE i < Len(path) /\ Parent(r, k) = Label(path[i + 1].row)
      <4>1. path'[i + 1].row = path[i + 1].row
        BY <3>3, <3>6, <1>11
      <4>2. QED
        BY <4>1, <3>3, <3>4, <3>6, <2>2
    <3>7. QED
      BY <3>2, <3>5, <3>6
  <2>5. QED
    BY <2>3, <2>4
<1>15. (\A r \in Rows : colour[Label(r)] = "black" => \A k \in {1, 2} : Settled(r, k))'
  BY <1>1, <1>7, <1>8 DEF SearchInv
<1>16. (\A S \in SUBSET {r \in Rows : colour[Label(r)] = "black" /\ Label(r) \notin cyclic} :
         S # {} => \E r \in S : ParentRows(r) \cap S = {})'
  <2>1. {r \in Rows : colour[Label(r)] = "black" /\ Label(r) \notin cyclic}'
          \subseteq {r \in Rows : colour[Label(r)] = "black" /\ Label(r) \notin cyclic}
    BY <1>1, <1>5, <1>7
  <2>2. QED
    BY <2>1, <1>7 DEF SearchInv
<1>17. (\A i \in DOMAIN path : \A k \in 1..(path[i].next - 1) :
         Settled(path[i].row, k) \/ (i < Len(path) /\ Parent(path[i].row, k) = Label(path[i + 1].row)))'
  BY <1>14
<1>18. QED
  BY <1>12, <1>13, <1>15, <1>16, <1>17 DEF SearchInv

\* The row on top is left: with all of its parents done with, or marked.
LEMMA EndVisitKeeps ==
  ASSUME FileTyped, Distinct, SearchInv, EndVisit PROVE SearchInv'
<1> DEFINE n == Len(path)
<1>1. /\ path # <<>> /\ Top.next = 3 /\ file' = file /\ cyclic' = cyclic
      /\ colour' = [colour EXCEPT ![Label(Top.row)] = "black"]
      /\ path' = SubSeq(path, 1, n - 1)
  BY DEF EndVisit, CyclesUnchanged
<1>2. /\ n \in Nat /\ n \in DOMAIN path /\ DOMAIN path = 1..n
      /\ Top.row \in Rows /\ path[n] = Top
      /\ \A i \in DOMAIN path : path[i] \in OnStack
  BY <1>1, TopOf
<1>3. DOMAIN path' = 1..(n - 1) /\ Len(path') = n - 1 /\ \A i \in 1..(n - 1) : path'[i] = path[i]
  <2>1. path \in Seq(OnStack) /\ n - 1 \in Nat /\ n - 1 <= n
    BY <1>2 DEF FileTyped, OnStack
  <2>2. \A i \in 1..(n - 1) : path[i] \in OnStack /\ i \in 1..Len(path)
    BY <1>2
  <2> DEFINE u == [i \in 1..(n - 1) |-> path[i]]
  <2>3. SubSeq(path, 1, n - 1) = u
    BY <2>1
  <2>4. u \in Seq(OnStack) /\ Len(u) = n - 1
    BY <2>1, <2>2
  <2>5. QED
    BY <2>1, <2>3, <2>4, <1>1
<1>4. /\ Rows' = Rows /\ \A r : Label(r)' = Label(r)
      /\ \A r, k : Parent(r, k)' = Parent(r, k)
      /\ \A r : ParentRows(r)' = ParentRows(r)
  BY <1>1, FileStays
<1>5. PICK t \in Rows : t = Top.row
  BY <1>2
<1>6. Label(t) \in Labels
  BY LabelsAre
<1>7. \A l \in Labels : colour'[l] = IF l = Label(t) THEN "black" ELSE colour[l]
  BY <1>1, <1>5 DEF FileTyped
<1>8. \A r \in Rows : \A k : Settled(r, k) => Settled(r, k)'
  <2>1. Darker
    BY <1>7 DEF Darker
  <2>2. QED
    BY <2>1, <1>1, SettledStays
<1>9. \A k \in {1, 2} : Settled(t, k)
  <2> SUFFICES ASSUME NEW k \in {1, 2} PROVE Settled(t, k)
    OBVIOUS
  <2>1. k \in 1..(path[n].next - 1)
    BY <1>1, <1>2
  <2>2. Settled(path[n].row, k) \/ (n < Len(path) /\ Parent(path[n].row, k) = Label(path[n + 1].row))
    BY <2>1, <1>2 DEF SearchInv
  <2>3. QED
    BY <2>2, <1>2, <1>5
<1>10. colour[Label(t)] = "grey"
  BY <1>2, <1>5, <1>6 DEF SearchInv
<1>11. \A i, j \in DOMAIN path : Label(path[i].row) = Label(path[j].row) => i = j
  BY DEF SearchInv
<1>12. (\A l \in Labels : colour[l] = "grey" <=> \E i \in DOMAIN path : Label(path[i].row) = l)'
  <2>1. \A l \in Labels : colour[l] = "grey" <=> \E i \in DOMAIN path : Label(path[i].row) = l
    BY DEF SearchInv
  <2>2. ASSUME NEW l \in Labels PROVE colour'[l] = "grey" <=> \E i \in DOMAIN path' : Label(path'[i].row) = l
    <3>1. CASE l = Label(t)
      <4>1. \A i \in 1..(n - 1) : Label(path[i].row) # l
        BY <3>1, <1>2, <1>5, <1>11
      <4>2. QED
        BY <4>1, <3>1, <1>3, <1>7
    <3>2. CASE l # Label(t)
      <4>1. \A i \in DOMAIN path : Label(path[i].row) = l => i \in 1..(n - 1)
        BY <3>2, <1>2, <1>5
      <4>2. QED
        BY <4>1, <3>2, <2>1, <1>2, <1>3, <1>7
    <3>3. QED
      BY <3>1, <3>2
  <2>3. QED
    BY <2>2, <1>4
<1>13. (\A i, j \in DOMAIN path : Label(path[i].row) = Label(path[j].row) => i = j)'
  BY <1>2, <1>3, <1>4, <1>11
<1>14. ASSUME NEW i \in DOMAIN path', NEW k \in 1..(path'[i].next - 1)
       PROVE  (Settled(path[i].row, k)
                 \/ (i < Len(path) /\ Parent(path[i].row, k) = Label(path[i + 1].row)))'
  <2>1. i \in DOMAIN path /\ path[i] \in OnStack /\ path'[i] = path[i] /\ i < n
    BY <1>2, <1>3
  <2>2. PICK r \in Rows : r = path[i].row /\ r = path'[i].row
    BY <2>1 DEF OnStack
  <2>3. Settled(r, k) \/ Parent(r, k) = Label(path[i + 1].row)
    BY <2>1, <2>2 DEF SearchInv
  <2>4. Parent(r, k)' = Parent(r, k) /\ Label(path[i + 1].row)' = Label(path'[i + 1].row)
    BY <1>4
  <2>5. CASE Settled(r, k)
    BY <2>2, <2>5, <1>8
  <2>6. CASE Parent(r, k) = Label(path[i + 1].row) /\ i + 1 = n
    <3>1. Parent(r, k) = Label(t)
      BY <2>6, <1>2, <1>5
    <3>2. Settled(r, k)'
      BY <3>1, <2>4, <1>6, <1>7 DEF Settled
    <3>3. QED
      BY <3>2, <2>2
  <2>7. CASE Parent(r, k) = Label(path[i + 1].row) /\ i + 1 # n
    <3>1. i < Len(path') /\ path'[i + 1] = path[i + 1]
      BY <2>1, <2>7, <1>2, <1>3
    <3>2. QED
      BY <3>1, <2>2, <2>4, <2>7
  <2>8. QED
    BY <2>3, <2>5, <2>6, <2>7
<1>15. (\A r \in Rows : colour[Label(r)] = "black" => \A k \in {1, 2} : Settled(r, k))'
  <2>1. ASSUME NEW r \in Rows, colour'[Label(r)] = "black" PROVE \A k \in {1, 2} : Settled(r, k)
    <3>1. CASE Label(r) = Label(t)
      BY <3>1, <1>9 DEF Distinct
    <3>2. CASE Label(r) # Label(t)
      BY <3>2, <2>1, <1>7, LabelsAre DEF SearchInv
    <3>3. QED
      BY <3>1, <3>2
  <2>2. QED
    BY <2>1, <1>4, <1>8
<1>16. (\A S \in SUBSET {r \in Rows : colour[Label(r)] = "black" /\ Label(r) \notin cyclic} :
         S # {} => \E r \in S : ParentRows(r) \cap S = {})'
  <2> DEFINE B == {r \in Rows : colour[Label(r)] = "black" /\ Label(r) \notin cyclic}
  <2>1. B' \subseteq B \cup {t}
    <3>1. \A r \in Rows : Label(r) = Label(t) => r = t
      BY DEF Distinct
    <3>2. \A r \in Rows : Label(r) \in Labels
      BY LabelsAre
    <3>3. QED
      BY <3>1, <3>2, <1>1, <1>4, <1>7
  <2>2. ASSUME t \in B', NEW r \in B \cup {t} PROVE t \notin ParentRows(r)
    <3>1. SUFFICES ASSUME NEW k \in {1, 2}, Parent(r, k) # Nobody, ByRef(Parent(r, k)) = t PROVE FALSE
      BY DEF ParentRows, InFile
    <3>2. r \in Rows
      OBVIOUS
    <3>3. Parent(r, k) = Label(t)
      BY <3>1, <3>2, ParentIs, RowNamed DEF FileTyped
    <3>4. Settled(r, k)
      BY <1>9 DEF SearchInv
    <3>5. Label(r) \in cyclic
      BY <3>1, <3>3, <3>4, <1>10 DEF Settled
    <3>6. Label(t) \notin cyclic
      BY <2>2, <1>1, <1>4
    <3>7. QED
      BY <3>5, <3>6
  <2>3. ASSUME NEW S \in SUBSET B', S # {} PROVE \E r \in S : ParentRows(r) \cap S = {}
    <3>1. CASE t \notin S
      <4>1. S \in SUBSET B
        BY <2>1, <3>1
      <4>2. QED
        BY <4>1, <2>3 DEF SearchInv
    <3>2. CASE t \in S /\ S \ {t} = {}
      BY <3>2, <2>2
    <3>3. CASE t \in S /\ S \ {t} # {}
      <4>1. S \ {t} \in SUBSET B
        BY <2>1
      <4>2. PICK r \in S \ {t} : ParentRows(r) \cap (S \ {t}) = {}
        BY <4>1, <3>3 DEF SearchInv
      <4>3. t \notin ParentRows(r)
        BY <4>1, <4>2, <3>3, <2>2
      <4>4. QED
        BY <4>2, <4>3
    <3>4. QED
      BY <3>1, <3>2, <3>3
  <2>4. QED
    BY <2>3, <1>4
<1>17. (\A i \in DOMAIN path : \A k \in 1..(path[i].next - 1) :
         Settled(path[i].row, k) \/ (i < Len(path) /\ Parent(path[i].row, k) = Label(path[i + 1].row)))'
  BY <1>14
<1>18. QED
  BY <1>12, <1>13, <1>15, <1>16, <1>17 DEF SearchInv

\* When the search is over it is done with every row.
LEMMA MarkCyclesReports ==
  ASSUME FileTyped, Distinct, SearchInv, MarkCycles PROVE NoHiddenCycle'
<1>1. /\ path = <<>> /\ \A r \in Rows : colour[Label(r)] # "white"
      /\ file' = file /\ phase = "cycles"
      /\ errors' = [r \in Rows |-> errors[r] \cup IF Label(r) \in cyclic THEN {"cycle"} ELSE {}]
  BY DEF MarkCycles
<1>2. \A r \in Rows : colour[Label(r)] = "black"
  <2>1. \A r \in Rows : Label(r) \in Labels
    BY LabelsAre
  <2>2. \A r \in Rows : colour[Label(r)] # "grey"
    BY <2>1, <1>1 DEF SearchInv
  <2>3. QED
    BY <2>1, <2>2, <1>1 DEF FileTyped
<1>3. Rows' = Rows /\ \A r : ParentRows(r)' = ParentRows(r)
  BY <1>1, FileStays
<1>4. \A r \in Rows : ~Marked(r)' => Label(r) \notin cyclic
  BY <1>1 DEF Marked
<1>5. {r \in Rows : ~Marked(r)}' \subseteq {r \in Rows : colour[Label(r)] = "black" /\ Label(r) \notin cyclic}
  BY <1>2, <1>3, <1>4
<1>6. QED
  BY <1>3, <1>5 DEF SearchInv, NoHiddenCycle

\* References to p are finitely many.
LEMMA EdgesAre ==
  ASSUME FileTyped, NEW c
  PROVE  /\ IsFiniteSet(Rows \X {1, 2})
         /\ \A p : Edges(p, c) \subseteq Rows \X {1, 2}
         /\ \A p, q : p # q => Edges(p, c) \cap Edges(q, c) = {}
         /\ \A r \in Rows : \A k \in ParentRefs(r) : Label(r) = c => <<r, k>> \in Edges(Parent(r, k), c)
         /\ \A p : \A x \in Edges(p, c) : x[1] \in Rows /\ Label(x[1]) = c
<1>1. IsFiniteSet(Rows)
  <2>1. Rows = 1..Len(file) /\ 1 \in Int /\ Len(file) \in Int
    BY DEF Rows, FileTyped
  <2>2. QED
    BY <2>1, FS_Interval
<1>2. IsFiniteSet({1, 2})
  <2>1. {1, 2} = {1} \cup {2} /\ IsFiniteSet({1})
    BY FS_Singleton
  <2>2. QED
    BY <2>1, FS_AddElement
<1>3. IsFiniteSet(Rows \X {1, 2})
  BY <1>1, <1>2, FS_Product
<1>4. \A p : Edges(p, c) \subseteq Rows \X {1, 2}
  BY DEF Edges
<1>5. \A p, q : p # q => Edges(p, c) \cap Edges(q, c) = {}
  BY DEF Edges
<1>6. \A r \in Rows : \A k \in ParentRefs(r) : Label(r) = c => <<r, k>> \in Edges(Parent(r, k), c)
  BY DEF Edges, ParentRefs
<1>7. \A p : \A x \in Edges(p, c) : x[1] \in Rows /\ Label(x[1]) = c
  BY DEF Edges
<1>8. QED
  BY <1>3, <1>4, <1>5, <1>6, <1>7

\* So are the pending ones.
LEMMA PendingIs ==
  ASSUME FileTyped, NEW c
  PROVE  /\ IsFiniteSet(Pending(c)) /\ Cardinality(Pending(c)) \in Nat
         /\ Cardinality(Pending(c)) = 0 <=> Pending(c) = {}
         /\ \A l \in Labels \ seen : Edges(l, c) \subseteq Pending(c)
         /\ Pending(c) # {} => HasRow(c)
<1>1. Pending(c) \subseteq Rows \X {1, 2} /\ IsFiniteSet(Rows \X {1, 2})
  BY EdgesAre DEF Pending
<1>2. IsFiniteSet(Pending(c))
  BY <1>1, FS_Subset
<1>3. Pending(c) # {} => HasRow(c)
  BY EdgesAre DEF Pending, HasRow
<1>4. QED
  BY <1>2, <1>3, FS_EmptySet, FS_CardinalityType DEF Pending

\* Approval counts the references before any row is sorted.
LEMMA ApproveSorts ==
  ASSUME FileTyped, Untouched, NEW r, NEW d, Approve(r, d) PROVE SortInv'
<1>1. /\ file' = file /\ seen' = seen /\ order' = order /\ seen = {} /\ order = <<>>
      /\ indegree' = [l \in Labels |-> Cardinality(UNION {Edges(p, l) : p \in Labels})]
      /\ free' = {l \in Labels : HasRow(l) /\ indegree'[l] = 0}
  BY DEF Approve, Untouched
<1>2. /\ \A l : HasRow(l)' = HasRow(l)
      /\ \A p, c : Edges(p, c)' = Edges(p, c)
  BY <1>1, FileStays
<1>3. \A c : Pending(c)' = UNION {Edges(p, c) : p \in Labels}
  BY <1>1, <1>2 DEF Pending
<1>4. DOMAIN order' = {}
  BY <1>1
<1>5. (indegree = [l \in Labels |-> Cardinality(Pending(l))])'
  BY <1>1, <1>3
<1>6. QED
  BY <1>1, <1>2, <1>4, <1>5 DEF SortInv

\* To take a row without pending references settles those to it.
LEMMA TakeFreeSorts ==
  ASSUME FileTyped, SortInv, NEW l \in Labels, TakeFree(l) PROVE SortInv'
<1> DEFINE left == [c \in Labels |-> indegree[c] - Cardinality(Edges(l, c))]
<1>1. /\ file' = file /\ l \in free /\ seen' = seen \cup {l} /\ order' = Append(order, ByRef(l))
      /\ indegree' = left
      /\ free' = (free \ {l}) \cup {c \in Labels : left[c] = 0 /\ indegree[c] > 0}
  BY DEF TakeFree
<1>2. /\ Rows' = Rows /\ \A r : Label(r)' = Label(r)
      /\ \A c : HasRow(c)' = HasRow(c) /\ ByRef(c)' = ByRef(c)
      /\ \A r, k : Parent(r, k)' = Parent(r, k)
      /\ \A r : ParentRefs(r)' = ParentRefs(r)
      /\ \A p, c : Edges(p, c)' = Edges(p, c)
  BY <1>1, FileStays
<1>3. HasRow(l) /\ indegree[l] = 0 /\ l \notin seen
  BY <1>1 DEF SortInv
<1>4. \A c \in Labels : indegree[c] = Cardinality(Pending(c))
  BY DEF SortInv
<1>5. ASSUME NEW c \in Labels PROVE left[c] = Cardinality(Pending(c)') /\ left[c] \in Nat
  <2>1. Pending(c)' = Pending(c) \ Edges(l, c)
    <3>1. Pending(c)' = UNION {Edges(p, c) : p \in Labels \ (seen \cup {l})}
      BY <1>1, <1>2 DEF Pending
    <3>2. \A p : p # l => Edges(p, c) \cap Edges(l, c) = {}
      BY EdgesAre
    <3>3. QED
      BY <3>1, <3>2, <1>3 DEF Pending
  <2>2. IsFiniteSet(Pending(c)) /\ Edges(l, c) \subseteq Pending(c)
    BY <1>3, PendingIs
  <2>3. IsFiniteSet(Edges(l, c))
    BY <2>2, FS_Subset
  <2>4. /\ IsFiniteSet(Pending(c) \ Edges(l, c))
        /\ Cardinality(Pending(c) \ Edges(l, c))
             = Cardinality(Pending(c)) - Cardinality(Pending(c) \cap Edges(l, c))
    BY <2>2, <2>3, FS_Difference
  <2>5. Pending(c) \cap Edges(l, c) = Edges(l, c)
    BY <2>2
  <2>6. Cardinality(Pending(c) \ Edges(l, c)) \in Nat
    BY <2>4, FS_CardinalityType
  <2>7. QED
    BY <2>1, <2>4, <2>5, <2>6, <1>4
<1>6. \A c \in Labels : indegree[c] \in Nat /\ (indegree[c] = 0 => left[c] = 0) /\ (indegree[c] > 0 => HasRow(c))
  <2> SUFFICES ASSUME NEW c \in Labels
               PROVE  indegree[c] \in Nat /\ (indegree[c] = 0 => left[c] = 0) /\ (indegree[c] > 0 => HasRow(c))
    OBVIOUS
  <2>1. indegree[c] \in Nat /\ (indegree[c] = 0 => Pending(c) = {}) /\ (indegree[c] > 0 => HasRow(c))
    BY <1>4, PendingIs, FS_EmptySet
  <2>2. Edges(l, c) \subseteq Pending(c)
    BY <1>3, PendingIs
  <2>3. Pending(c) = {} => Cardinality(Edges(l, c)) = 0
    BY <2>2, FS_EmptySet
  <2>4. QED
    BY <2>1, <2>3
<1>7. (indegree = [c \in Labels |-> Cardinality(Pending(c))])'
  BY <1>1, <1>5
<1>8. free' = {c \in Labels : HasRow(c) /\ left[c] = 0} \ (seen \cup {l})
  <2>1. free = {c \in Labels : HasRow(c) /\ indegree[c] = 0} \ seen /\ \A c \in seen : indegree[c] = 0
    BY DEF SortInv
  <2> HIDE DEF left
  <2>2. ASSUME NEW c \in Labels
        PROVE  c \in free' <=> HasRow(c) /\ left[c] = 0 /\ c \notin seen \cup {l}
    BY <2>1, <1>1, <1>3, <1>6
  <2>3. QED
    BY <2>1, <2>2, <1>1
<1>9. order \in Seq(Rows) /\ Len(order) \in Nat /\ DOMAIN order = 1..Len(order)
  BY DEF FileTyped
<1> DEFINE n == Len(order) + 1
           q == ByRef(l)
<1>10. q \in Rows /\ Label(q) = l
  BY <1>3, RowNamed DEF FileTyped
<1>11. /\ DOMAIN order' = 1..n /\ n \in DOMAIN order' /\ order'[n] = q
       /\ \A i \in DOMAIN order : i \in DOMAIN order' /\ order'[i] = order[i] /\ i < n
       /\ \A i \in DOMAIN order' : i = n \/ i \in DOMAIN order
  BY <1>1, <1>9, <1>10
<1> HIDE DEF n, left
<1>12. \A i \in DOMAIN order' : Label(order'[i]) \in seen' /\ ByRef(Label(order'[i])) = order'[i]
  <2>1. \A i \in DOMAIN order : Label(order[i]) \in seen /\ ByRef(Label(order[i])) = order[i]
    BY DEF SortInv
  <2>2. QED
    BY <2>1, <1>1, <1>10, <1>11
<1>13. \A c \in seen' : \E i \in DOMAIN order' : order'[i] = ByRef(c)
  <2>1. \A c \in seen : \E i \in DOMAIN order : order[i] = ByRef(c)
    BY DEF SortInv
  <2>2. QED
    BY <2>1, <1>1, <1>11
<1>14. \A i, j \in DOMAIN order' : order'[i] = order'[j] => i = j
  <2>1. \A i \in DOMAIN order : order[i] # q
    BY <1>3, <1>10 DEF SortInv
  <2>2. \A i, j \in DOMAIN order : order[i] = order[j] => i = j
    BY DEF SortInv
  <2>3. QED
    BY <2>1, <2>2, <1>11
<1>15. ASSUME NEW i \in DOMAIN order', NEW k \in ParentRefs(order'[i])
       PROVE  \E j \in DOMAIN order' : j < i /\ order'[j] = ByRef(Parent(order'[i], k))
  <2>1. CASE i \in DOMAIN order
    <3>1. \E j \in DOMAIN order : j < i /\ order[j] = ByRef(Parent(order[i], k))
      BY <2>1, <1>11 DEF SortInv
    <3>2. QED
      BY <3>1, <2>1, <1>11
  <2>2. CASE i = n
    <3> DEFINE p == Parent(q, k)
    <3>1. order'[i] = q /\ k \in ParentRefs(q)
      BY <2>2, <1>11
    <3>2. <<q, k>> \in Edges(p, l)
      BY <3>1, <1>10, EdgesAre
    <3>3. p \in Labels
      BY <3>1, <1>10, ParentIs DEF FileTyped, ParentRefs
    <3>4. Pending(l) = {}
      BY <1>3, <1>4, PendingIs
    <3>5. p \in seen
      BY <3>2, <3>3, <3>4 DEF Pending
    <3>6. PICK j \in DOMAIN order : order[j] = ByRef(p)
      BY <3>5 DEF SortInv
    <3>7. QED
      BY <3>1, <3>6, <2>2, <1>11
  <2>3. QED
    BY <2>1, <2>2, <1>11
<1>16. (\A i \in DOMAIN order : Label(order[i]) \in seen /\ ByRef(Label(order[i])) = order[i])'
  BY <1>2, <1>12
<1>17. (\A c \in seen : \E i \in DOMAIN order : order[i] = ByRef(c))'
  BY <1>2, <1>13
<1>18. (\A i \in DOMAIN order : \A k \in ParentRefs(order[i]) :
          \E j \in DOMAIN order : j < i /\ order[j] = ByRef(Parent(order[i], k)))'
  BY <1>2, <1>15
<1>19. /\ (seen \subseteq {c \in Labels : HasRow(c)})'
       /\ (\A c \in seen : indegree[c] = 0)'
       /\ (free = {c \in Labels : HasRow(c) /\ indegree[c] = 0} \ seen)'
  BY <1>1, <1>2, <1>3, <1>6, <1>8 DEF SortInv
<1>20. QED
  BY <1>7, <1>14, <1>16, <1>17, <1>18, <1>19 DEF SortInv

\* For each i there is one row with i - 1 rows before it.
LEMMA Ranked ==
  ASSUME NEW rest, IsFiniteSet(rest), rest \subseteq Nat,
         NEW i \in 1..Cardinality(rest)
  PROVE  \E r \in rest : Cardinality({s \in rest : s < r}) = i - 1
<1> DEFINE N == Cardinality(rest)
           below(r) == {s \in rest : s < r}
           rank == [r \in rest |-> Cardinality(below(r))]
<1>1. N \in Nat
  BY FS_CardinalityType
<1>2. ASSUME NEW r \in rest PROVE Cardinality(below(r)) \in 0..(N - 1) /\ IsFiniteSet(below(r))
  <2>1. below(r) \subseteq rest /\ r \notin below(r)
    OBVIOUS
  <2> HIDE DEF below
  <2>2. IsFiniteSet(below(r)) /\ Cardinality(below(r)) <= N /\ Cardinality(below(r)) # N
    BY <2>1, FS_Subset
  <2>3. Cardinality(below(r)) \in Nat
    BY <2>2, FS_CardinalityType
  <2>4. QED
    BY <2>2, <2>3, <1>1
<1>3. ASSUME NEW r \in rest, NEW q \in rest, r < q PROVE Cardinality(below(r)) # Cardinality(below(q))
  <2>0. \A x \in rest : x \in Int
    OBVIOUS
  <2>1. below(r) \subseteq below(q) /\ r \in below(q) /\ r \notin below(r)
    <3>1. \A s \in rest : s < r => s < q
      BY <1>3, <2>0
    <3>2. ~(r < r)
      BY <2>0
    <3>3. QED
      BY ONLY <1>3, <3>1, <3>2
  <2> HIDE DEF below
  <2>2. QED
    BY <2>1, <1>2, FS_Subset
<1>4. rank \in [rest -> 0..(N - 1)]
  BY <1>2
<1>5. ASSUME NEW r \in rest, NEW q \in rest, rank[r] = rank[q] PROVE r = q
  <2>1. r < q \/ q < r \/ r = q
    OBVIOUS
  <2> HIDE DEF below
  <2>2. Cardinality(below(r)) = Cardinality(below(q))
    BY <1>5
  <2>3. QED
    BY <2>1, <2>2, <1>3
<1> HIDE DEF rank
<1>6. rank \in Injection(rest, 0..(N - 1))
  BY <1>4, <1>5 DEF Injection, IsInjective
<1>7. IsFiniteSet(0..(N - 1)) /\ Cardinality(0..(N - 1)) = N
  <2>1. 0 \in Int /\ N - 1 \in Int
    BY <1>1
  <2>2. IsFiniteSet(0..(N - 1)) /\ Cardinality(0..(N - 1)) = IF 0 > N - 1 THEN 0 ELSE (N - 1) - 0 + 1
    BY <2>1, FS_Interval
  <2>3. QED
    BY <2>2, <1>1
<1>8. rank \in Surjection(rest, 0..(N - 1))
  BY <1>6, <1>7, FS_Injection
<1>9. i - 1 \in 0..(N - 1)
  BY <1>1
<1>10. PICK r \in rest : rank[r] = i - 1
  BY <1>8, <1>9 DEF Surjection
<1>11. QED
  BY <1>10 DEF rank

\* A set of rows, in the order of the file.
InOrder(rest) ==
  [i \in 1..Cardinality(rest) |-> CHOOSE r \in rest : Cardinality({s \in rest : s < r}) = i - 1]

\* InOrder lists every row of a set once.
LEMMA Enumerated ==
  ASSUME NEW rest, IsFiniteSet(rest), rest \subseteq Nat
  PROVE  /\ InOrder(rest) \in Seq(rest)
         /\ \A i, j \in DOMAIN InOrder(rest) : InOrder(rest)[i] = InOrder(rest)[j] => i = j
<1> DEFINE N == Cardinality(rest)
           nth == InOrder(rest)
<1>1. N \in Nat
  BY FS_CardinalityType
<1>2. \A i \in 1..N : nth[i] \in rest /\ Cardinality({s \in rest : s < nth[i]}) = i - 1
  <2> SUFFICES ASSUME NEW i \in 1..Cardinality(rest)
               PROVE  nth[i] \in rest /\ Cardinality({s \in rest : s < nth[i]}) = i - 1
    OBVIOUS
  <2>1. \E r \in rest : Cardinality({s \in rest : s < r}) = i - 1
    BY Ranked
  <2>2. nth[i] = CHOOSE r \in rest : Cardinality({s \in rest : s < r}) = i - 1
    BY DEF InOrder
  <2>3. QED
    BY <2>1, <2>2, Zenon
<1>3. DOMAIN nth = 1..N /\ nth = [i \in 1..N |-> nth[i]]
  <2> DEFINE pick(i) == CHOOSE r \in rest : Cardinality({s \in rest : s < r}) = i - 1
  <2>1. nth = [i \in 1..N |-> pick(i)]
    BY DEF InOrder
  <2> HIDE DEF nth, pick, N
  <2>2. QED
    BY <2>1
<1> HIDE DEF nth
<1>4. nth \in Seq(rest)
  <2>1. \A i \in 1..N : nth[i] \in rest
    BY <1>2
  <2> HIDE DEF N
  <2>2. nth \in [1..N -> rest]
    BY <2>1, <1>3
  <2>3. QED
    BY ONLY <2>2, <1>1
<1>5. ASSUME NEW i \in DOMAIN nth, NEW j \in DOMAIN nth, nth[i] = nth[j] PROVE i = j
  <2>1. i \in 1..N /\ j \in 1..N
    BY <1>3
  <2>2. Cardinality({s \in rest : s < nth[i]}) = i - 1 /\ Cardinality({s \in rest : s < nth[j]}) = j - 1
    BY <2>1, <1>2
  <2>3. i - 1 = j - 1
    BY ONLY <2>2, <1>5
  <2> HIDE DEF N
  <2>4. QED
    BY ONLY <2>1, <2>3, <1>1
<1>6. QED
  BY <1>4, <1>5 DEF nth

\* The rows the sort has left out.
Residue == {r \in Rows : Label(r) \notin seen}

\* They are finitely many.
LEMMA ResidueIs == ASSUME FileTyped PROVE IsFiniteSet(Residue) /\ Residue \subseteq Nat
<1>1. Rows = 1..Len(file) /\ 1 \in Int /\ Len(file) \in Int
  BY DEF Rows, FileTyped
<1>2. IsFiniteSet(Rows)
  BY <1>1, FS_Interval
<1>3. Residue \subseteq Rows
  BY DEF Residue
<1>4. Residue \subseteq Nat
  BY <1>1, <1>3
<1>5. QED
  BY <1>2, <1>3, <1>4, FS_Subset

\* Where nothing is marked, every row is reached by the sort.
LEMMA NothingIsLeft ==
  ASSUME FileTyped, SortInv, free = {}, Distinct, NoHiddenCycle, \A r \in Rows : ~Marked(r)
  PROVE  Residue = {}
<1> SUFFICES ASSUME Residue # {} PROVE FALSE
  OBVIOUS
<1>1. PICK r \in Residue : ParentRows(r) \cap Residue = {}
  <2>1. Residue \in SUBSET {r \in Rows : ~Marked(r)}
    BY DEF Residue
  <2>2. QED
    BY <2>1 DEF NoHiddenCycle
<1> DEFINE c == Label(r)
<1>2. r \in Rows /\ c \in Labels /\ HasRow(c) /\ c \notin seen
  BY DistinctRows DEF Residue, FileTyped
<1>3. indegree[c] # 0
  BY <1>2 DEF SortInv
<1>4. Pending(c) # {}
  BY <1>2, <1>3, FS_EmptySet DEF SortInv
<1>5. PICK p \in Labels \ seen : Edges(p, c) # {}
  BY <1>4 DEF Pending
<1>6. PICK x \in Edges(p, c) : TRUE
  BY <1>5
<1>7. x[1] \in Rows /\ Label(x[1]) = c /\ x[2] \in ParentRefs(x[1]) /\ Parent(x[1], x[2]) = p
  BY <1>6 DEF Edges
<1>8. x[1] = r
  BY <1>2, <1>7 DEF Distinct
<1>9. x[2] \in InFile(r) /\ Parent(r, x[2]) = p /\ p # Nobody
  BY <1>7, <1>8 DEF ParentRefs, InFile
<1>10. HasRow(p)
  BY <1>2, <1>9, ParentIs DEF FileTyped
<1>11. ByRef(p) \in Rows /\ Label(ByRef(p)) = p
  BY <1>10, RowNamed DEF FileTyped
<1>12. ByRef(p) \in ParentRows(r) /\ ByRef(p) \in Residue
  BY <1>5, <1>9, <1>11 DEF ParentRows, Residue
<1>13. QED
  BY <1>1, <1>12

\* They follow, each once, without disturbing the order of the others.
LEMMA ResidueAppends ==
  ASSUME FileTyped, Untouched, SortInv, Distinct => NoHiddenCycle, AppendResidue
  PROVE  order' \in Seq(Rows) /\ ApplyInv' /\ (Clean => LinkInv)'
<1> DEFINE nth == InOrder(Residue)
<1>1. /\ phase = "sort" /\ free = {} /\ order' = order \o nth
      /\ file' = file /\ errors' = errors /\ decision' = decision /\ made' = made /\ person' = person
      /\ seen' = seen
  BY DEF AppendResidue, Residue, InOrder
<1>2. /\ Rows' = Rows /\ \A r : Label(r)' = Label(r)
      /\ \A c : HasRow(c)' = HasRow(c) /\ ByRef(c)' = ByRef(c)
      /\ \A r, k : Parent(r, k)' = Parent(r, k)
      /\ \A r : ParentRefs(r)' = ParentRefs(r)
      /\ Distinct' = Distinct
  BY <1>1, FileStays
<1>3. /\ nth \in Seq(Residue) /\ \A i, j \in DOMAIN nth : nth[i] = nth[j] => i = j
  <2>1. IsFiniteSet(Residue) /\ Residue \subseteq Nat
    BY ResidueIs
  <2>2. QED
    BY <2>1, Enumerated
<1>4. order \in Seq(Rows) /\ DOMAIN order = 1..Len(order) /\ Len(order) \in Nat
  BY DEF FileTyped
<1>5. /\ DOMAIN nth = 1..Len(nth) /\ Len(nth) \in Nat /\ \A i \in DOMAIN nth : nth[i] \in Residue
      /\ nth \in Seq(Rows)
  <2> HIDE DEF nth
  <2>1. Residue \subseteq Rows
    BY DEF Residue
  <2>2. QED
    BY <2>1, <1>3
<1> HIDE DEF nth
<1>6. order' \in Seq(Rows)
  BY <1>1, <1>4, <1>5
<1>7. /\ DOMAIN order' = 1..(Len(order) + Len(nth))
      /\ \A i \in DOMAIN order' :
           \/ i \in DOMAIN order /\ order'[i] = order[i]
           \/ i - Len(order) \in DOMAIN nth /\ order'[i] = nth[i - Len(order)]
  BY <1>1, <1>4, <1>5
<1>8. \A i, j \in DOMAIN order' : order'[i] = order'[j] => i = j
  <2>1. \A i, j \in DOMAIN order : order[i] = order[j] => i = j
    BY DEF SortInv
  <2>2. \A i \in DOMAIN order, j \in DOMAIN nth : order[i] # nth[j]
    BY <1>5 DEF SortInv, Residue
  <2>3. ASSUME NEW i \in DOMAIN order', NEW j \in DOMAIN order', order'[i] = order'[j] PROVE i = j
    <3>1. CASE i \in DOMAIN order /\ order'[i] = order[i]
      BY <3>1, <2>1, <2>2, <2>3, <1>7
    <3>2. CASE i - Len(order) \in DOMAIN nth /\ order'[i] = nth[i - Len(order)]
      <4>1. ~(j \in DOMAIN order /\ order'[j] = order[j])
        BY <3>2, <2>2, <2>3
      <4>2. i - Len(order) = j - Len(order)
        BY <4>1, <3>2, <2>3, <1>3, <1>7
      <4>3. QED
        BY <4>2, <1>4, <1>7
    <3>3. QED
      BY <3>1, <3>2, <1>7
  <2>4. QED
    BY <2>3
<1>9. person = {}
  BY <1>1 DEF Untouched
<1>10. ApplyInv'
  BY <1>1, <1>8, <1>9 DEF ApplyInv
<1>11. ASSUME Clean' PROVE LinkInv'
  <2>1. Distinct /\ \A r \in Rows : ~Marked(r)
    BY <1>1, <1>2, <1>11 DEF Clean, Marked
  <2>2. Residue = {}
    BY <2>1, <1>1, NothingIsLeft
  <2>3. order' = order
    <3>1. Len(nth) = 0
      <4>1. CASE Len(nth) # 0
        <5>1. 1 \in DOMAIN nth
          BY <4>1, <1>5
        <5>2. QED
          BY <5>1, <2>2, <1>5
      <4>2. QED
        BY <4>1
    <3>2. DOMAIN order' = DOMAIN order /\ \A i \in DOMAIN order' : order'[i] = order[i]
      BY <3>1, <1>4, <1>7
    <3>3. QED
      BY <3>2, <1>4, <1>6
  <2>4. ASSUME NEW i \in DOMAIN order, NEW k \in ParentRefs(order[i]),
               NEW j \in DOMAIN order, order[j] = ByRef(Parent(order[i], k))
        PROVE  j < i
    <3>1. PICK m \in DOMAIN order : m < i /\ order[m] = ByRef(Parent(order[i], k))
      BY DEF SortInv
    <3>2. m = j
      BY <3>1, <2>4 DEF SortInv
    <3>3. QED
      BY <3>1, <3>2
  <2>5. \A r \in Rows : \E i \in DOMAIN order : order[i] = r
    <3> SUFFICES ASSUME NEW r \in Rows PROVE \E i \in DOMAIN order : order[i] = r
      OBVIOUS
    <3>1. Label(r) \in seen
      BY <2>2 DEF Residue
    <3>2. ByRef(Label(r)) = r
      BY <2>1, DistinctRows DEF FileTyped
    <3>3. QED
      BY <3>1, <3>2 DEF SortInv
  <2>6. (Rows \ Left)' = {}
    BY <2>3, <2>5, <1>2 DEF Left
  <2>7. (\A i \in DOMAIN order : \A k \in ParentRefs(order[i]) :
           \A j \in DOMAIN order : order[j] = ByRef(Parent(order[i], k)) => j < i)'
    BY <2>3, <2>4, <1>2
  <2>8. QED
    BY <2>6, <2>7, <1>1, <1>9 DEF LinkInv
<1>12. QED
  BY <1>6, <1>10, <1>11

\* To hang a new one below somebody who is there leaves every line with an end.
LEMMA GrowingEnds ==
  ASSUME NEW S, NEW e, NEW f, OnLine(S, e, f), Ends(S, e, f), NEW r, r \notin S, r # e,
         NEW g, g \in [S \cup {r} -> S \cup {r} \cup {e}], \A x \in S : g[x] = f[x], g[r] \in S \cup {e}
  PROVE  OnLine(S \cup {r}, e, g) /\ Ends(S \cup {r}, e, g)
<1> DEFINE S1 == S \cup {r}
<1>1. OnLine(S1, e, g)
  BY DEF OnLine
<1>2. ASSUME NEW x \in S \cup {e} PROVE \A n \in Nat : Chain(S1, e, g, x)[n] = Chain(S, e, f, x)[n]
  <2> DEFINE a == Chain(S, e, f, x)
             b == Chain(S1, e, g, x)
             T == {n \in Nat : b[n] = a[n]}
  <2>1. a[0] = x /\ \A k \in Nat : a[k + 1] = Along(S, e, f, a[k])
    BY ChainEquation
  <2>2. b[0] = x /\ \A k \in Nat : b[k + 1] = Along(S1, e, g, b[k])
    BY ChainEquation
  <2>3. \A n \in Nat : a[n] \in S \cup {e}
    BY ChainStays
  <2>4. \A y \in S \cup {e} : Along(S1, e, g, y) = Along(S, e, f, y)
    BY DEF Along, OnLine
  <2> HIDE DEF a, b, S1
  <2>5. 0 \in T /\ \A n \in T : n + 1 \in T
    BY <2>1, <2>2, <2>3, <2>4
  <2> HIDE DEF T
  <2>6. T = Nat
    BY <2>5, Upward DEF T
  <2>7. QED
    BY <2>6 DEF T, a, b
<1>3. ASSUME NEW x \in S \cup {e} PROVE \E n \in Nat : Chain(S1, e, g, x)[n] = e
  <2>1. \E n \in Nat : Chain(S, e, f, x)[n] = e
    <3>1. CASE x = e
      BY <3>1, ChainEquation
    <3>2. CASE x \in S
      BY <3>2 DEF Ends
    <3>3. QED
      BY <3>1, <3>2
  <2> HIDE DEF S1
  <2>2. QED
    BY <2>1, <1>2
<1>4. \E n \in Nat : Chain(S1, e, g, r)[n] = e
  <2>1. PICK n \in Nat : Chain(S1, e, g, g[r])[n] = e
    BY <1>3
  <2>2. r \in S1
    OBVIOUS
  <2> HIDE DEF S1
  <2>3. Chain(S1, e, g, r)[n + 1] = Chain(S1, e, g, g[r])[n]
    BY <2>2, ChainFromNext
  <2>4. n + 1 \in Nat
    OBVIOUS
  <2>5. QED
    BY <2>1, <2>3, <2>4
<1>5. Ends(S1, e, g)
  BY <1>3, <1>4 DEF Ends
<1>6. QED
  BY <1>1, <1>5

\* The recursion of Line.
IsLine(x, N, g) == g = [n \in 0..N |-> IF n = 0 THEN x ELSE FatherOf(g[n - 1])]

\* Line is the chain of fathers, as far as it goes.
LEMMA LineIs ==
  ASSUME LineInv, NEW x \in Persons, NEW A, \E n \in Nat : Chain(Persons, Nobody, FatherLine, x)[n] \in A
  PROVE  Line(x) \cap A # {}
<1> DEFINE N == Cardinality(person) + 1
           c == Chain(Persons, Nobody, FatherLine, x)
           w == [n \in 0..N |-> c[n]]
           up == CHOOSE g : IsLine(x, N, g)
<1>1. OnLine(Persons, Nobody, FatherLine) /\ IsFiniteSet(person) /\ N \in Nat
  BY FS_CardinalityType DEF LineInv
<1>2. IsFiniteSet(Persons) /\ Cardinality(Persons) <= N
  <2> DEFINE R == {p.row : p \in person}
             h == [p \in person |-> p.row]
  <2>1. h \in Surjection(person, R)
    BY DEF Surjection
  <2>2. IsFiniteSet(R) /\ Cardinality(R) <= Cardinality(person)
    <3> HIDE DEF h, R
    <3>1. QED
      BY <2>1, <1>1, FS_Surjection
  <2>3. Cardinality(R) \in Nat /\ Cardinality(person) \in Nat
    BY <2>2, <1>1, FS_CardinalityType
  <2>4. IsFiniteSet(R \cup {Man}) /\ Cardinality(R \cup {Man}) \in {Cardinality(R), Cardinality(R) + 1}
    <3> HIDE DEF R
    <3>1. QED
      BY <2>2, FS_AddElement
  <2>5. Persons = R \cup {Man}
    BY DEF Persons
  <2> HIDE DEF R
  <2>6. QED
    BY <2>2, <2>3, <2>4, <2>5
<1>3. c[0] = x /\ \A n \in Nat : c[n + 1] = Along(Persons, Nobody, FatherLine, c[n])
  BY ChainEquation
<1>4. \A n \in Nat : c[n] \in Persons \cup {Nobody}
  BY <1>1, ChainStays
<1>5. \A y \in Persons \cup {Nobody} : Along(Persons, Nobody, FatherLine, y) = FatherOf(y)
  <2>1. FatherOf(Nobody) = Nobody /\ Nobody \notin Persons
    BY <1>1 DEF OnLine, FatherOf, Persons
  <2>2. \A y \in Persons : FatherLine[y] = FatherOf(y)
    BY DEF FatherLine
  <2>3. QED
    BY <2>1, <2>2 DEF Along
<1>6. \A n \in Nat : c[n + 1] = FatherOf(c[n])
  BY <1>3, <1>4, <1>5
<1>7. Line(x) = {up[n] : n \in DOMAIN up}
  BY DEF Line, IsLine
<1> HIDE DEF c, N
<1>8. ASSUME NEW n \in 0..N PROVE w[n] = IF n = 0 THEN x ELSE FatherOf(w[n - 1])
  <2>1. CASE n # 0
    <3>1. n - 1 \in Nat /\ (n - 1) + 1 = n /\ n - 1 \in 0..N
      BY <1>1, <2>1
    <3>2. w[n - 1] = c[n - 1] /\ w[n] = c[(n - 1) + 1]
      BY <3>1
    <3> HIDE DEF w
    <3>3. QED
      BY <1>6, <2>1, <3>1, <3>2
  <2>2. QED
    BY <1>3, <2>1
<1>9. w = [n \in 0..N |-> w[n]] /\ \A n \in 0..N : w[n] = c[n]
  OBVIOUS
<1> HIDE DEF w
<1>10. w = [n \in 0..N |-> IF n = 0 THEN x ELSE FatherOf(w[n - 1])]
  BY <1>8, <1>9
<1>11. IsLine(x, N, up)
  BY <1>10 DEF IsLine
<1> HIDE DEF up
<1>12. \A n \in 0..N : up[n] = IF n = 0 THEN x ELSE FatherOf(up[n - 1])
  BY <1>11, Zenon DEF IsLine
<1>13. DOMAIN up = 0..N
  BY <1>11, Zenon DEF IsLine
<1> DEFINE T == {n \in Nat : n <= N => up[n] = c[n]}
<1>14. 0 \in T
  <2>1. 0 \in 0..N
    BY <1>1
  <2>2. QED
    BY <2>1, <1>3, <1>12
<1>15. ASSUME NEW n \in T PROVE n + 1 \in T
  <2> SUFFICES ASSUME n + 1 <= N PROVE up[n + 1] = c[n + 1]
    OBVIOUS
  <2>1. n + 1 \in 0..N /\ n + 1 # 0 /\ (n + 1) - 1 = n /\ up[n] = c[n]
    BY <1>1
  <2>2. up[n + 1] = FatherOf(up[(n + 1) - 1])
    BY <1>12, <2>1
  <2>3. c[n + 1] = FatherOf(c[n])
    BY <1>6
  <2>4. QED
    BY <2>1, <2>2, <2>3
<1> HIDE DEF T
<1>16. T = Nat
  BY <1>14, <1>15, Upward DEF T
<1>17. PICK n \in Nat : FirstIn(Persons, Nobody, FatherLine, x, A, n)
  BY FirstExists
<1>18. n <= N
  <2>1. n <= Cardinality(Persons)
    BY <1>1, <1>2, <1>17, FirstIsNear
  <2>2. Cardinality(Persons) \in Nat
    BY <1>2, FS_CardinalityType
  <2>3. QED
    BY <2>1, <2>2, <1>1, <1>2
<1>19. c[n] \in A
  BY <1>17 DEF FirstIn, c
<1>20. up[n] = c[n] /\ n \in 0..N
  BY <1>1, <1>16, <1>18 DEF T
<1>21. QED
  BY <1>7, <1>13, <1>19, <1>20

\* The first row of the order is taken from it.
LEMMA HeadOf ==
  ASSUME FileTyped, ApplyInv, order # <<>>, order' = Tail(order), file' = file
  PROVE  /\ Head(order) \in Rows /\ Head(order) \in Left /\ order[1] = Head(order) /\ 1 \in DOMAIN order
         /\ order' \in Seq(Rows) /\ Left' = Left \ {Head(order)}
         /\ \A i \in DOMAIN order' : i + 1 \in DOMAIN order /\ order'[i] = order[i + 1]
         /\ \A i, j \in DOMAIN order' : order'[i] = order'[j] => i = j
<1>1. order \in Seq(Rows) /\ Len(order) \in Nat /\ Len(order) # 0 /\ DOMAIN order = 1..Len(order)
  BY DEF FileTyped
<1>2. Head(order) = order[1] /\ 1 \in DOMAIN order /\ Head(order) \in Rows
  BY <1>1
<1>3. order' \in Seq(Rows) /\ DOMAIN order' = 1..(Len(order) - 1)
  BY <1>1
<1>4. \A i \in DOMAIN order' : i + 1 \in DOMAIN order /\ order'[i] = order[i + 1]
  BY <1>1, <1>3
<1>5. \A i, j \in DOMAIN order : order[i] = order[j] => i = j
  BY DEF ApplyInv
<1>6. \A i, j \in DOMAIN order' : order'[i] = order'[j] => i = j
  <2> SUFFICES ASSUME NEW i \in DOMAIN order', NEW j \in DOMAIN order', order'[i] = order'[j] PROVE i = j
    OBVIOUS
  <2>1. i + 1 = j + 1
    BY <1>4, <1>5
  <2>2. QED
    BY <2>1, <1>3
<1>7. Left' = Left \ {Head(order)}
  <2>1. ASSUME NEW i \in DOMAIN order' PROVE order'[i] \in Left \ {Head(order)}
    <3>1. i + 1 \in DOMAIN order /\ order'[i] = order[i + 1] /\ i + 1 # 1
      BY <1>3, <1>4
    <3>2. QED
      BY <3>1, <1>2, <1>5 DEF Left
  <2>2. ASSUME NEW i \in DOMAIN order, order[i] # Head(order) PROVE order[i] \in {order'[j] : j \in DOMAIN order'}
    <3>1. i - 1 \in DOMAIN order' /\ (i - 1) + 1 = i
      BY <2>2, <1>1, <1>2, <1>3
    <3>2. order'[i - 1] = order[i]
      BY <3>1, <1>4
    <3>3. QED
      BY <3>1, <3>2
  <2>3. Left' = {order'[j] : j \in DOMAIN order'}
    BY DEF Left
  <2>4. QED
    BY <2>1, <2>2, <2>3 DEF Left
<1>8. QED
  BY <1>2, <1>3, <1>4, <1>6, <1>7 DEF Left

\* What the row's father and mother are set to.
LEMMA IdsAre ==
  ASSUME FileTyped, LineInv, NEW r \in Rows
  PROVE  /\ FatherId(r) \in Persons \cup {Nobody}
         /\ Parent(r, 1) # Nobody => FatherId(r) = made[Parent(r, 1)]
         /\ Parent(r, 2) # Nobody => MotherId(r) = made[Parent(r, 2)]
<1>1. \A l : HasRow(l) => made[l] \in Persons \cup {Nobody}
  BY RowNamed DEF FileTyped, LineInv
<1>2. Man \in Persons
  BY DEF Persons
<1>3. FatherId(r) \in Persons \cup {Nobody}
  BY <1>1, <1>2 DEF FatherId, ResolveParentId
<1>4. Parent(r, 1) # Nobody => FatherId(r) = made[Parent(r, 1)]
  BY ParentIs DEF FileTyped, FatherId, ResolveParentId
<1>5. Parent(r, 2) # Nobody => MotherId(r) = made[Parent(r, 2)]
  BY ParentIs DEF FileTyped, MotherId, ResolveParentId
<1>6. QED
  BY <1>3, <1>4, <1>5

\* Creating the person of the first row.
LEMMA ApplyKeepsOrder ==
  ASSUME FileTyped, ApplyInv, ApplyRow PROVE ApplyInv'
<1> DEFINE r == Head(order)
           rec == [row |-> r, gender |-> CreatedGender(r), father |-> FatherId(r), mother |-> MotherId(r)]
<1>1. order # <<>> /\ order' = Tail(order) /\ file' = file /\ person' \in {person, person \cup {rec}}
  BY DEF ApplyRow
<1>2. rec.row = r
  OBVIOUS
<1> HIDE DEF rec
<1>3. /\ r \in Rows /\ r \in Left /\ Left' = Left \ {r}
      /\ \A i, j \in DOMAIN order' : order'[i] = order'[j] => i = j
  BY <1>1, HeadOf
<1> HIDE DEF r
<1>4. Rows' = Rows
  BY <1>1, FileStays
<1>5. \A p \in person' : p.row \in Rows \ (Left \ {r})
  BY <1>1, <1>2, <1>3 DEF ApplyInv
<1>6. \A p, q \in person' : p.row = q.row => p = q
  BY <1>1, <1>2, <1>3 DEF ApplyInv
<1>7. QED
  BY <1>3, <1>4, <1>5, <1>6 DEF ApplyInv

\* Her parents have been created before, and are found.
LEMMA ApplyKeepsLinks ==
  ASSUME FileTyped, ApplyInv, LineInv, Clean, LinkInv, phase # "upload", ApplyRow PROVE LinkInv'
<1> DEFINE r == Head(order)
           rec == [row |-> r, gender |-> CreatedGender(r), father |-> FatherId(r), mother |-> MotherId(r)]
<1>1. /\ order # <<>> /\ order' = Tail(order) /\ file' = file /\ errors' = errors /\ decision' = decision
      /\ IF Appliable(r)
          THEN /\ made' = [made EXCEPT ![Label(r)] = IF decision[r] = "new" THEN r ELSE Man]
               /\ person' = IF decision[r] # "new" THEN person ELSE person \cup {rec}
          ELSE UNCHANGED <<made, person>>
  BY DEF ApplyRow
<1>2. rec.row = r /\ rec.father = FatherId(r) /\ rec.mother = MotherId(r)
  OBVIOUS
<1> HIDE DEF rec
<1>3. /\ r \in Rows /\ r \in Left /\ Left' = Left \ {r} /\ order[1] = r /\ 1 \in DOMAIN order
      /\ \A i \in DOMAIN order' : i + 1 \in DOMAIN order /\ order'[i] = order[i + 1]
      /\ order' \in Seq(Rows)
  BY <1>1, HeadOf
<1> HIDE DEF r
<1>4. /\ Rows' = Rows /\ \A x : Label(x)' = Label(x)
      /\ \A c : ByRef(c)' = ByRef(c)
      /\ \A x, k : Parent(x, k)' = Parent(x, k)
      /\ \A x : ParentRefs(x)' = ParentRefs(x) /\ InFile(x)' = InFile(x)
  BY <1>1, FileStays
<1>5. \A x : Appliable(x)' = Appliable(x)
  BY <1>1 DEF Appliable, RowStatus
<1>6. \A x, k, y : Linked(x, k, y)' = Linked(x, k, y)
  BY <1>1, <1>4, <1>5 DEF Linked
<1>7. Label(r) \in Labels /\ \A x \in Rows : Label(x) = Label(r) => x = r
  BY <1>3, LabelsAre DEF Clean, Distinct
<1>8. ASSUME NEW i \in DOMAIN order', NEW k \in ParentRefs(order'[i]),
             NEW j \in DOMAIN order', order'[j] = ByRef(Parent(order'[i], k))
      PROVE  j < i
  <2>1. /\ i + 1 \in DOMAIN order /\ order'[i] = order[i + 1]
        /\ j + 1 \in DOMAIN order /\ order'[j] = order[j + 1]
    BY <1>3
  <2>4. k \in ParentRefs(order[i + 1]) /\ order[j + 1] = ByRef(Parent(order[i + 1], k))
    BY <2>1, <1>8
  <2>2. j + 1 < i + 1
    BY <2>1, <2>4 DEF LinkInv
  <2>3. i \in Nat /\ j \in Nat
    BY <1>3
  <2>5. QED
    BY <2>2, <2>3
<1>9. ASSUME NEW x \in Rows, x \notin Left \ {r}, Appliable(x)
      PROVE  /\ made'[Label(x)] = IF decision[x] = "new" THEN x ELSE Man
             /\ decision[x] = "new" => \E p \in person' : p.row = x
  <2>1. CASE x = r
    BY <2>1, <1>1, <1>2, <1>7, <1>9 DEF LineInv
  <2>2. CASE x # r
    <3>1. /\ made[Label(x)] = IF decision[x] = "new" THEN x ELSE Man
          /\ decision[x] = "new" => \E p \in person : p.row = x
      BY <2>2, <1>9 DEF LinkInv
    <3>2. Label(x) # Label(r) /\ person \subseteq person'
      BY <2>2, <1>1, <1>7
    <3>3. made'[Label(x)] = made[Label(x)]
      BY <3>2, <1>1, LabelsAre DEF LineInv
    <3>4. QED
      BY <3>1, <3>2, <3>3
  <2>3. QED
    BY <2>1, <2>2
<1>10. ASSUME NEW k \in InFile(r) PROVE Linked(r, k, IF k = 1 THEN FatherId(r) ELSE MotherId(r))
  <2> DEFINE q == ByRef(Parent(r, k))
  <2>1. k \in {1, 2} /\ Parent(r, k) # Nobody /\ k \in ParentRefs(r)
    BY DEF InFile, ParentRefs
  <2>2. HasRow(Parent(r, k))
    BY <2>1, <1>3, ParentIs DEF FileTyped
  <2>3. q \in Rows /\ Label(q) = Parent(r, k)
    BY <2>2, RowNamed DEF FileTyped
  <2>4. q \notin Left
    <3>1. SUFFICES ASSUME NEW j \in DOMAIN order, order[j] = q PROVE FALSE
      BY DEF Left
    <3>2. j < 1
      BY <3>1, <2>1, <1>3 DEF LinkInv
    <3>3. j \in 1..Len(order) /\ Len(order) \in Nat
      BY DEF FileTyped
    <3>4. QED
      BY <3>2, <3>3
  <2>5. Appliable(q) => made[Parent(r, k)] = IF decision[q] = "new" THEN q ELSE Man
    BY <2>3, <2>4 DEF LinkInv
  <2>6. Appliable(q) => decision[q] \in {"new", "merge"}
    BY <2>3 DEF Appliable, FileTyped, RowDecisions
  <2>7. (IF k = 1 THEN FatherId(r) ELSE MotherId(r)) = made[Parent(r, k)]
    BY <2>1, <1>3, IdsAre
  <2>8. QED
    BY <2>5, <2>6, <2>7 DEF Linked
<1>11. ASSUME NEW p \in person', NEW k \in InFile(p.row)
       PROVE  Linked(p.row, k, IF k = 1 THEN p.father ELSE p.mother)
  <2>1. CASE p \in person
    BY <2>1 DEF LinkInv
  <2>2. CASE p = rec
    BY <2>2, <1>2, <1>10
  <2>3. QED
    BY <2>1, <2>2, <1>1
<1>12. (\A i \in DOMAIN order : \A k \in ParentRefs(order[i]) :
          \A j \in DOMAIN order : order[j] = ByRef(Parent(order[i], k)) => j < i)'
  BY <1>4, <1>8
<1>13. (\A x \in Rows \ Left : Appliable(x) =>
          /\ made[Label(x)] = IF decision[x] = "new" THEN x ELSE Man
          /\ decision[x] = "new" => \E p \in person : p.row = x)'
  BY <1>1, <1>3, <1>4, <1>5, <1>9
<1>14. (\A p \in person : \A k \in InFile(p.row) : Linked(p.row, k, IF k = 1 THEN p.father ELSE p.mother))'
  BY <1>4, <1>6, <1>11
<1>15. QED
  BY <1>12, <1>13, <1>14 DEF LinkInv

\* FatherOf, of any set of persons.
FatherIn(P, m, x) ==
  IF x = Man THEN m
  ELSE IF \E p \in P : p.row = x THEN (CHOOSE p \in P : p.row = x).father
  ELSE Nobody

\* Where rows make one person each, that is the father of that person.
LEMMA FatherInIs ==
  ASSUME NEW P, NEW m, \A p, q \in P : p.row = q.row => p = q, \A p \in P : p.row # Man
  PROVE  FatherIn(P, m, Man) = m /\ \A p \in P : FatherIn(P, m, p.row) = p.father
<1>1. ASSUME NEW p \in P PROVE FatherIn(P, m, p.row) = p.father
  <2>1. (CHOOSE q \in P : q.row = p.row) = p
    <3>1. \A q \in P : q.row = p.row => q = p
      OBVIOUS
    <3>2. QED
      BY <3>1, Zenon
  <2>2. p.row # Man
    OBVIOUS
  <2>3. QED
    BY <2>1, <2>2 DEF FatherIn
<1>2. QED
  BY <1>1 DEF FatherIn

\* Rows are told apart from Man and from nobody.
LEMMA RowsAreNobody ==
  ASSUME FileTyped, NEW r \in Rows PROVE r # Man /\ r # Nobody
BY FilesOK, LabelsAre

\* A new person hangs below one who is there already.
LEMMA CreatingEnds ==
  ASSUME FileTyped, ApplyInv, LineInv, ApplyRow, Appliable(Head(order)), decision[Head(order)] = "new"
  PROVE  LineInv'
<1>0. PICK r \in Rows : r = Head(order)
  <2>1. order # <<>> /\ order' = Tail(order) /\ file' = file
    BY DEF ApplyRow
  <2>2. QED
    BY <2>1, HeadOf
<1> DEFINE fa == FatherId(r)
           rec == [row |-> r, gender |-> CreatedGender(r), father |-> fa, mother |-> MotherId(r)]
<1>1. /\ order # <<>> /\ order' = Tail(order) /\ file' = file
      /\ made' = [made EXCEPT ![Label(r)] = r]
      /\ person' = person \cup {rec} /\ manFather' = manFather
  BY <1>0 DEF ApplyRow
<1>2. rec.row = r /\ rec.father = fa
  OBVIOUS
<1> HIDE DEF rec
<1>3. /\ r \in Rows /\ r \in Left
  BY <1>0, <1>1, HeadOf
<1>4. fa \in Persons \cup {Nobody}
  BY <1>3, IdsAre
<1> HIDE DEF fa
<1>5. r # Man /\ r # Nobody /\ \A p \in person : p.row # Man /\ p.row # r
  BY <1>3, RowsAreNobody DEF ApplyInv
<1>6. Persons' = Persons \cup {r} /\ r \notin Persons
  BY <1>1, <1>2, <1>5 DEF Persons
<1>7. \A p, q \in person : p.row = q.row => p = q
  BY DEF ApplyInv
<1>8. \A p, q \in person' : p.row = q.row => p = q
  BY <1>1, <1>2, <1>5, <1>7
<1>9. /\ FatherIn(person, manFather, Man) = manFather
      /\ \A p \in person : FatherIn(person, manFather, p.row) = p.father
  BY <1>5, <1>7, FatherInIs
<1>10. /\ FatherIn(person', manFather', Man) = manFather'
       /\ \A p \in person' : FatherIn(person', manFather', p.row) = p.father
  <2>1. \A p \in person' : p.row # Man
    BY <1>1, <1>2, <1>5
  <2>2. QED
    BY <2>1, <1>8, FatherInIs
<1>11. \A x : FatherOf(x) = FatherIn(person, manFather, x) /\ FatherOf(x)' = FatherIn(person', manFather', x)
  BY DEF FatherOf, FatherIn
<1>12. \A x \in Persons : FatherOf(x)' = FatherOf(x)
  BY <1>1, <1>9, <1>10, <1>11 DEF Persons
<1>13. FatherOf(r)' = fa
  BY <1>1, <1>2, <1>10, <1>11
<1> DEFINE S == Persons
           f == FatherLine
           g == [x \in Persons \cup {r} |-> FatherOf(x)']
<1>14. FatherLine' = g
  BY <1>6 DEF FatherLine
<1>15. /\ f \in [S -> S \cup {Nobody}] /\ OnLine(S, Nobody, f) /\ Ends(S, Nobody, f)
       /\ \A x \in S : f[x] = FatherOf(x)
  BY DEF LineInv, OnLine, FatherLine
<1>16. /\ g \in [S \cup {r} -> S \cup {r} \cup {Nobody}] /\ \A x \in S : g[x] = f[x]
       /\ g[r] \in S \cup {Nobody}
  <2>1. \A x \in S : FatherOf(x)' = f[x] /\ f[x] \in S \cup {Nobody}
    BY <1>12, <1>15
  <2>2. g[r] = fa /\ \A x \in S : g[x] = FatherOf(x)'
    BY <1>13
  <2>3. DOMAIN g = S \cup {r} /\ g = [x \in S \cup {r} |-> g[x]]
    OBVIOUS
  <2>4. fa \in S \cup {Nobody}
    BY <1>4
  <2> HIDE DEF f, S, g
  <2>5. \A x \in S : g[x] = f[x]
    BY <2>1, <2>2
  <2>6. \A x \in S \cup {r} : g[x] \in S \cup {r} \cup {Nobody}
    BY <2>1, <2>2, <2>4, <2>5
  <2>7. QED
    BY <2>2, <2>3, <2>4, <2>5, <2>6
<1> HIDE DEF g, f
<1>17. OnLine(S \cup {r}, Nobody, g) /\ Ends(S \cup {r}, Nobody, g)
  BY <1>5, <1>6, <1>15, <1>16, GrowingEnds
<1>18. made' \in [Labels -> Persons' \cup {Nobody}]
  BY <1>1, <1>3, <1>6, LabelsAre DEF LineInv
<1>19. IsFiniteSet(person')
  BY <1>1, FS_AddElement DEF LineInv
<1>20. OnLine(Persons', Nobody, FatherLine') /\ Ends(Persons', Nobody, FatherLine')
  BY <1>6, <1>14, <1>17
<1>21. QED
  BY <1>18, <1>19, <1>20 DEF LineInv

\* A merged row may give Man another father, but nobody below himself.
LEMMA MergingEnds ==
  ASSUME FileTyped, ApplyInv, LineInv, phase # "upload", ApplyRow, Appliable(Head(order)),
         decision[Head(order)] # "new"
  PROVE  LineInv'
<1> DEFINE r == Head(order)
           fa == FatherId(r)
<1>1. /\ order # <<>> /\ order' = Tail(order) /\ file' = file
      /\ made' = [made EXCEPT ![Label(r)] = Man]
      /\ person' = person /\ manFather' = IF fa = Nobody THEN manFather ELSE fa
      /\ ~Refused(r)
  BY DEF ApplyRow
<1>2. r \in Rows
  BY <1>1, HeadOf
<1>3. fa \in Persons \cup {Nobody}
  BY <1>2, IdsAre
<1>4. decision[r] = "merge"
  BY <1>2 DEF Appliable, FileTyped, RowDecisions
<1>5. fa \in {Nobody, manFather} \/ Man \notin Line(fa)
  BY <1>1, <1>4 DEF Refused
<1> HIDE DEF r, fa
<1>6. Persons' = Persons /\ Man \in Persons
  BY <1>1 DEF Persons
<1>7. made' \in [Labels -> Persons' \cup {Nobody}]
  BY <1>1, <1>2, <1>6, LabelsAre DEF LineInv
<1>8. \A x : x # Man => FatherOf(x)' = FatherOf(x)
  BY <1>1 DEF FatherOf
<1>9. FatherOf(Man)' = manFather' /\ FatherOf(Man) = manFather
  BY DEF FatherOf
<1>10. OnLine(Persons, Nobody, FatherLine') /\ Ends(Persons, Nobody, FatherLine')
  <2>1. CASE manFather' = manFather
    <3>1. FatherLine' = FatherLine
      BY <2>1, <1>6, <1>8, <1>9 DEF FatherLine
    <3>2. QED
      BY <3>1 DEF LineInv
  <2>2. CASE manFather' # manFather
    <3>1. manFather' = fa /\ fa \in Persons /\ Man \notin Line(fa)
      BY <2>2, <1>1, <1>3, <1>5
    <3> DEFINE S == Persons
               f == FatherLine
               g == [x \in Persons |-> FatherOf(x)']
    <3>2. FatherLine' = g
      BY <1>6 DEF FatherLine
    <3>3. /\ f \in [S -> S \cup {Nobody}] /\ OnLine(S, Nobody, f) /\ Ends(S, Nobody, f)
          /\ \A x \in S : f[x] = FatherOf(x)
      BY DEF LineInv, OnLine, FatherLine
    <3>4. g[Man] = fa
      BY <3>1, <1>6, <1>9
    <3>5. \A x \in S : x # Man => g[x] = f[x]
      BY <3>3, <1>8
    <3>6. \A n \in Nat : Chain(Persons, Nobody, FatherLine, fa)[n] # Man
      <4>1. SUFFICES ASSUME NEW n \in Nat, Chain(Persons, Nobody, FatherLine, fa)[n] = Man PROVE FALSE
        OBVIOUS
      <4>2. \E m \in Nat : Chain(Persons, Nobody, FatherLine, fa)[m] \in {Man}
        BY <4>1
      <4>3. Line(fa) \cap {Man} # {}
        BY <3>1, <4>2, LineIs
      <4>4. QED
        BY <3>1, <4>3
    <3>7. g \in [S -> S \cup {Nobody}]
      <4>1. \A x \in S : g[x] \in S \cup {Nobody}
        BY <1>3, <3>3, <3>4, <3>5
      <4> HIDE DEF S
      <4>2. g = [x \in S |-> g[x]]
        BY DEF S
      <4> HIDE DEF g
      <4>3. QED
        BY <4>1, <4>2
    <3> HIDE DEF g
    <3>8. AgreeOff(S, Man, f, g)
      BY <3>5 DEF AgreeOff
    <3>9. \A n \in Nat : Chain(S, Nobody, f, g[Man])[n] # Man
      BY <3>4, <3>6
    <3> HIDE DEF S, f
    <3>10. Ends(S, Nobody, g)
      BY <3>3, <3>7, <3>8, <3>9, <1>6, HangingEnds DEF S
    <3>11. OnLine(S, Nobody, g)
      BY <3>3, <3>7 DEF OnLine
    <3>12. QED
      BY <3>2, <3>10, <3>11 DEF S
  <2>3. QED
    BY <2>1, <2>2
<1>11. QED
  BY <1>1, <1>6, <1>7, <1>10 DEF LineInv

\* The parts of the invariant that a step leaves alone.
LEMMA CyclesStay == NoHiddenCycle /\ UNCHANGED <<file, errors>> => NoHiddenCycle'
<1> SUFFICES ASSUME NoHiddenCycle, UNCHANGED <<file, errors>> PROVE NoHiddenCycle'
  OBVIOUS
<1>1. Rows' = Rows /\ \A r : ParentRows(r)' = ParentRows(r)
  BY FileStays
<1>2. \A r : Marked(r)' = Marked(r)
  BY DEF Marked
<1>3. QED
  BY <1>1, <1>2 DEF NoHiddenCycle

LEMMA LinesStay == LineInv /\ UNCHANGED <<person, made, manFather>> => LineInv'
<1> SUFFICES ASSUME LineInv, UNCHANGED <<person, made, manFather>> PROVE LineInv'
  OBVIOUS
<1>1. Persons' = Persons /\ \A x : FatherOf(x)' = FatherOf(x)
  BY DEF Persons, FatherOf
<1>2. FatherLine' = FatherLine
  BY <1>1 DEF FatherLine
<1>3. QED
  BY <1>1, <1>2 DEF LineInv

LEMMA LinksStay ==
  ApplyInv /\ (Clean => LinkInv) /\ UNCHANGED <<file, errors, decision, order, made, person>>
    => ApplyInv' /\ (Clean => LinkInv)'
<1> SUFFICES ASSUME ApplyInv, Clean => LinkInv, UNCHANGED <<file, errors, decision, order, made, person>>
             PROVE  ApplyInv' /\ (Clean => LinkInv)'
  OBVIOUS
<1>1. /\ Rows' = Rows /\ \A x : Label(x)' = Label(x)
      /\ \A c : ByRef(c)' = ByRef(c)
      /\ \A x, k : Parent(x, k)' = Parent(x, k)
      /\ \A x : ParentRefs(x)' = ParentRefs(x) /\ InFile(x)' = InFile(x)
      /\ Distinct' = Distinct
  BY FileStays
<1>2. \A x : Appliable(x)' = Appliable(x) /\ Marked(x)' = Marked(x)
  BY DEF Appliable, RowStatus, Marked
<1>3. \A x, k, y : Linked(x, k, y)' = Linked(x, k, y)
  BY <1>1, <1>2 DEF Linked
<1>4. Clean' = Clean /\ Left' = Left
  BY <1>1, <1>2 DEF Clean, Left
<1>5. ApplyInv'
  BY <1>1, <1>4 DEF ApplyInv
<1>6. ASSUME LinkInv PROVE LinkInv'
  <2>1. (\A i \in DOMAIN order : \A k \in ParentRefs(order[i]) :
           \A j \in DOMAIN order : order[j] = ByRef(Parent(order[i], k)) => j < i)'
    BY <1>1, <1>6 DEF LinkInv
  <2>2. (\A x \in Rows \ Left : Appliable(x) =>
           /\ made[Label(x)] = IF decision[x] = "new" THEN x ELSE Man
           /\ decision[x] = "new" => \E p \in person : p.row = x)'
    BY <1>1, <1>2, <1>4, <1>6 DEF LinkInv
  <2>3. (\A p \in person : \A k \in InFile(p.row) : Linked(p.row, k, IF k = 1 THEN p.father ELSE p.mother))'
    BY <1>1, <1>3, <1>6 DEF LinkInv
  <2>4. QED
    BY <2>1, <2>2, <2>3 DEF LinkInv
<1>7. QED
  BY <1>4, <1>5, <1>6

\* The invariant holds before a file is there.
LEMMA FileStarts == Init => FileInv
<1> SUFFICES ASSUME Init PROVE FileInv
  OBVIOUS
<1>1. /\ file = <<>> /\ phase = "upload" /\ path = <<>> /\ order = <<>> /\ seen = {}
      /\ colour = [l \in Labels |-> "white"] /\ made = [l \in Labels |-> Nobody]
      /\ person = {} /\ manFather = Nobody
  BY DEF Init
<1>2. FileTyped
  BY <1>1 DEF FileTyped, FilePhases
<1>3. Untouched
  BY <1>1 DEF Untouched
<1>4. LineInv
  <2>1. Persons = {Man} /\ FatherLine = [x \in {Man} |-> Nobody]
    BY <1>1 DEF Persons, FatherLine, FatherOf
  <2>2. OnLine(Persons, Nobody, FatherLine)
    BY <2>1, FilesOK DEF OnLine
  <2>3. Chain(Persons, Nobody, FatherLine, Man)[1] = Nobody
    <3>1. /\ Chain(Persons, Nobody, FatherLine, Man)[0] = Man
          /\ Chain(Persons, Nobody, FatherLine, Man)[0 + 1]
               = Along(Persons, Nobody, FatherLine, Chain(Persons, Nobody, FatherLine, Man)[0])
      BY ChainEquation
    <3>2. QED
      BY <2>1, <3>1 DEF Along
  <2>4. Ends(Persons, Nobody, FatherLine)
    BY <2>1, <2>3 DEF Ends
  <2>5. QED
    BY <1>1, <2>2, <2>4, FS_EmptySet DEF LineInv
<1>5. QED
  BY <1>1, <1>2, <1>3, <1>4 DEF FileInv, Applying, Searching

\* The invariant says of each phase what the property asks.
LEMMA FileInvSays == FileInv => FilesAreLinked
<1> SUFFICES ASSUME FileInv PROVE FilesAreLinked
  OBVIOUS
<1>1. CyclesAreReported
  BY DEF FileInv, Searching, NoHiddenCycle, CyclesAreReported
<1>2. ASSUME phase = "published", Distinct, \A r \in Rows : ~Marked(r), NEW r \in Rows
      PROVE  LET of == {p \in person : p.row = r}
                 Expected(i) == LET q == ByRef(Parent(r, i))
                                IN IF decision[q] = "merge" THEN Man ELSE q
             IN /\ Appliable(r) /\ decision[r] = "new" => Cardinality(of) = 1
                /\ \A p \in of, i \in InFile(r) :
                     Appliable(ByRef(Parent(r, i))) =>
                       (IF i = 1 THEN p.father ELSE p.mother) = Expected(i)
  <2> DEFINE of == {p \in person : p.row = r}
  <2>1. ApplyInv /\ LinkInv /\ order = <<>>
    BY <1>2 DEF FileInv, Applying, Clean, Untouched
  <2>2. r \notin Left
    BY <2>1 DEF Left
  <2>3. ASSUME Appliable(r), decision[r] = "new" PROVE Cardinality(of) = 1
    <3>1. PICK p \in person : p.row = r
      BY <2>1, <2>2, <2>3 DEF LinkInv
    <3>2. of = {p}
      BY <2>1, <3>1 DEF ApplyInv
    <3> HIDE DEF of
    <3>3. QED
      BY <3>2, FS_Singleton
  <2>4. \A p \in of, i \in InFile(r) : Linked(r, i, IF i = 1 THEN p.father ELSE p.mother)
    BY <2>1 DEF LinkInv
  <2>5. QED
    BY <2>3, <2>4 DEF Linked
<1>3. LinesOfFathersEnd
  <2> SUFFICES ASSUME NEW x \in Persons PROVE Nobody \in Line(x)
    BY DEF LinesOfFathersEnd, Persons
  <2>1. LineInv
    BY DEF FileInv
  <2>2. \E n \in Nat : Chain(Persons, Nobody, FatherLine, x)[n] \in {Nobody}
    BY <2>1 DEF LineInv, Ends
  <2>3. Line(x) \cap {Nobody} # {}
    BY <2>1, <2>2, LineIs
  <2>4. QED
    BY <2>3
<1>4. QED
  BY <1>1, <1>2, <1>3 DEF FilesAreLinked, RowsAreLinked

\* The stack stays a stack of calls.
LEMMA PathStaysTyped ==
  ASSUME FileTyped, StartVisit \/ FollowParent \/ EndVisit
  PROVE  /\ path' \in Seq([row : Rows, next : 1..3])
         /\ colour' \in [Labels -> {"white", "grey", "black"}]
<1>1. path \in Seq(OnStack) /\ colour \in [Labels -> {"white", "grey", "black"}] /\ file \in Seq(Row)
  BY DEF FileTyped, OnStack
<1>2. ASSUME NEW s \in Seq(OnStack), NEW q \in Rows PROVE Append(s, [row |-> q, next |-> 1]) \in Seq(OnStack)
  <2>1. [row |-> q, next |-> 1] \in OnStack
    BY DEF OnStack
  <2>2. QED
    BY <2>1
<1>3. ASSUME StartVisit PROVE path' \in Seq(OnStack) /\ colour' \in [Labels -> {"white", "grey", "black"}]
  <2> DEFINE white == {r \in Rows : colour[Label(r)] = "white"}
  <2>1. white \subseteq Nat /\ white # {}
    BY <1>3, LabelsAre DEF StartVisit
  <2>2. Min(white) \in white
    <3> HIDE DEF white
    <3>1. QED
      BY <2>1, MinOf
  <2>3. /\ path' = Append(path, [row |-> Min(white), next |-> 1])
        /\ colour' = [colour EXCEPT ![Label(Min(white))] = "grey"]
    BY <1>3 DEF StartVisit, Visit
  <2>4. Min(white) \in Rows
    BY <2>2
  <2> HIDE DEF white
  <2>5. QED
    BY <2>3, <2>4, <1>1, <1>2
<1>4. ASSUME FollowParent PROVE path' \in Seq(OnStack) /\ colour' \in [Labels -> {"white", "grey", "black"}]
  <2> DEFINE p == Parent(Top.row, Top.next)
  <2>1. /\ path # <<>> /\ Top.next <= 2
        /\ \/ p # Nobody /\ path' = Append(Skip, [row |-> ByRef(p), next |-> 1])
                /\ colour' = [colour EXCEPT ![p] = "grey"]
           \/ path' = Skip /\ colour' = colour
    BY <1>4 DEF FollowParent
  <2>2. Skip \in Seq(OnStack) /\ Top.row \in Rows
    BY <2>1, Skipped, TopOf
  <2>3. p # Nobody => ByRef(p) \in Rows
    BY <1>1, <2>2, ParentIs, RowNamed
  <2> HIDE DEF p
  <2>4. QED
    BY <2>1, <2>2, <2>3, <1>1, <1>2
<1>5. ASSUME EndVisit PROVE path' \in Seq(OnStack) /\ colour' \in [Labels -> {"white", "grey", "black"}]
  <2>1. /\ path # <<>> /\ path' = SubSeq(path, 1, Len(path) - 1)
        /\ colour' = [colour EXCEPT ![Label(Top.row)] = "black"]
    BY <1>5 DEF EndVisit
  <2>2. Len(path) \in Nat /\ Len(path) # 0
    BY <1>1, <2>1
  <2>3. path' \in Seq(OnStack)
    BY <1>1, <2>1, <2>2
  <2>4. QED
    BY <1>1, <2>1, <2>3
<1>6. QED
  BY <1>3, <1>4, <1>5 DEF OnStack

\* The steps of the search.
LEMMA SearchStepKeeps ==
  ASSUME FileInv, StartVisit \/ FollowParent \/ EndVisit PROVE FileInv'
<1>1. /\ phase = "cycles" /\ phase' = "cycles"
      /\ UNCHANGED <<file, errors, decision, indegree, free, seen, order, made, person, manFather>>
  BY DEF StartVisit, FollowParent, EndVisit, CyclesUnchanged
<1>2. FileTyped /\ Untouched /\ LineInv /\ (Distinct => SearchInv)
  BY <1>1 DEF FileInv
<1>3. Rows' = Rows /\ Distinct' = Distinct
  BY <1>1, FileStays
<1>4. FileTyped'
  <2>1. path' \in Seq([row : Rows, next : 1..3]) /\ colour' \in [Labels -> {"white", "grey", "black"}]
    BY <1>2, PathStaysTyped
  <2>2. QED
    BY <2>1, <1>1, <1>2, <1>3 DEF FileTyped
<1>5. Untouched'
  BY <1>1, <1>2 DEF Untouched
<1>6. Distinct => SearchInv'
  <2> SUFFICES ASSUME Distinct PROVE SearchInv'
    OBVIOUS
  <2>1. CASE StartVisit
    BY <2>1, <1>2, StartVisitKeeps
  <2>2. CASE FollowParent
    BY <2>2, <1>2, FollowWhiteKeeps, FollowOtherKeeps
  <2>3. CASE EndVisit
    BY <2>3, <1>2, EndVisitKeeps
  <2>4. QED
    BY <2>1, <2>2, <2>3
<1>7. LineInv'
  BY <1>1, <1>2, LinesStay
<1>8. QED
  BY <1>1, <1>3, <1>4, <1>5, <1>6, <1>7 DEF FileInv, Searching, Applying

\* Before the search nothing has been looked at.
LEMMA ReadingKeeps ==
  ASSUME FileInv, Upload \/ ParseAndValidate \/ Resolve PROVE FileInv'
<1>1. /\ phase \in {"upload", "validate", "resolve"} /\ phase' \in {"validate", "resolve", "cycles"}
      /\ UNCHANGED <<colour, path, cyclic, indegree, free, seen, order, made, person, manFather>>
      /\ file' \in Seq(Row) /\ DOMAIN errors' = DOMAIN file'
      /\ decision' \in [DOMAIN file' -> RowDecisions]
  <2>1. ASSUME Upload PROVE file' \in Seq(Row) /\ DOMAIN errors' = DOMAIN file' /\ decision' \in [DOMAIN file' -> RowDecisions]
    BY <2>1, FilesOK DEF Upload, RowDecisions
  <2>2. ASSUME ParseAndValidate \/ Resolve
        PROVE  file' \in Seq(Row) /\ DOMAIN errors' = DOMAIN file' /\ decision' \in [DOMAIN file' -> RowDecisions]
    BY <2>2 DEF ParseAndValidate, Resolve, FileInv, FileTyped, Rows
  <2>3. QED
    BY <2>1, <2>2 DEF Upload, ParseAndValidate, Resolve
<1>2. FileTyped /\ Untouched /\ LineInv
  BY DEF FileInv
<1>3. path = <<>> /\ order = <<>> /\ \A l \in Labels : colour[l] = "white"
  BY <1>1, <1>2 DEF Untouched
<1>4. FileTyped'
  BY <1>1, <1>2, <1>3 DEF FileTyped, FilePhases, Rows
<1>5. Untouched'
  BY <1>1, <1>2, <1>3 DEF Untouched
<1>6. SearchInv'
  <2>1. DOMAIN path' = {} /\ \A l \in Labels : colour'[l] = "white"
    BY <1>1, <1>3
  <2>2. \A r \in Rows' : Label(r)' \in Labels
    <3>1. \A r \in Rows' : file'[r] \in Row
      BY <1>1 DEF Rows
    <3>2. \A x \in Row : x.label \in Labels
      BY DEF Row
    <3>3. QED
      BY <3>1, <3>2 DEF Label
  <2>3. \A r \in Rows' : colour'[Label(r)'] = "white"
    BY <2>1, <2>2
  <2>4. (\A S \in SUBSET {r \in Rows : colour[Label(r)] = "black" /\ Label(r) \notin cyclic} :
           S # {} => \E r \in S : ParentRows(r) \cap S = {})'
    BY <2>3
  <2>5. QED
    BY <2>1, <2>3, <2>4 DEF SearchInv
<1>7. LineInv'
  BY <1>1, <1>2, LinesStay
<1>8. QED
  BY <1>1, <1>4, <1>5, <1>6, <1>7 DEF FileInv, Searching, Applying

\* The preview.
LEMMA MarkingKeeps == ASSUME FileInv, MarkCycles PROVE FileInv'
<1>1. /\ phase = "cycles" /\ phase' = "preview" /\ DOMAIN errors' = Rows
      /\ UNCHANGED <<file, colour, path, cyclic, decision, indegree, free, seen, order, made, person, manFather>>
  BY DEF MarkCycles
<1>2. FileTyped /\ Untouched /\ LineInv /\ (Distinct => SearchInv)
  BY <1>1 DEF FileInv
<1>3. Rows' = Rows /\ Distinct' = Distinct
  BY <1>1, FileStays
<1>4. FileTyped'
  BY <1>1, <1>2, <1>3 DEF FileTyped, FilePhases
<1>5. Untouched'
  BY <1>1, <1>2 DEF Untouched
<1>6. LineInv'
  BY <1>1, <1>2, LinesStay
<1>7. Distinct => NoHiddenCycle'
  BY <1>2, MarkCyclesReports
<1>8. QED
  BY <1>1, <1>3, <1>4, <1>5, <1>6, <1>7 DEF FileInv, Applying

\* The approval.
LEMMA ApprovingKeeps ==
  ASSUME FileInv, NEW r \in Rows, NEW d \in RowDecisions, Approve(r, d) PROVE FileInv'
<1>1. /\ phase = "preview" /\ phase' = "sort" /\ decision' = [decision EXCEPT ![r] = d]
      /\ UNCHANGED <<file, errors, colour, path, cyclic, seen, order, made, person, manFather>>
  BY DEF Approve
<1>2. FileTyped /\ Untouched /\ LineInv /\ (Distinct => NoHiddenCycle)
  BY <1>1 DEF FileInv, Searching
<1>3. Rows' = Rows /\ Distinct' = Distinct
  BY <1>1, FileStays
<1>4. FileTyped'
  BY <1>1, <1>2, <1>3 DEF FileTyped, FilePhases
<1>5. Untouched'
  BY <1>1, <1>2 DEF Untouched
<1>6. LineInv'
  BY <1>1, <1>2, LinesStay
<1>7. SortInv'
  BY <1>2, ApproveSorts
<1>8. Distinct => NoHiddenCycle'
  BY <1>1, <1>2, CyclesStay
<1>9. QED
  BY <1>1, <1>3, <1>4, <1>5, <1>6, <1>7, <1>8 DEF FileInv, Applying

\* The sort.
LEMMA TakingKeeps == ASSUME FileInv, NEW l \in Labels, TakeFree(l) PROVE FileInv'
<1>1. /\ phase = "sort" /\ phase' = "sort" /\ order' = Append(order, ByRef(l)) /\ l \in free
      /\ UNCHANGED <<file, errors, colour, path, cyclic, decision, made, person, manFather>>
  BY DEF TakeFree
<1>2. FileTyped /\ Untouched /\ LineInv /\ SortInv /\ (Distinct => NoHiddenCycle)
  BY <1>1 DEF FileInv, Searching
<1>3. Rows' = Rows /\ Distinct' = Distinct
  BY <1>1, FileStays
<1>4. ByRef(l) \in Rows
  BY <1>1, <1>2, RowNamed DEF SortInv, FileTyped
<1>5. order' \in Seq(Rows)
  BY <1>1, <1>2, <1>4 DEF FileTyped
<1>6. FileTyped'
  BY <1>1, <1>2, <1>3, <1>5 DEF FileTyped
<1>7. Untouched'
  BY <1>1, <1>2 DEF Untouched
<1>8. LineInv'
  BY <1>1, <1>2, LinesStay
<1>9. SortInv'
  BY <1>2, TakeFreeSorts
<1>10. Distinct => NoHiddenCycle'
  BY <1>1, <1>2, CyclesStay
<1>11. QED
  BY <1>1, <1>3, <1>6, <1>7, <1>8, <1>9, <1>10 DEF FileInv, Applying

\* The end of the sort: applying begins.
LEMMA AppendingKeeps == ASSUME FileInv, AppendResidue PROVE FileInv'
<1>1. /\ phase = "sort" /\ phase' = "apply"
      /\ UNCHANGED <<file, errors, colour, path, cyclic, decision, seen, made, person, manFather>>
  BY DEF AppendResidue
<1>2. FileTyped /\ Untouched /\ LineInv /\ SortInv /\ (Distinct => NoHiddenCycle)
  BY <1>1 DEF FileInv, Searching
<1>3. Rows' = Rows /\ Distinct' = Distinct
  BY <1>1, FileStays
<1>4. order' \in Seq(Rows) /\ ApplyInv' /\ (Clean => LinkInv)'
  BY <1>2, ResidueAppends
<1>5. FileTyped'
  BY <1>1, <1>2, <1>3, <1>4 DEF FileTyped, FilePhases
<1>6. Untouched'
  BY <1>1, <1>2 DEF Untouched
<1>7. LineInv'
  BY <1>1, <1>2, LinesStay
<1>8. Distinct => NoHiddenCycle'
  BY <1>1, <1>2, CyclesStay
<1>9. QED
  BY <1>1, <1>3, <1>4, <1>5, <1>6, <1>7, <1>8 DEF FileInv

\* Applying one row.
LEMMA ApplyingKeeps == ASSUME FileInv, ApplyRow PROVE FileInv'
<1>1. /\ phase = "apply" /\ phase' = "apply" /\ order # <<>> /\ order' = Tail(order)
      /\ UNCHANGED <<file, errors, colour, path, cyclic, decision, seen>>
  BY DEF ApplyRow
<1>2. /\ FileTyped /\ Untouched /\ LineInv /\ ApplyInv /\ (Clean => LinkInv)
      /\ (Distinct => NoHiddenCycle)
  BY <1>1 DEF FileInv, Searching, Applying
<1>3. Rows' = Rows /\ Distinct' = Distinct
  BY <1>1, FileStays
<1>4. order' \in Seq(Rows)
  BY <1>1, <1>2, HeadOf
<1>5. FileTyped'
  BY <1>1, <1>2, <1>3, <1>4 DEF FileTyped
<1>6. Untouched'
  BY <1>1, <1>2 DEF Untouched
<1>7. LineInv'
  <2>1. CASE Appliable(Head(order)) /\ decision[Head(order)] = "new"
    BY <2>1, <1>2, CreatingEnds
  <2>2. CASE Appliable(Head(order)) /\ decision[Head(order)] # "new"
    BY <2>2, <1>1, <1>2, MergingEnds
  <2>3. CASE ~Appliable(Head(order))
    <3>1. UNCHANGED <<person, made, manFather>>
      BY <2>3 DEF ApplyRow
    <3>2. QED
      BY <3>1, <1>2, LinesStay
  <2>4. QED
    BY <2>1, <2>2, <2>3
<1>8. ApplyInv'
  BY <1>2, ApplyKeepsOrder
<1>9. (Clean => LinkInv)'
  <2>1. Clean' => Clean
    <3>1. \A r : Marked(r)' = Marked(r)
      BY <1>1 DEF Marked
    <3>2. QED
      BY <3>1, <1>3 DEF Clean
  <2>2. Clean => LinkInv'
    BY <1>1, <1>2, ApplyKeepsLinks
  <2>3. QED
    BY <2>1, <2>2
<1>10. Distinct => NoHiddenCycle'
  BY <1>1, <1>2, CyclesStay
<1>11. QED
  BY <1>1, <1>3, <1>5, <1>6, <1>7, <1>8, <1>9, <1>10 DEF FileInv

\* The end of the file.
LEMMA EndingKeeps == ASSUME FileInv, ApplyThrows \/ Publish PROVE FileInv'
<1>1. /\ phase = "apply" /\ phase' \in {"thrown", "published"} /\ (phase' = "published" => order = <<>>)
      /\ UNCHANGED <<file, errors, colour, path, cyclic, decision, indegree, free, seen, order, made,
                     person, manFather>>
  BY DEF ApplyThrows, Publish
<1>2. /\ FileTyped /\ Untouched /\ LineInv /\ ApplyInv /\ (Clean => LinkInv)
      /\ (Distinct => NoHiddenCycle)
  BY <1>1 DEF FileInv, Searching, Applying
<1>3. Rows' = Rows /\ Distinct' = Distinct
  BY <1>1, FileStays
<1>4. FileTyped'
  BY <1>1, <1>2, <1>3 DEF FileTyped, FilePhases
<1>5. Untouched'
  BY <1>1, <1>2 DEF Untouched
<1>6. LineInv'
  BY <1>1, <1>2, LinesStay
<1>7. ApplyInv' /\ (Clean => LinkInv)'
  BY <1>1, <1>2, LinksStay
<1>8. Distinct => NoHiddenCycle'
  BY <1>1, <1>2, CyclesStay
<1>9. QED
  BY <1>1, <1>3, <1>4, <1>5, <1>6, <1>7, <1>8 DEF FileInv

\* A step of others changes nothing of it.
LEMMA FileInvStutters == FileInv /\ UNCHANGED fileVars => FileInv'
<1> SUFFICES ASSUME FileInv, UNCHANGED fileVars PROVE FileInv'
  OBVIOUS
<1>1. /\ UNCHANGED <<file, phase, errors, colour, path, cyclic, decision, indegree>>
      /\ UNCHANGED <<free, seen, order, made, person, manFather>>
  BY DEF fileVars
<1>2. /\ Rows' = Rows /\ \A r : Label(r)' = Label(r)
      /\ \A l : HasRow(l)' = HasRow(l) /\ ByRef(l)' = ByRef(l)
      /\ \A r, k : Parent(r, k)' = Parent(r, k)
      /\ \A r : ParentRows(r)' = ParentRows(r) /\ ParentRefs(r)' = ParentRefs(r)
      /\ \A p, c : Edges(p, c)' = Edges(p, c)
      /\ Distinct' = Distinct
  BY <1>1, FileStays
<1>3. FileTyped' /\ Untouched'
  <2>1. FileTyped /\ Untouched
    BY DEF FileInv
  <2>2. FileTyped'
    BY <2>1, <1>1, <1>2 DEF FileTyped
  <2>3. Untouched'
    BY <2>1, <1>1 DEF Untouched
  <2>4. QED
    BY <2>2, <2>3
<1>4. SearchInv => SearchInv'
  <2>1. \A r, k : Settled(r, k)' = Settled(r, k)
    BY <1>1, <1>2 DEF Settled
  <2>2. QED
    BY <2>1, <1>1, <1>2 DEF SearchInv
<1>5. NoHiddenCycle => NoHiddenCycle'
  BY <1>1, CyclesStay
<1>6. SortInv => SortInv'
  <2>1. \A c : Pending(c)' = Pending(c)
    BY <1>1, <1>2 DEF Pending
  <2>2. QED
    BY <2>1, <1>1, <1>2 DEF SortInv
<1>7. ApplyInv /\ (Clean => LinkInv) => ApplyInv' /\ (Clean => LinkInv)'
  BY <1>1, LinksStay
<1>8. LineInv'
  BY <1>1, LinesStay DEF FileInv
<1>9. QED
  BY <1>1, <1>2, <1>3, <1>4, <1>5, <1>6, <1>7, <1>8 DEF FileInv, Searching, Applying

LEMMA FileStepKeeps == FileInv /\ [Next]_fileVars => FileInv'
<1> SUFFICES ASSUME FileInv, [Next]_fileVars PROVE FileInv'
  OBVIOUS
<1>1. CASE UNCHANGED fileVars
  BY <1>1, FileInvStutters
<1>2. CASE Upload \/ ParseAndValidate \/ Resolve
  BY <1>2, ReadingKeeps
<1>3. CASE StartVisit \/ FollowParent \/ EndVisit
  BY <1>3, SearchStepKeeps
<1>4. CASE MarkCycles
  BY <1>4, MarkingKeeps
<1>5. CASE \E r \in Rows, d \in {"new", "merge", "ignore"} : Approve(r, d)
  BY <1>5, ApprovingKeeps DEF RowDecisions
<1>6. CASE \E l \in Labels : TakeFree(l)
  BY <1>6, TakingKeeps
<1>7. CASE AppendResidue
  BY <1>7, AppendingKeeps
<1>8. CASE ApplyRow
  BY <1>8, ApplyingKeeps
<1>9. CASE ApplyThrows \/ Publish
  BY <1>9, EndingKeeps
<1>10. QED
  BY <1>1, <1>2, <1>3, <1>4, <1>5, <1>6, <1>7, <1>8, <1>9 DEF Next, Handle

\* import-parse.service and import-apply.service: for every file, the search
\* marks a row of every cycle, a file of which no row is marked is created with
\* every link its rows name, and no line of fathers is closed.
THEOREM ImportedFilesAreLinked == Spec => []FilesAreLinked
<1>1. FileInv /\ [Next]_fileVars => FileInv'
  BY FileStepKeeps
<1>2. Spec => []FileInv
  BY FileStarts, <1>1, PTL DEF Spec
<1>3. QED
  BY <1>2, FileInvSays, PTL
=============================================================================
