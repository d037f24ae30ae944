------------------------------ MODULE PushDevices ------------------------------
(***************************************************************************)
(* The push token of one device: registered at login, when the tribe is    *)
(* switched and when the token changes, removed at logout and when FCM     *)
(* calls it dead (push_service.dart, auth_controller.dart, modules/devices,*)
(* fcm.channel.ts).  device_registrations holds one row per token, and     *)
(* row-level security hides the rows of other tribes.                      *)
(***************************************************************************)
EXTENDS Integers, FiniteSets

CONSTANTS
  Accounts,  \* pairs <<user, tribe>> that sign in on the device
  NoAccount,
  MaxTokens, \* bound: tokens FCM has given the device
  MaxCalls   \* bound: calls of the client under way

ASSUME DeviceConstantsOK == NoAccount \notin Accounts /\ MaxTokens \in Nat \ {0}

VARIABLES
  session,  \* account signed in
  token,    \* the device's token at FCM
  last,     \* _lastToken, 0 for null
  pending,  \* calls to the server under way: registrations and removals
  rows,     \* device_registrations: token |-> account
  push,     \* FCM channel: account, tokens listed, tokens to prune
  leaving,  \* logout waits for the answer to its removal
  spoiled   \* something happened that the code does not repair

deviceVars == <<session, token, last, pending, rows, push, leaving, spoiled>>

Tokens == 1..MaxTokens
NoPush == [pc |-> "idle", to |-> NoAccount, listed |-> {}, dead |-> {}]
Call(op, t, a) == [op |-> op, token |-> t, as |-> a]

DeviceInit ==
  /\ session = NoAccount /\ token = 1 /\ last = 0
  /\ pending = {} /\ rows = [t \in Tokens |-> NoAccount]
  /\ push = NoPush /\ leaving = FALSE /\ spoiled = FALSE

Send(c) == Cardinality(pending) < MaxCalls /\ pending' = pending \cup {c}

-----------------------------------------------------------------------------
(* The device *)

\* login and switchTenant, with registerForCurrentUser.  A token that is
\* registered for another tribe cannot be registered for this one.
SignIn(a) ==
  /\ ~leaving /\ a # session
  /\ session' = a
  /\ last' = token
  /\ Send(Call("register", token, a))
  /\ spoiled' = (spoiled \/ session # NoAccount \/ pending # {})
  /\ UNCHANGED <<token, rows, push, leaving>>

\* onTokenRefresh; nobody waits for the registration, and it is refused when
\* nobody is signed in.  The row of the old token stays until FCM reports it.
TokenRefresh ==
  /\ token < MaxTokens
  /\ token' = token + 1 /\ last' = token'
  /\ IF session = NoAccount THEN UNCHANGED pending
     ELSE Send(Call("register", token', session))
  /\ spoiled' = (spoiled \/ leaving)
  /\ UNCHANGED <<session, rows, push, leaving>>

\* Mutant: the session is cleared before the token is deregistered.
Logout_ClearsFirst ==
  /\ session # NoAccount /\ ~leaving
  /\ last' = 0 /\ session' = NoAccount
  /\ IF last = 0 THEN UNCHANGED pending ELSE Send(Call("remove", last, NoAccount))
  /\ spoiled' = (spoiled \/ pending # {} \/ last = 0)
  /\ UNCHANGED <<token, rows, push, leaving>>

\* logout: without a _lastToken, as after a restart, nothing is removed; a
\* registration still under way may arrive after the removal.
Logout ==
  /\ session # NoAccount /\ ~leaving
  /\ IF last = 0 THEN UNCHANGED <<pending, leaving>> /\ session' = NoAccount
     ELSE /\ Send(Call("remove", last, session)) /\ leaving' = TRUE
          /\ UNCHANGED session
  /\ spoiled' = (spoiled \/ pending # {} \/ last = 0)
  /\ UNCHANGED <<token, last, rows, push>>

\* The removal has been answered or has failed.
ClearSession ==
  /\ leaving /\ \A c \in pending : c.op # "remove"
  /\ session' = NoAccount /\ leaving' = FALSE /\ last' = 0
  /\ UNCHANGED <<token, pending, rows, push, spoiled>>

\* handleSessionExpired
Expire ==
  /\ session # NoAccount /\ ~leaving
  /\ session' = NoAccount /\ spoiled' = TRUE
  /\ UNCHANGED <<token, last, pending, rows, push, leaving>>

\* The tokens of the session survive a restart of the app, _lastToken does not.
RestartApp ==
  /\ ~leaving /\ pending = {} /\ last # 0 /\ last' = 0
  /\ UNCHANGED <<session, token, pending, rows, push, leaving, spoiled>>

-----------------------------------------------------------------------------
(* The server *)

\* A row of another tribe is not seen and blocks the insert.
Visible(t, a) == rows[t] # NoAccount /\ rows[t][2] = a[2]

\* upsertByToken
Register(c) ==
  /\ c.op = "register" /\ pending' = pending \ {c}
  /\ rows' = IF rows[c.token] = NoAccount \/ Visible(c.token, c.as)
              THEN [rows EXCEPT ![c.token] = c.as] ELSE rows
  /\ UNCHANGED <<session, token, last, push, leaving, spoiled>>

\* deleteOwnToken
Remove(c) ==
  /\ c.op = "remove" /\ pending' = pending \ {c}
  /\ rows' = IF rows[c.token] = c.as THEN [rows EXCEPT ![c.token] = NoAccount] ELSE rows
  /\ UNCHANGED <<session, token, last, push, leaving, spoiled>>

\* Failures are logged and forgotten.
CallFails(c) ==
  /\ pending' = pending \ {c} /\ spoiled' = TRUE
  /\ UNCHANGED <<session, token, last, rows, push, leaving>>

\* FcmNotificationChannel.deliver lists the tokens, sends, and prunes; outside
\* of a request of the tribe it finds none.
ListTokens(a) ==
  /\ push.pc = "idle" /\ \E t \in Tokens : rows[t] = a
  /\ push' = [NoPush EXCEPT !.pc = "send", !.to = a,
                            !.listed = {t \in Tokens : rows[t] = a}]
  /\ UNCHANGED <<session, token, last, pending, rows, leaving, spoiled>>

\* A token that the device no longer has is reported; so is every token when
\* the message itself is refused (messaging/invalid-argument).
FcmSend(refused) ==
  /\ push.pc = "send"
  /\ push' = [push EXCEPT !.pc = "prune",
                !.dead = IF refused THEN push.listed ELSE push.listed \ {token}]
  /\ spoiled' = (spoiled \/ refused)
  /\ UNCHANGED <<session, token, last, pending, rows, leaving>>

\* deleteByTokens, whoever the tokens belong to by now.
Prune ==
  /\ push.pc = "prune"
  /\ rows' = [t \in Tokens |-> IF t \in push.dead /\ rows[t] # NoAccount
                                   /\ rows[t][2] = push.to[2]
                                THEN NoAccount ELSE rows[t]]
  /\ push' = NoPush
  /\ UNCHANGED <<session, token, last, pending, leaving, spoiled>>

DeviceNext ==
  \/ \E a \in Accounts : SignIn(a) \/ ListTokens(a)
  \/ TokenRefresh \/ Logout \/ ClearSession \/ Expire \/ RestartApp
  \/ \E c \in pending : Register(c) \/ Remove(c) \/ CallFails(c)
  \/ (\E refused \in BOOLEAN : FcmSend(refused)) \/ Prune

DeviceSpec == DeviceInit /\ [][DeviceNext]_deviceVars

-----------------------------------------------------------------------------
\* As long as no call failed, no message was refused, no session expired, no
\* tribe was switched and no logout came after a restart or overtook a
\* registration, the row of the device's token is that of the account signed
\* in: a logout followed by somebody else's login leaves no push behind.
RowFollowsSession ==
  pending = {} /\ ~leaving /\ ~spoiled => rows[token] = session
=============================================================================
