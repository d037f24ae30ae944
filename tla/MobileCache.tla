------------------------------ MODULE MobileCache ------------------------------
(***************************************************************************)
(* The offline cache of the mobile client (core/db/cache_database.dart) as *)
(* the repositories fill it (person_repository.dart, tree_repository.dart) *)
(* and auth_controller.dart empties it.  A load reads the scope it will    *)
(* write to before it awaits, and its request carries whatever tokens are  *)
(* stored when it is sent; signing in, switching and signing out change    *)
(* tokens, cache and state one await after another.                        *)
(***************************************************************************)
EXTENDS Integers, FiniteSets

CONSTANTS
  Members,   \* pairs <<user, tribe>> that may sign in on the device
  NoMember,
  MaxLoads,  \* bound: cards being loaded at once
  MaxSwaps   \* bound: sign-ins, switches, sign-outs and restarts

VARIABLES
  stored,       \* whose tokens are in the key store
  activeTenant, \* state.activeTenant, NoTenant for none
  signedIn,     \* state.status = authenticated
  authStep,     \* the change of session under way and how far it is
  entries,      \* rows of cache_entries, for one key
  loads,        \* loadCard calls under way
  card,         \* whose card the screen shows
  swaps         \* counter behind MaxSwaps

cacheVars == <<stored, activeTenant, signedIn, authStep, entries, loads, card, swaps>>

NoTenant == ""
User(m) == m[1]
Tenant(m) == IF m = NoMember THEN NoTenant ELSE m[2]

ASSUME MembersOK ==
  /\ MaxLoads \in Nat /\ NoMember \notin Members
  /\ \A m \in Members : Tenant(m) # NoTenant

NoStep == [pc |-> "none", to |-> NoMember, from |-> NoTenant]
\* sure: no change of session began or was under way during the load, and the
\* application has not been restarted since.
NoLoad == [pc |-> "none", scope |-> NoTenant, got |-> NoMember, live |-> FALSE, sure |-> TRUE]

CacheInit ==
  /\ stored = NoMember /\ activeTenant = NoTenant /\ signedIn = FALSE
  /\ authStep = NoStep /\ entries = {}
  /\ loads = [i \in 1..MaxLoads |-> NoLoad]
  /\ card = NoMember /\ swaps = 0

\* Mutant: nothing is removed.
clearScope_Skipped(scope) == UNCHANGED entries

clearScope(scope) == entries' = {e \in entries : e.scope # scope}

-----------------------------------------------------------------------------
(* auth_controller.dart *)

Begin(step) ==
  /\ authStep = NoStep /\ authStep' = step
  /\ swaps < MaxSwaps /\ swaps' = swaps + 1
  /\ loads' = [i \in 1..MaxLoads |-> [loads[i] EXCEPT !.sure = FALSE]]
  /\ UNCHANGED <<stored, activeTenant, signedIn, entries, card>>

\* The server has answered the login; a wrong password changes nothing.
login(m) == ~signedIn /\ Begin([pc |-> "tokens", to |-> m, from |-> NoTenant])
switchTenant(m) ==
  /\ signedIn /\ activeTenant # NoTenant
  /\ User(m) = User(stored) /\ Tenant(m) # activeTenant
  /\ Begin([pc |-> "tokens", to |-> m, from |-> activeTenant])

\* logout, and the refusal of a refresh; _clearSession looks up the tribe first.
clearSession ==
  signedIn /\ Begin([pc |-> "tokens", to |-> NoMember, from |-> activeTenant])

WriteTokens ==
  /\ authStep.pc = "tokens" /\ stored' = authStep.to
  /\ authStep' = [authStep EXCEPT !.pc = IF @ = "tokens" /\ authStep.from # NoTenant
                                         THEN "clear" ELSE "state"]
  /\ UNCHANGED <<activeTenant, signedIn, entries, loads, card, swaps>>

ClearPrevious ==
  /\ authStep.pc = "clear" /\ clearScope(authStep.from)
  /\ authStep' = [authStep EXCEPT !.pc = "state"]
  /\ UNCHANGED <<stored, activeTenant, signedIn, loads, card, swaps>>

\* The new state; what watches the active tribe is built again, and a load that
\* an earlier build began is not shown.
SetState ==
  /\ authStep.pc = "state" /\ authStep' = NoStep
  /\ activeTenant' = Tenant(authStep.to) /\ signedIn' = (authStep.to # NoMember)
  /\ loads' = [i \in 1..MaxLoads |-> [loads[i] EXCEPT !.live = FALSE]]
  /\ card' = NoMember
  /\ UNCHANGED <<stored, entries, swaps>>

\* The application ends and is started: _restore finds the tokens, and knows no
\* tribe.
Restart ==
  /\ swaps < MaxSwaps /\ swaps' = swaps + 1
  /\ authStep' = NoStep /\ activeTenant' = NoTenant
  /\ signedIn' = (stored # NoMember)
  /\ loads' = [i \in 1..MaxLoads |-> NoLoad] /\ card' = NoMember
  /\ entries' = {[e EXCEPT !.sure = FALSE] : e \in entries}
  /\ UNCHANGED stored

-----------------------------------------------------------------------------
(* person_repository.dart, tree_repository.dart *)

SessionWaits == UNCHANGED <<stored, activeTenant, signedIn, authStep, swaps>>

OpenCard(i, online) ==
  /\ signedIn /\ loads[i].pc = "none"
  /\ loads' = [loads EXCEPT ![i] =
       [pc |-> IF online THEN "fetch" ELSE "cached", scope |-> activeTenant,
        got |-> NoMember, live |-> TRUE, sure |-> authStep = NoStep]]
  /\ UNCHANGED <<entries, card>> /\ SessionWaits

\* The request carries the tokens stored now; without them, or when it fails,
\* the cache is asked.
Fetch(i, works) ==
  /\ loads[i].pc = "fetch"
  /\ loads' = [loads EXCEPT ![i].pc = IF works /\ stored # NoMember THEN "put" ELSE "cached",
                            ![i].got = stored]
  /\ UNCHANGED <<entries, card>> /\ SessionWaits

Show(i, owner) ==
  /\ loads' = [loads EXCEPT ![i] = NoLoad]
  /\ card' = IF loads[i].live THEN owner ELSE card

Entry(l) == [scope |-> l.scope, owner |-> l.got, sure |-> l.sure]

\* An upsert under the scope read before.
Put(i) ==
  /\ loads[i].pc = "put"
  /\ entries' = {e \in entries : e.scope # loads[i].scope} \cup {Entry(loads[i])}
  /\ Show(i, loads[i].got)
  /\ SessionWaits

ReadCache(i) ==
  LET found == {e \in entries : e.scope = loads[i].scope}
  IN /\ loads[i].pc = "cached"
     /\ Show(i, IF found = {} THEN NoMember ELSE (CHOOSE e \in found : TRUE).owner)
     /\ UNCHANGED entries /\ SessionWaits

CacheNext ==
  \/ \E m \in Members : login(m) \/ switchTenant(m)
  \/ clearSession \/ WriteTokens \/ ClearPrevious \/ SetState \/ Restart
  \/ \E i \in 1..MaxLoads :
       \/ \E b \in BOOLEAN : OpenCard(i, b) \/ Fetch(i, b)
       \/ Put(i) \/ ReadCache(i)

CacheSpec == CacheInit /\ [][CacheNext]_cacheVars

-----------------------------------------------------------------------------
\* Who is signed in finds in the scope of the active tribe only what was fetched
\* for this member, however often users and tribes were switched on the device,
\* unless a load straddled a change of session or the application was restarted.
CacheIsOwn ==
  \A e \in entries :
    e.sure /\ signedIn /\ authStep = NoStep /\ e.scope = activeTenant => e.owner = stored
=============================================================================
