------------------------------- MODULE PlanQuota -------------------------------
(***************************************************************************)
(* The person cap of a tribe's plan (modules/subscriptions) and the calls  *)
(* that add persons: a direct create, an import batch, a published         *)
(* contribution.  The tier and the count are two statements, the addition  *)
(* a later one, and nothing locks between them; an import is checked at    *)
(* submit and adds its persons when it is approved.                        *)
(***************************************************************************)
EXTENDS Integers, FiniteSets

CONSTANTS
  Callers,    \* calls of create and of submit that may overlap
  MaxPersons  \* bound: persons of the tribe

VARIABLES
  tier,     \* TenantSubscription.tier; "free" also stands for no row
  count,    \* live persons of the tribe
  calls,    \* per caller: pc, persons to add, tier read, undisturbed
  setting,  \* tier whose activation is still to be logged, or "none"
  logged    \* tier of the last SubscriptionActivation

planVars == <<tier, count, calls, setting, logged>>

\* The caps, scaled down; enterprise has none.
PLAN_LIMITS == [free |-> 1, basic |-> 2, professional |-> 3]
Tiers == DOMAIN PLAN_LIMITS \cup {"enterprise"}
Within(t, k) == t # "enterprise" => k <= PLAN_LIMITS[t]

Idle == [pc |-> "idle", n |-> 0, tier |-> "free", alone |-> TRUE]

PlanInit ==
  /\ tier = "free" /\ count = 0 /\ calls = [c \in Callers |-> Idle]
  /\ setting = "none" /\ logged = "none"

\* A change by somebody else, for the calls that have begun their check.
Disturb(cs) == [c \in Callers |-> IF cs[c].pc = "idle" THEN cs[c]
                                  ELSE [cs[c] EXCEPT !.alone = FALSE]]

-----------------------------------------------------------------------------
\* PersonsService.create asks for one person, ImportService.submit for the
\* rows that will create one.
StartAdding(c, n) ==
  /\ calls[c].pc = "idle"
  /\ calls' = [calls EXCEPT ![c] = [Idle EXCEPT !.pc = "tier", !.n = n]]
  /\ UNCHANGED <<tier, count, setting, logged>>

\* assertCanAddPersons, tierOf
ReadTier(c) ==
  /\ calls[c].pc = "tier"
  /\ calls' = [calls EXCEPT ![c].tier = tier,
                 ![c].pc = IF tier = "enterprise" THEN "add" ELSE "count"]
  /\ UNCHANGED <<tier, count, setting, logged>>

\* Mutant: the cap is compared with the count alone.
CountPersons_CountOnly(c) ==
  /\ calls[c].pc = "count"
  /\ calls' = [calls EXCEPT ![c] =
       IF Within(calls[c].tier, count) THEN [@ EXCEPT !.pc = "add"] ELSE Idle]
  /\ UNCHANGED <<tier, count, setting, logged>>

\* assertCanAddPersons, personCount and the comparison
CountPersons(c) ==
  /\ calls[c].pc = "count"
  /\ calls' = [calls EXCEPT ![c] =
       IF Within(calls[c].tier, count + calls[c].n) THEN [@ EXCEPT !.pc = "add"]
       ELSE Idle]
  /\ UNCHANGED <<tier, count, setting, logged>>

\* createInTx, or the approval of the batch, which nothing checks again
AddPersons(c) ==
  /\ calls[c].pc = "add" /\ count + calls[c].n <= MaxPersons
  /\ count' = count + calls[c].n
  /\ calls' = Disturb([calls EXCEPT ![c] = Idle])
  /\ UNCHANGED <<tier, setting, logged>>

\* The create is refused (a parent, a duplicate) or the batch is rejected.
DropCall(c) ==
  /\ calls[c].pc = "add"
  /\ calls' = [calls EXCEPT ![c] = Idle]
  /\ UNCHANGED <<tier, count, setting, logged>>

\* ChangeRequestPublisher creates the person of an approved request.
PublishCreate ==
  /\ count < MaxPersons /\ count' = count + 1
  /\ calls' = Disturb(calls)
  /\ UNCHANGED <<tier, setting, logged>>

\* softDeleteInTx; the rollback of an import does it for many.
SoftDelete ==
  /\ count > 0 /\ count' = count - 1
  /\ UNCHANGED <<tier, calls, setting, logged>>

\* SubscriptionService.set: the tier is stored, the activation logged after it.
SetTier(t) ==
  /\ setting = "none" /\ tier' = t /\ setting' = t
  /\ calls' = Disturb(calls)
  /\ UNCHANGED <<count, logged>>

LogActivation ==
  /\ setting # "none" /\ logged' = setting /\ setting' = "none"
  /\ UNCHANGED <<tier, count, calls>>

\* The process ends between the two: the tier holds and no activation says so.
CrashBeforeLog ==
  /\ setting # "none" /\ setting' = "none"
  /\ UNCHANGED <<tier, count, calls, logged>>

PlanNext ==
  \/ \E c \in Callers : \/ \E n \in 1..2 : StartAdding(c, n)
                        \/ ReadTier(c) \/ CountPersons(c) \/ AddPersons(c) \/ DropCall(c)
  \/ PublishCreate \/ SoftDelete
  \/ \E t \in Tiers : SetTier(t)
  \/ LogActivation \/ CrashBeforeLog

PlanSpec == PlanInit /\ [][PlanNext]_planVars

-----------------------------------------------------------------------------
\* A create or an import does not take the tribe over its cap, unless since its
\* check began somebody else added persons or the tier was changed; a deletion
\* in between does no harm.
AloneStaysWithinPlan ==
  [][\A c \in Callers :
       calls[c].pc = "add" /\ calls[c].alone /\ calls'[c].pc = "idle" /\ count' > count
         => Within(tier, count')]_planVars

\* plan-limit.service.ts:12-13 and DECISIONS.md:126 say that the publication of
\* a contribution is held to the cap as well.
PublicationIsCapped ==
  [][(\A c \in Callers : calls[c].pc = "idle") /\ count' > count => Within(tier, count')]_planVars
=============================================================================
