------------------------------ MODULE Reputation ------------------------------
(***************************************************************************)
(* ContributorReputation of one contributor (modules/reputation):          *)
(* recordDecision reads the counters, computes, and writes them back, in   *)
(* statements of their own, after the request has been decided.            *)
(***************************************************************************)
EXTENDS Integers, FiniteSets

CONSTANTS
  Reviewers,    \* reviewers whose decisions may overlap
  MaxDecisions  \* bound: decisions

VARIABLES
  rep,        \* the row: exists, accepted, rejected, total, trust
  thresholds, \* minimum accepted and minimum accuracy (percent) of silver and gold
  deciding,   \* per reviewer: pc, accepted, counters read, overlapped
  decided,    \* decisions: accepted and rejected
  uncounted   \* decisions that overlapped with another one or failed

repVars == <<rep, thresholds, deciding, decided, uncounted>>

NoRow == [exists |-> FALSE, accepted |-> 0, rejected |-> 0, total |-> 0, trust |-> "bronze"]
Quiet == [pc |-> "idle", accepted |-> FALSE, row |-> NoRow, shared |-> FALSE]

RepInit ==
  /\ rep = NoRow /\ thresholds = [silver |-> <<1, 70>>, gold |-> <<2, 90>>]
  /\ deciding = [r \in Reviewers |-> Quiet]
  /\ decided = [accepted |-> 0, rejected |-> 0] /\ uncounted = 0

Busy == {r \in Reviewers : deciding[r].pc # "idle"}

-----------------------------------------------------------------------------
\* A contribution has been published or rejected.
Decide(r, accepted) ==
  /\ deciding[r].pc = "idle" /\ decided.accepted + decided.rejected < MaxDecisions
  /\ decided' = IF accepted THEN [decided EXCEPT !.accepted = @ + 1]
                ELSE [decided EXCEPT !.rejected = @ + 1]
  /\ deciding' = [q \in Reviewers |->
       IF q = r THEN [Quiet EXCEPT !.pc = "find", !.accepted = accepted, !.shared = Busy # {}]
       ELSE IF q \in Busy THEN [deciding[q] EXCEPT !.shared = TRUE] ELSE deciding[q]]
  /\ UNCHANGED <<rep, thresholds, uncounted>>

Done(r) == deciding' = [deciding EXCEPT ![r] = Quiet]

\* getOrCreateReputation: find, then create when there was none.
FindRow(r) ==
  /\ deciding[r].pc = "find"
  /\ deciding' = [deciding EXCEPT ![r].pc = IF rep.exists THEN "compute" ELSE "create",
                                  ![r].row = rep]
  /\ UNCHANGED <<rep, thresholds, decided, uncounted>>

CreateRow(r) ==
  /\ deciding[r].pc = "create" /\ ~rep.exists
  /\ rep' = [NoRow EXCEPT !.exists = TRUE]
  /\ deciding' = [deciding EXCEPT ![r].pc = "compute", ![r].row = rep']
  /\ UNCHANGED <<thresholds, decided, uncounted>>

\* The row exists by now: the unique key refuses it, and the decision, which is
\* stored already, is not counted.
CreateRefused(r) ==
  /\ deciding[r].pc = "create" /\ rep.exists
  /\ uncounted' = uncounted + 1 /\ Done(r)
  /\ UNCHANGED <<rep, thresholds, decided>>

\* Accuracy is the share of the decisions that were accepted.
Reaches(accepted, rejected, level) ==
  /\ accepted >= level[1]
  /\ accepted * 100 >= level[2] * (accepted + rejected)

deriveTrust(accepted, rejected) ==
  IF Reaches(accepted, rejected, thresholds.gold) THEN "gold"
  ELSE IF Reaches(accepted, rejected, thresholds.silver) THEN "silver" ELSE "bronze"

\* Mutant: a rejection does not add to the total.
Counted_AcceptedOnly(row, accepted) ==
  LET yes == row.accepted + (IF accepted THEN 1 ELSE 0)
      no == row.rejected + (IF accepted THEN 0 ELSE 1)
  IN [exists |-> TRUE, accepted |-> yes, rejected |-> no,
      total |-> row.total + (IF accepted THEN 1 ELSE 0), trust |-> deriveTrust(yes, no)]

\* The counters after a decision, and the trust they give.
Counted(row, accepted) ==
  LET yes == row.accepted + (IF accepted THEN 1 ELSE 0)
      no == row.rejected + (IF accepted THEN 0 ELSE 1)
  IN [exists |-> TRUE, accepted |-> yes, rejected |-> no,
      total |-> row.total + 1, trust |-> deriveTrust(yes, no)]

\* recordDecision: absolute values computed from the row read before
Compute(r) ==
  /\ deciding[r].pc = "compute"
  /\ deciding' = [deciding EXCEPT ![r].pc = "write",
                                  ![r].row = Counted(@, deciding[r].accepted)]
  /\ UNCHANGED <<rep, thresholds, decided, uncounted>>

WriteRow(r) ==
  /\ deciding[r].pc = "write"
  /\ rep' = deciding[r].row
  /\ uncounted' = uncounted + (IF deciding[r].shared THEN 1 ELSE 0)
  /\ Done(r)
  /\ UNCHANGED <<thresholds, decided>>

\* updateThresholds; the trust levels stored are not derived again.
UpdateThresholds(silver, gold) ==
  /\ thresholds' = [silver |-> silver, gold |-> gold] /\ thresholds' # thresholds
  /\ UNCHANGED <<rep, deciding, decided, uncounted>>

RepNext ==
  \/ \E r \in Reviewers :
       \/ \E accepted \in BOOLEAN : Decide(r, accepted)
       \/ FindRow(r) \/ CreateRow(r) \/ CreateRefused(r) \/ Compute(r) \/ WriteRow(r)
  \/ \E silver, gold \in {1, 2} \X {50, 90} : UpdateThresholds(silver, gold)

RepSpec == RepInit /\ [][RepNext]_repVars

-----------------------------------------------------------------------------
\* When nobody is deciding, the counters miss at most the decisions that were
\* made at the same time as others, and never count one twice: a lost update
\* costs the contributor one decision, it does not spread.
EveryDecisionCounts ==
  Busy = {} =>
    LET all == decided.accepted + decided.rejected IN
    /\ rep.total = rep.accepted + rep.rejected
    /\ rep.total >= all - uncounted
    /\ rep.accepted <= decided.accepted /\ rep.rejected <= decided.rejected
=============================================================================
