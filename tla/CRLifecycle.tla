----------------------------- MODULE CRLifecycle -----------------------------
(***************************************************************************)
(* What the approval workflow promises of a change request, seen from      *)
(* outside: a status that moves along the edges of its state machine, ends *)
(* for good in a terminal state, and reaches live data exactly in the step *)
(* that publishes it, with the approvals the tenant requires at that time. *)
(***************************************************************************)
EXTENDS Naturals, FiniteSets

CONSTANTS CRs, Users, Quorums

VARIABLES status,     \* the state of each change request
          votes,      \* the members whose stored decision is approve
          required,   \* approvalsRequired
          published   \* the requests whose patch has reached live data

vars == <<status, votes, required, published>>

Open == {"draft", "submitted", "under_review", "changes_requested"}
InReview == {"submitted", "under_review"}

Init ==
  /\ status = [c \in CRs |-> "none"]
  /\ votes = [c \in CRs |-> {}]
  /\ required \in Quorums
  /\ published = {}

Move(c, from, to) ==
  /\ status[c] \in from
  /\ status' = [status EXCEPT ![c] = to]
  /\ UNCHANGED <<votes, required>>

Quorate(c) == Cardinality(votes[c]) >= required

Draft(c) == Move(c, {"none"}, "draft") /\ UNCHANGED published
Submit(c) ==
  Move(c, {"draft", "changes_requested"}, "submitted") /\ UNCHANGED published
Wait(c) ==
  ~Quorate(c) /\ Move(c, InReview, "under_review") /\ UNCHANGED published
Reject(c) == Move(c, InReview, "rejected") /\ UNCHANGED published
RequestChanges(c) ==
  Move(c, InReview, "changes_requested") /\ UNCHANGED published
Expire(c) == Move(c, Open, "expired") /\ UNCHANGED published
Publish(c) ==
  /\ Quorate(c) /\ Move(c, InReview, "published")
  /\ published' = published \cup {c}
Conflict(c) ==
  Quorate(c) /\ Move(c, InReview, "conflict") /\ UNCHANGED published

\* A member's vote counts once; only a request in review is voted on.
Vote(c, voters) ==
  /\ status[c] \in InReview
  /\ votes' = [votes EXCEPT ![c] = voters]
  /\ \E u \in Users : voters \ {u} = votes[c] \ {u}
  /\ UNCHANGED <<status, required, published>>

Require(n) == required' = n /\ UNCHANGED <<status, votes, published>>

Next ==
  \/ \E c \in CRs :
       \/ Draft(c) \/ Submit(c) \/ Wait(c) \/ Reject(c) \/ RequestChanges(c)
       \/ Expire(c) \/ Publish(c) \/ Conflict(c)
       \/ \E voters \in SUBSET Users : Vote(c, voters)
  \/ \E n \in Quorums : Require(n)

Spec == Init /\ [][Next]_vars
=============================================================================
