--------------------------- MODULE ImportLifecycle ---------------------------
(***************************************************************************)
(* What the import module promises of a batch, seen from outside: its      *)
(* status moves along the edges of its state machine, and its records are  *)
(* in live data exactly while it is published.                             *)
(***************************************************************************)
EXTENDS Naturals

VARIABLES status,   \* of the batch
          live      \* its records are in live data, all or in part

Reading == {"uploaded", "parsing", "validating", "resolving"}

Init == status = "none" /\ live = FALSE

Move(from, to) == status \in from /\ status' = to /\ UNCHANGED live

Upload == Move({"none"}, "uploaded")
Read == \E s \in Reading : Move(Reading, s)
Present == Move(Reading, "preview")
Fail == Move(Reading, "failed")
Submit == Move({"preview"}, "submitted")
Reject == ~live /\ Move({"submitted"}, "rejected")
Apply == status = "submitted" /\ live' \in BOOLEAN /\ UNCHANGED status
Publish == Move({"submitted"}, "published")
Withdraw == status = "published" /\ live' = FALSE /\ UNCHANGED status
RollBack == ~live /\ Move({"published"}, "rolled_back")

Next == \/ Upload \/ Read \/ Present \/ Fail \/ Submit \/ Reject
        \/ Apply \/ Publish \/ Withdraw \/ RollBack
=============================================================================
