---------------------------- MODULE LineageTable ----------------------------
(***************************************************************************)
(* What the lineage component promises: every operation changes the        *)
(* persons and the closure table together.  Lineage, with the awaits of    *)
(* the code, implements this specification as long as its transactions do  *)
(* not overlap.                                                            *)
(***************************************************************************)
EXTENDS FatherForest

vars == <<state, father, closure>>

TypeOK ==
  /\ state \in [Persons -> States]
  /\ father \in [Persons -> Persons \cup {None}]
  /\ closure \subseteq Row

Init ==
  /\ state \in [Persons -> {"unborn", "live"}]
  /\ father = [p \in Persons |-> None]
  /\ closure = {SelfRow(p) : p \in Live}

CanBeFather(f) == f = None \/ f \in Live

Create(p, f) ==
  /\ state[p] = "unborn"
  /\ CanBeFather(f)
  /\ state' = [state EXCEPT ![p] = "live"]
  /\ father' = [father EXCEPT ![p] = f]
  /\ closure' = Under(closure \cup {SelfRow(p)}, p, f)

Refather(p, f) ==
  /\ p \in Live
  /\ CanBeFather(f)
  /\ f # None => ~WouldCreateCycle(closure, p, f)
  /\ father' = [father EXCEPT ![p] = f]
  /\ closure' = Under(closure \ Strip(closure, p), p, f)
  /\ UNCHANGED state

\* The children of p become roots and keep their subtrees.
Delete(p) ==
  LET children == {c \in Live : father[c] = p}
  IN /\ p \in Live
     /\ state' = [state EXCEPT ![p] = "deleted"]
     /\ father' = [c \in Persons |-> IF c \in children THEN None
                                     ELSE father[c]]
     /\ closure' = (closure \ UNION {Strip(closure, c) : c \in children})
                     \ RowsOf(closure, p)

\* A batch is withdrawn: nobody who stays has a father in it.  Its rows stay
\* until the table is rebuilt.
Withdraw(batch) ==
  /\ \A p \in Live \ batch : father[p] \notin batch
  /\ state' = [p \in Persons |-> IF p \in batch /\ p \in Live THEN "deleted"
                                 ELSE state[p]]
  /\ UNCHANGED <<father, closure>>

\* Any table that records the fathers, and nothing of the deleted.
Rebuild ==
  /\ closure' \subseteq Live \X Live \X Nat
  /\ UNCHANGED <<state, father>>
  /\ Tracks'

Next ==
  \/ \E p \in Persons, f \in Persons \cup {None} : Create(p, f) \/ Refather(p, f)
  \/ \E p \in Persons : Delete(p)
  \/ \E batch \in SUBSET Persons : Withdraw(batch)
  \/ Rebuild

Spec == Init /\ [][Next]_vars
=============================================================================
