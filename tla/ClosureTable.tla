---------------------------- MODULE ClosureTable ----------------------------
(***************************************************************************)
(* The SQL statements of lineage.repository.ts over person_closures.  A    *)
(* row is <<ancestor, descendant, depth>>; every operator takes the rows   *)
(* its statement can see.                                                  *)
(***************************************************************************)
EXTENDS Integers, FiniteSets

CONSTANTS Persons, None

ASSUME PersonsOK == IsFiniteSet(Persons) /\ None \notin Persons

Row == Persons \X Persons \X Nat
States == {"unborn", "live", "deleted"}

\* descendant_id IN (SELECT descendant_id ... WHERE ancestor_id = p)
Below(t, p) == {d \in Persons : \E r \in t : r[1] = p /\ r[2] = d}

SelfRow(p) == <<p, p, 0>>

WouldCreateCycle(t, p, f) == p = f \/ f \in Below(t, p)

\* moveSubtree A: links from the subtree to ancestors outside it.
Strip(t, p) == {r \in t : r[2] \in Below(t, p) /\ r[1] \notin Below(t, p)}

\* Mutant: the edge from the father to p is not counted.
Graft_NoEdge(t, p, f) ==
  {<<s[1], u[2], s[3] + u[3]>> :
     s \in {r \in t : r[2] = f}, u \in {r \in t : r[1] = p}}

\* moveSubtree B: every ancestor of f above every member of the subtree.
Graft(t, p, f) ==
  {<<s[1], u[2], s[3] + u[3] + 1>> :
     s \in {r \in t : r[2] = f}, u \in {r \in t : r[1] = p}}

\* The whole of B: a root has nobody above it.
Under(t, p, f) == IF f = None THEN t ELSE t \cup Graft(t, p, f)

\* removePersonRows
RowsOf(t, p) == {r \in t : r[1] = p \/ r[2] = p}

\* The person n steps up the father chain, while those below are live.
Up(state, father) ==
  LET up[n \in Nat] ==
        IF n = 0 THEN [p \in Persons |-> p]
        ELSE [p \in Persons |->
                IF up[n - 1][p] = None THEN None
                ELSE IF state[up[n - 1][p]] # "live" THEN None
                ELSE father[up[n - 1][p]]]
  IN up

\* rebuildForTenant, third statement.  A chain visits at most every person
\* (on a cycle of fathers the recursive query does not end).
Walk(state, father) ==
  LET up == Up(state, father)
  IN {r \in Persons \X Persons \X (1 .. Cardinality(Persons)) :
        /\ up[r[3]][r[2]] = r[1]
        /\ state[r[1]] = "live"}
=============================================================================
