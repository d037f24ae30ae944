------------------------------ MODULE MCLineage ------------------------------
(* Instances of Lineage for TLC.                                            *)
EXTENDS Lineage, TLC

Roots == {[p \in Persons |-> None]}

\* Every assignment of fathers without a cycle.
Forests ==
  {f \in [Persons -> Persons \cup {None}] : Rooted([p \in Persons |-> "live"], f)}

\* Persons outside the batch, persons in it, and slots are interchangeable.
Symmetry == Permutations(Persons \ Imported) \cup Permutations(Imported)
              \cup Permutations(Handlers)
=============================================================================
