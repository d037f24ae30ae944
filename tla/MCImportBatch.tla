---------------------------- MODULE MCImportBatch ----------------------------
(* Instances of ImportBatch for TLC.                                        *)
EXTENDS ImportBatch, TLC

\* The second row is a child of the first and needs a decision.
SecondIsChild == <<0, 1>>
SecondDuplicate == <<"valid", "duplicate">>

Symmetry == Permutations(CRs) \cup Permutations(Reviewers) \cup Permutations(Calls)
=============================================================================
