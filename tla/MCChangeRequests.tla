-------------------------- MODULE MCChangeRequests --------------------------
(* Instances of ChangeRequests for TLC.                                     *)
EXTENDS ChangeRequests, TLC

\* Members, and slots for functions in flight, are interchangeable.
Symmetry == Permutations(Users) \cup Permutations(Handlers)
=============================================================================
