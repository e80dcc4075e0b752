------------------------------ MODULE MCGroups ------------------------------
(* Values for the configurations of Groups. *)
EXTENDS Groups, TLC

Symmetry == Permutations(Users) \cup Permutations(Process)

=============================================================================
