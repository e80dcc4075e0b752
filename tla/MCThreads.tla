------------------------------ MODULE MCThreads ------------------------------
(* Values for the configurations of Threads. *)
EXTENDS Threads, TLC

Symmetry == Permutations(Users) \cup Permutations(Process)

=============================================================================
