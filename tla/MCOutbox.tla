------------------------------ MODULE MCOutbox ------------------------------
(* Instances of Outbox for TLC: publishers and workers are interchangeable. *)
EXTENDS Outbox, FiniteSets, TLC

Symmetry == Permutations(Publisher) \cup Permutations(Worker)

\* An ordinary event or one with a fan-out, one of them at a time.
OneInserted == Cardinality({e \in Event : status[e] # "absent"}) <= 1

=============================================================================
