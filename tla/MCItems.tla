------------------------------ MODULE MCItems ------------------------------
(* Instances of Items for TLC.                                             *)
EXTENDS Items, TLC

\* Requests, users, names and statuses are interchangeable.
Symmetry == Permutations(Requests) \cup Permutations(Users)
                \cup Permutations(Names) \cup Permutations(Statuses)
============================================================================
