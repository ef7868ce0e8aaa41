------------------------------ MODULE MCChat ------------------------------
(* Instances of Chat for TLC.                                              *)
EXTENDS Chat, TLC

\* Requests and users are interchangeable.
Symmetry == Permutations(Requests) \cup Permutations(Users)
============================================================================
