----------------------------- MODULE MCSession -----------------------------
(* Instances of Session for TLC.                                           *)
EXTENDS Session, TLC

\* Requests and users are interchangeable.
Symmetry == Permutations(Requests) \cup Permutations(Users)
============================================================================
