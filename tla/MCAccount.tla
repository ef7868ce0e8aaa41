----------------------------- MODULE MCAccount -----------------------------
(* Instances of Account for TLC.                                           *)
EXTENDS Account, TLC

\* Requests, emails and usernames are interchangeable.
Symmetry == Permutations(Requests) \cup Permutations(Emails) \cup Permutations(Names)
============================================================================
