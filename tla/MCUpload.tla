----------------------------- MODULE MCUpload -----------------------------
(* Instances of Upload for TLC.                                            *)
EXTENDS Upload, TLC

\* Requests and file names are interchangeable.
Symmetry == Permutations(Requests) \cup Permutations(Names)
============================================================================
