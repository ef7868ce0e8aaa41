---------------------------- MODULE MCCategories ----------------------------
(* An instance of Categories for TLC: every forest of N categories.        *)
EXTENDS Categories
============================================================================
