------------------------------ MODULE Gallery ------------------------------
(***************************************************************************)
(* What posting pictures promises: an item appears with all its pictures at *)
(* once and never shows others, no picture is used twice, an item shows     *)
(* only pictures that were kept, and a picture of a post that was refused   *)
(* is never kept.                                                           *)
(***************************************************************************)
EXTENDS Naturals, Sequences

VARIABLES
    gallery,    \* the pictures of each item, in the order the items appeared
    kept,       \* pictures with rows
    refused     \* pictures of posts that were refused

vars == <<gallery, kept, refused>>

Init == gallery = << >> /\ kept = {} /\ refused = {}

Keep ==
    /\ kept \subseteq kept' /\ kept' \cap refused = {}
    /\ UNCHANGED <<gallery, refused>>

Refuse ==
    /\ refused \subseteq refused' /\ refused' \cap kept = {}
    /\ UNCHANGED <<gallery, kept>>

Publish(pictures) ==
    /\ \A i \in 1..Len(gallery) : gallery[i] \cap pictures = {}
    /\ gallery' = Append(gallery, pictures)
    /\ UNCHANGED <<kept, refused>>

Next == Keep \/ Refuse \/ \E pictures \in SUBSET kept : Publish(pictures)

Spec == Init /\ [][Next]_vars
============================================================================
