------------------------------- MODULE Board -------------------------------
(***************************************************************************)
(* What the handlers of existing items promise, each as one atomic change:  *)
(* an item keeps its owner, nothing happens to it once it is removed, its   *)
(* favorites go with it and never come back, and users mark or unmark one   *)
(* favorite at a time.                                                      *)
(***************************************************************************)
EXTENDS Naturals, Sequences

CONSTANTS Users, Statuses

VARIABLES
    board,      \* every item ever posted, with its owner and status
    starred     \* favorites, pairs of a user and an item

vars == <<board, starred>>

There(i) == board[i].there

Init == board = << >> /\ starred = {}

Post(u, s) ==
    /\ board' = Append(board, [owner |-> u, status |-> s, there |-> TRUE])
    /\ UNCHANGED starred

SetStatus(i, s) ==
    /\ There(i)
    /\ board' = [board EXCEPT ![i].status = s]
    /\ UNCHANGED starred

Star(u, i) ==
    /\ There(i)
    /\ starred' = starred \cup {<<u, i>>}
    /\ UNCHANGED board

Unstar(u, i) ==
    /\ starred' = starred \ {<<u, i>>}
    /\ UNCHANGED board

Remove(i) ==
    /\ There(i)
    /\ board' = [board EXCEPT ![i].there = FALSE]
    /\ starred' = {f \in starred : f[2] # i}

Next ==
    \/ \E u \in Users, s \in Statuses : Post(u, s)
    \/ \E i \in 1..Len(board) :
          \/ Remove(i)
          \/ \E s \in Statuses : SetStatus(i, s)
          \/ \E u \in Users : Star(u, i) \/ Unstar(u, i)

Spec == Init /\ [][Next]_vars
============================================================================
