---------------------------- MODULE OpenSessions ----------------------------
(***************************************************************************)
(* What sessions promise: a user has at most one, a login opens one only    *)
(* where there is none, a logout closes it, and nothing reopens it.         *)
(***************************************************************************)
EXTENDS Naturals

CONSTANTS
    Users,
    Ids     \* identities of sessions, positive numbers

VARIABLES
    open,   \* the session of each user, 0 for none
    closed  \* sessions that were logged out

vars == <<open, closed>>

Init == open = [u \in Users |-> 0] /\ closed = {}

\* A session nobody has or had.
Login(u, s) ==
    /\ open[u] = 0
    /\ s \notin closed /\ \A v \in Users : open[v] # s
    /\ open' = [open EXCEPT ![u] = s]
    /\ UNCHANGED closed

Logout(u) ==
    /\ open[u] # 0
    /\ open' = [open EXCEPT ![u] = 0]
    /\ closed' = closed \cup {open[u]}

Next == \E u \in Users : Logout(u) \/ \E s \in Ids : Login(u, s)

Spec == Init /\ [][Next]_vars
============================================================================
