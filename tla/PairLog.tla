------------------------------ MODULE PairLog ------------------------------
(***************************************************************************)
(* What chat promises: one log of messages, each between two users, one of *)
(* them its sender, which never changes once posted; and of each message   *)
(* at most one delivery, to its sender and to nobody outside the pair.     *)
(***************************************************************************)
EXTENDS Naturals, Sequences

CONSTANT Users

VARIABLES
    log,        \* the messages, in the order they were saved
    delivered   \* delivered[m]: the users message m was emitted to

vars == <<log, delivered>>

Init == log = << >> /\ delivered = << >>

Post(pair, s) ==
    /\ s \in pair
    /\ log' = Append(log, [pair |-> pair, sender |-> s])
    /\ delivered' = Append(delivered, {})

Deliver(m, us) ==
    /\ delivered[m] = {}
    /\ log[m].sender \in us /\ us \subseteq log[m].pair
    /\ delivered' = [delivered EXCEPT ![m] = us]
    /\ UNCHANGED log

Next ==
    \/ \E s, t \in Users : Post({s, t}, s)
    \/ \E m \in 1..Len(log) : \E us \in SUBSET log[m].pair : Deliver(m, us)

Spec == Init /\ [][Next]_vars
============================================================================
