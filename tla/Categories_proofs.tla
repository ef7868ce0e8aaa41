------------------------- MODULE Categories_proofs -------------------------
(***************************************************************************)
(* Proofs about Categories, for every number of categories and every        *)
(* forest of them.                                                          *)
(*                                                                         *)
(*   Nesting    a loop over the rows has put on each shelf the children     *)
(*              among the rows it has passed, and the second loop starts    *)
(*              with every row stored.                                     *)
(*   Growing    the recursive query has found a part of the subtree that    *)
(*              only its frontier's children extend, none of them found yet.*)
(***************************************************************************)
EXTENDS Categories, SequenceTheorems, TLAPS

Below(p, n) == {c \in Cats : c < n /\ parent[c] = p}

\* The sequence s has the elements of S, each once, in increasing order.
Holds(s, S) ==
    /\ {s[k] : k \in 1..Len(s)} = S
    /\ \A j, k \in 1..Len(s) : j < k => s[j] < s[k]

Nesting ==
    /\ pc # "threw"
    /\ pc = "start" => pos = 1 /\ stored = {} /\ \A p \in 0..N : shelf[p] = << >>
    /\ pc = "store" => /\ stored = 1..(pos - 1)
                       /\ Holds(shelf[0], Below(0, pos))
                       /\ \A p \in Cats : shelf[p] = << >>
    /\ pc = "link" => /\ stored = Cats
                      /\ Holds(shelf[0], ChildrenOf({0}))
                      /\ \A p \in Cats : Holds(shelf[p], Below(p, pos))
    /\ pc = "nested" => \A p \in 0..N : Holds(shelf[p], ChildrenOf({p}))
    /\ pc = "children" => root \in Cats /\ Holds(shelf[root], Below(root, pos))
    /\ pc = "found" => Holds(shelf[root], ChildrenOf({root}))

Found == {c \in Cats : rows[c] = 1}

Growing ==
    /\ pc = "selected" => frontier = {}
    /\ pc \in {"expand", "selected"} =>
          /\ rows \in [Cats -> {0, 1}]
          /\ frontier \subseteq Found
          /\ root \in Cats => root \in Found
          /\ \A c \in Cats : parent[c] \in Found \ frontier => c \in Found
          /\ \A c \in Found : c = root \/ parent[c] \in Found \ frontier
          /\ \A c \in Cats : parent[c] \in frontier => c \notin Found
          /\ \A S \in SUBSET Cats :
                (root \in Cats => root \in S) /\ ChildrenOf(S) \subseteq S => Found \subseteq S

IInv == TypeOK /\ Acyclic(parent) /\ Nesting /\ Growing

----------------------------------------------------------------------------
\* A row put at the end of its shelf keeps the shelf in order.
LEMMA AppendHolds ==
    ASSUME TypeOK, NEW s \in Seq(Cats), NEW c \in Cats, NEW p, parent[c] = p,
           Holds(s, Below(p, c))
    PROVE  Append(s, c) \in Seq(Cats) /\ Holds(Append(s, c), Below(p, c + 1))
<1> DEFINE t == Append(s, c)
           n == Len(s)
<1>1. /\ t \in Seq(Cats) /\ n \in Nat /\ Len(t) = n + 1 /\ t[n + 1] = c
      /\ \A k \in 1..n : t[k] = s[k]
  BY AppendProperties, LenProperties
<1>2. Below(p, c + 1) = Below(p, c) \cup {c}
  BY NAssumption DEF Below, Cats
<1>3. \A k \in 1..n : s[k] \in Cats /\ s[k] < c
  <2>1. \A k \in 1..n : s[k] \in Below(p, c)
    BY DEF Holds
  <2> QED
    BY <2>1 DEF Below
<1>4. {t[k] : k \in 1..Len(t)} = {s[k] : k \in 1..n} \cup {c}
  <2>1. 1..Len(t) = 1..n \cup {n + 1}
    BY <1>1
  <2> QED
    BY <1>1, <2>1
<1>5. ASSUME NEW j \in 1..Len(t), NEW k \in 1..Len(t), j < k PROVE t[j] < t[k]
  <2>1. j \in 1..n
    BY <1>1, <1>5
  <2>2. CASE k \in 1..n
    BY <1>1, <1>5, <2>1, <2>2 DEF Holds
  <2>3. CASE k = n + 1
    BY <1>1, <1>3, <2>1, <2>3
  <2> QED
    BY <1>1, <2>2, <2>3
<1> QED
  BY <1>1, <1>2, <1>4, <1>5 DEF Holds

LEMMA OtherShelves ==
    ASSUME TypeOK, NEW c \in Cats, NEW p, parent[c] # p
    PROVE  Below(p, c + 1) = Below(p, c)
  BY NAssumption DEF Below, Cats

LEMMA NoneBelow == TypeOK => \A p : Below(p, 1) = {} /\ Below(p, N + 1) = ChildrenOf({p})
  BY NAssumption DEF Below, ChildrenOf, Cats

LEMMA EmptyHolds == Holds(<< >>, {})
  BY DEF Holds

LEMMA RowsPassed == ASSUME TypeOK PROVE pos \in Nat /\ (pos <= N => pos \in Cats) /\ (pos > N => pos = N + 1)
  BY NAssumption DEF TypeOK, Cats

----------------------------------------------------------------------------
LEMMA InitInv == Init => IInv
<1> SUFFICES ASSUME Init PROVE IInv
  OBVIOUS
<1>1. << >> \in Seq(Cats)
  BY EmptySeq
<1>2. TypeOK
  BY <1>1, NAssumption DEF Init, TypeOK, Cats
<1>3. Acyclic(parent) /\ Growing
  BY DEF Init, Growing
<1>4. Nesting
  BY DEF Init, Nesting
<1> QED
  BY <1>2, <1>3, <1>4 DEF IInv

LEMMA StoreInv == ASSUME IInv, Store PROVE IInv'
<1>1. /\ pc = "store" /\ pos \in Cats /\ pos \in Nat /\ pos' = pos + 1
      /\ stored = 1..(pos - 1) /\ Holds(shelf[0], Below(0, pos))
      /\ \A p \in Cats : shelf[p] = << >>
  BY RowsPassed DEF Store, IInv, Nesting
<1>2. UNCHANGED <<parent, pc, root, frontier, rows>> /\ stored' = 1..(pos' - 1)
  <2>1. stored' = stored \cup {pos} /\ UNCHANGED <<parent, pc, root, frontier, rows>>
    BY DEF Store
  <2>2. pos > 0 /\ pos' - 1 = pos
    BY <1>1 DEF Cats
  <2>3. 1..(pos - 1) \cup {pos} = 1..pos
    BY <1>1, <2>2
  <2> QED
    BY <1>1, <2>1, <2>2, <2>3
<1>3. /\ shelf[0] \in Seq(Cats) /\ << >> \in Seq(Cats) /\ 0 \in 0..N /\ pos \in 0..N /\ pos # 0
      /\ 0 \notin Cats
  BY <1>1, EmptySeq, NAssumption DEF IInv, TypeOK, Cats
<1>4. shelf' \in [0..N -> Seq(Cats)] /\ Holds(shelf'[0], Below(0, pos + 1))
      /\ \A p \in Cats : shelf'[p] = << >>
  <2>1. CASE parent[pos] = 0
    <3>1. Append(shelf[0], pos) \in Seq(Cats) /\ Holds(Append(shelf[0], pos), Below(0, pos + 1))
      BY <1>1, <1>3, <2>1, AppendHolds DEF IInv
    <3>2. shelf' = [shelf EXCEPT ![pos] = << >>, ![0] = Append(@, pos)]
      BY <2>1 DEF Store
    <3>3. shelf'[0] = Append(shelf[0], pos) /\ \A p \in Cats : shelf'[p] = << >>
      BY <1>1, <1>3, <3>2 DEF IInv, TypeOK, Cats
    <3>4. shelf' \in [0..N -> Seq(Cats)]
      BY <1>3, <3>1, <3>2, <1>1 DEF IInv, TypeOK
    <3> QED
      BY <3>1, <3>3, <3>4
  <2>2. CASE parent[pos] # 0
    <3>1. Below(0, pos + 1) = Below(0, pos)
      BY <1>1, <2>2, OtherShelves DEF IInv
    <3>2. shelf' = [shelf EXCEPT ![pos] = << >>]
      BY <2>2 DEF Store
    <3> QED
      BY <1>1, <1>3, <3>1, <3>2 DEF IInv, TypeOK, Cats
  <2> QED
    BY <2>1, <2>2
<1>5. TypeOK'
  <2>1. pos' \in 1..N + 1 /\ stored' \subseteq Cats
    <3>1. pos \in 1..N /\ pos' - 1 = pos
      BY <1>1 DEF Cats
    <3> QED
      BY <1>1, <1>2, <3>1, NAssumption DEF Cats
  <2> QED
    BY <1>2, <1>4, <2>1 DEF IInv, TypeOK, Cats
<1>6. Nesting'
  BY <1>1, <1>2, <1>4 DEF Nesting, Below, Cats
<1>7. Acyclic(parent)' /\ Growing'
  BY <1>1, <1>2 DEF IInv, Growing, Acyclic, Cats
<1> QED
  BY <1>5, <1>6, <1>7 DEF IInv

LEMMA LinkInv == ASSUME IInv, Link PROVE IInv'
<1> DEFINE p == parent[pos]
<1>1. /\ pc = "link" /\ pos \in Cats /\ pos \in Nat /\ pos' = pos + 1 /\ stored = Cats
      /\ Holds(shelf[0], ChildrenOf({0}))
      /\ \A q \in Cats : Holds(shelf[q], Below(q, pos))
  BY RowsPassed DEF Link, IInv, Nesting
<1>2. p \in 0..N /\ p \in stored \cup {0} /\ (p # 0 => p \in Cats) /\ 0 \notin Cats
  BY <1>1, NAssumption DEF IInv, TypeOK, Cats
<1>3. /\ UNCHANGED <<parent, pc, root, stored, frontier, rows>>
      /\ shelf' = IF p = 0 THEN shelf ELSE [shelf EXCEPT ![p] = Append(@, pos)]
  BY <1>2 DEF Link
<1>4. /\ shelf' \in [0..N -> Seq(Cats)] /\ shelf'[0] = shelf[0]
      /\ \A q \in Cats : Holds(shelf'[q], Below(q, pos + 1))
  <2>1. ASSUME NEW q \in Cats, q # p PROVE Holds(shelf[q], Below(q, pos + 1))
    BY <1>1, <2>1, OtherShelves DEF IInv
  <2>2. CASE p = 0
    BY <1>2, <1>3, <2>1, <2>2 DEF IInv, TypeOK
  <2>3. CASE p # 0
    <3>1. shelf[p] \in Seq(Cats)
      BY <1>2 DEF IInv, TypeOK
    <3>2. Append(shelf[p], pos) \in Seq(Cats) /\ Holds(Append(shelf[p], pos), Below(p, pos + 1))
      BY <1>1, <1>2, <2>3, <3>1, AppendHolds DEF IInv
    <3>3. shelf' = [shelf EXCEPT ![p] = Append(shelf[p], pos)]
      BY <1>3, <2>3
    <3>4. /\ shelf' \in [0..N -> Seq(Cats)] /\ shelf'[p] = Append(shelf[p], pos)
          /\ \A q \in 0..N : q # p => shelf'[q] = shelf[q]
      BY <1>2, <3>2, <3>3 DEF IInv, TypeOK
    <3>5. Cats \subseteq 0..N /\ 0 \in 0..N
      BY NAssumption DEF Cats
    <3> QED
      BY <2>1, <2>3, <3>2, <3>4, <3>5
  <2> QED
    BY <2>2, <2>3
<1>5. TypeOK'
  <2>1. pos' \in 1..N + 1
    BY <1>1, NAssumption DEF Cats
  <2> QED
    BY <1>3, <1>4, <2>1 DEF IInv, TypeOK, Cats
<1>6. Nesting'
  BY <1>1, <1>3, <1>4 DEF Nesting, Below, Cats, ChildrenOf
<1>7. Acyclic(parent)' /\ Growing'
  BY <1>1, <1>3 DEF IInv, Growing, Acyclic, Cats
<1> QED
  BY <1>5, <1>6, <1>7 DEF IInv

LEMMA FindChildrenInv == ASSUME IInv, FindChildren PROVE IInv'
<1>1. /\ pc = "children" /\ pos \in Cats /\ pos \in Nat /\ pos' = pos + 1
      /\ root \in Cats /\ Holds(shelf[root], Below(root, pos))
      /\ UNCHANGED <<parent, pc, root, stored, frontier, rows>>
  BY RowsPassed DEF FindChildren, IInv, Nesting
<1>2. root \in 0..N /\ shelf[root] \in Seq(Cats)
  BY DEF IInv, TypeOK
<1>3. shelf' \in [0..N -> Seq(Cats)] /\ Holds(shelf'[root], Below(root, pos + 1))
  <2>1. CASE parent[pos] = root
    <3>1. /\ Append(shelf[root], pos) \in Seq(Cats)
          /\ Holds(Append(shelf[root], pos), Below(root, pos + 1))
      BY <1>1, <1>2, <2>1, AppendHolds DEF IInv
    <3>2. shelf' = [shelf EXCEPT ![root] = Append(shelf[root], pos)]
      BY <2>1 DEF FindChildren
    <3> QED
      BY <1>2, <3>1, <3>2 DEF IInv, TypeOK
  <2>2. CASE parent[pos] # root
    BY <1>1, <2>2, OtherShelves DEF FindChildren, IInv, TypeOK
  <2> QED
    BY <2>1, <2>2
<1>4. TypeOK'
  BY <1>1, <1>3, NAssumption DEF IInv, TypeOK, Cats
<1>5. Nesting'
  BY <1>1, <1>3 DEF Nesting, Below, Cats
<1>6. Acyclic(parent)' /\ Growing'
  BY <1>1 DEF IInv, Growing, Acyclic, Cats
<1> QED
  BY <1>4, <1>5, <1>6 DEF IInv

\* The steps between the loops.
LEMMA BetweenInv ==
    ASSUME IInv,
           \/ FindAll \/ StoredAll \/ LinkedAll \/ FoundChildren \/ Expanded
           \/ \E c \in Cats : FindOne(c)
    PROVE  IInv'
<1>1. /\ UNCHANGED <<parent, stored, shelf, frontier, rows>>
      /\ pos' \in 1..N + 1 /\ root' \in 0..N
      /\ pc' \in {"store", "link", "nested", "children", "found", "selected"}
  BY NAssumption DEF FindAll, StoredAll, LinkedAll, FoundChildren, Expanded, FindOne, IInv, TypeOK, Cats
<1>2. TypeOK'
  BY <1>1 DEF IInv, TypeOK, Cats
<1>3. Nesting'
  <2>1. \A p : Below(p, 1) = {} /\ Below(p, N + 1) = ChildrenOf({p})
    BY NoneBelow DEF IInv
  <2>2. CASE FindAll
    <3>1. 1..(1 - 1) = {} /\ 0 \in 0..N /\ Cats \subseteq 0..N
      BY NAssumption DEF Cats
    <3> QED
      BY <1>1, <2>1, <2>2, <3>1, EmptyHolds DEF FindAll, IInv, Nesting, Below, Cats
  <2>3. CASE StoredAll
    <3>1. pos = N + 1 /\ 1..(pos - 1) = Cats
      BY <2>3, RowsPassed, NAssumption DEF StoredAll, IInv, Cats
    <3> QED
      BY <1>1, <2>1, <2>3, <3>1, EmptyHolds DEF StoredAll, IInv, Nesting, Below, Cats, ChildrenOf
  <2>4. CASE LinkedAll
    <3>1. pos = N + 1 /\ 0..N = Cats \cup {0}
      BY <2>4, RowsPassed, NAssumption DEF LinkedAll, IInv, Cats
    <3> QED
      BY <1>1, <2>1, <2>4, <3>1 DEF LinkedAll, IInv, Nesting, ChildrenOf, Cats
  <2>5. CASE FoundChildren
    <3>1. pos = N + 1
      BY <2>5, RowsPassed DEF FoundChildren, IInv
    <3> QED
      BY <1>1, <2>1, <2>5, <3>1 DEF FoundChildren, IInv, Nesting, ChildrenOf, Cats
  <2>6. CASE Expanded
    BY <1>1, <2>6 DEF Expanded, Nesting
  <2>7. ASSUME NEW c \in Cats, FindOne(c) PROVE Nesting'
    <3>1. c \in 0..N
      BY NAssumption DEF Cats
    <3> QED
      BY <1>1, <2>1, <2>7, <3>1, EmptyHolds DEF FindOne, IInv, Nesting, Below, Cats
  <2> QED
    BY <2>2, <2>3, <2>4, <2>5, <2>6, <2>7
<1>4. Acyclic(parent)'
  BY <1>1 DEF IInv, Acyclic, Cats
<1>5. Growing'
  <2>1. CASE Expanded
    BY <2>1 DEF Expanded, IInv, Growing, Found, ChildrenOf, Cats
  <2>2. CASE ~ Expanded
    <3>1. pc' \notin {"expand", "selected"}
      BY <2>2 DEF FindAll, StoredAll, LinkedAll, FoundChildren, FindOne
    <3> QED
      BY <3>1 DEF Growing
  <2> QED
    BY <2>1, <2>2
<1> QED
  BY <1>2, <1>3, <1>4, <1>5 DEF IInv

LEMMA SelectRootInv == ASSUME IInv, NEW c \in 0..N, SelectRoot(c) PROVE IInv'
<1>1. /\ pc' = "expand" /\ root' = c /\ frontier' = {c} \cap Cats
      /\ rows' = [k \in Cats |-> IF k = c THEN 1 ELSE 0]
      /\ UNCHANGED <<parent, pos, stored, shelf>>
  BY DEF SelectRoot
<1>2. TypeOK'
  BY <1>1 DEF IInv, TypeOK, Cats
<1>3. Nesting'
  BY <1>1 DEF Nesting
<1>4. Acyclic(parent)'
  BY <1>1 DEF IInv, Acyclic, Cats
<1>5. Found' = {c} \cap Cats
  BY <1>1 DEF Found, Cats
<1>6. \A k \in Cats : parent[k] = c /\ c \in Cats => k # c
  <2> SUFFICES ASSUME c \in Cats, parent[c] = c PROVE FALSE
    OBVIOUS
  <2>1. {c} \in SUBSET Cats /\ {c} # {}
    OBVIOUS
  <2> QED
    BY <2>1 DEF IInv, Acyclic
<1>7. Growing'
  BY <1>1, <1>5, <1>6 DEF Growing, Cats, ChildrenOf
<1> QED
  BY <1>2, <1>3, <1>4, <1>7 DEF IInv

LEMMA ExpandInv == ASSUME IInv, Expand PROVE IInv'
<1> DEFINE next == ChildrenOf(frontier)
<1>1. /\ pc = "expand" /\ pc' = "expand" /\ frontier' = next
      /\ rows' = [c \in Cats |-> IF c \in next THEN OneMore(rows[c]) ELSE rows[c]]
      /\ UNCHANGED <<parent, root, pos, stored, shelf>> /\ Cats' = Cats
  BY DEF Expand, Cats
<1>2. /\ rows \in [Cats -> {0, 1}]
      /\ frontier \subseteq Found
      /\ root \in Cats => root \in Found
      /\ \A c \in Cats : parent[c] \in Found \ frontier => c \in Found
      /\ \A c \in Found : c = root \/ parent[c] \in Found \ frontier
      /\ \A c \in Cats : parent[c] \in frontier => c \notin Found
      /\ \A S \in SUBSET Cats :
            (root \in Cats => root \in S) /\ ChildrenOf(S) \subseteq S => Found \subseteq S
  BY <1>1 DEF IInv, Growing
<1>3. next \subseteq Cats /\ Found \subseteq Cats /\ next \cap Found = {}
  BY <1>2 DEF ChildrenOf, Found
<1>4. \A c \in next : rows[c] = 0
  BY <1>2, <1>3 DEF Found
<1>5. rows' \in [Cats -> {0, 1}] /\ Found' = Found \cup next
  BY <1>1, <1>2, <1>3, <1>4 DEF OneMore, Found
<1>6. TypeOK'
  BY <1>1, <1>3, <1>5 DEF IInv, TypeOK
<1>7. Nesting'
  BY <1>1 DEF Nesting
<1>8. Acyclic(parent)'
  BY <1>1 DEF IInv, Acyclic
<1>9. ASSUME NEW c \in Cats, parent[c] \in Found' \ next PROVE c \in Found'
  <2>1. parent[c] \in Found
    BY <1>5, <1>9
  <2>2. CASE parent[c] \in frontier
    BY <1>5, <2>2 DEF ChildrenOf
  <2>3. CASE parent[c] \notin frontier
    BY <1>2, <1>5, <2>1, <2>3
  <2> QED
    BY <2>2, <2>3
<1>10. ASSUME NEW c \in Found' PROVE c = root \/ parent[c] \in Found' \ next
  BY <1>2, <1>3, <1>5 DEF ChildrenOf
<1>11. ASSUME NEW c \in Cats, parent[c] \in next, c \in Found' PROVE FALSE
  <2>1. c = root
    BY <1>10, <1>11
  <2>2. \A k \in Found' : parent[k] \in Found'
    BY <1>5, <1>10, <1>11, <2>1
  <2>3. Found' \in SUBSET Cats /\ Found' # {}
    BY <1>3, <1>5, <1>11
  <2> QED
    BY <2>2, <2>3 DEF IInv, Acyclic
<1>12. ASSUME NEW S \in SUBSET Cats, root \in Cats => root \in S, ChildrenOf(S) \subseteq S
       PROVE  Found' \subseteq S
  <2>1. Found \subseteq S
    BY <1>2, <1>12
  <2>2. next \subseteq S
    BY <1>2, <1>12, <2>1 DEF ChildrenOf
  <2> QED
    BY <1>5, <2>1, <2>2
<1>13. \A S : ChildrenOf(S)' = ChildrenOf(S)
  BY <1>1 DEF ChildrenOf
<1>14. Growing'
  BY <1>1, <1>2, <1>5, <1>9, <1>10, <1>11, <1>12, <1>13 DEF Growing
<1> QED
  BY <1>6, <1>7, <1>8, <1>14 DEF IInv

LEMMA StepInv == IInv /\ [Next]_vars => IInv'
<1> SUFFICES ASSUME IInv, [Next]_vars PROVE IInv'
  OBVIOUS
<1>1. CASE Next
  BY <1>1, StoreInv, LinkInv, FindChildrenInv, BetweenInv, SelectRootInv, ExpandInv DEF Next
<1>2. CASE UNCHANGED vars
  <2>1. TypeOK' /\ Acyclic(parent)'
    BY <1>2 DEF vars, IInv, TypeOK, Acyclic, Cats
  <2>2. Nesting'
    <3>1. UNCHANGED <<parent, pc, root, pos, stored, shelf>> /\ Nesting
      BY <1>2 DEF vars, IInv
    <3>2. /\ \A p, n : Below(p, n)' = Below(p, n)
          /\ \A S : ChildrenOf(S)' = ChildrenOf(S)
      BY <3>1 DEF Below, ChildrenOf, Cats
    <3> QED
      BY <3>1, <3>2 DEF Nesting, Cats
  <2>3. Growing'
    BY <1>2 DEF vars, IInv, Growing, Found, ChildrenOf, Cats
  <2> QED
    BY <2>1, <2>2, <2>3 DEF IInv
<1> QED
  BY <1>1, <1>2

----------------------------------------------------------------------------
\* The inductive invariant of category.service.ts, for every forest.
THEOREM InvAlways == Spec => []IInv
<1> QED
  BY InitInv, StepInv, PTL DEF Spec

\* Shelves, result rows and keys are categories.
THEOREM Typing == Spec => []TypeOK
<1>1. IInv => TypeOK
  BY DEF IInv
<1> QED
  BY <1>1, InvAlways, PTL

\* nestChildrenEntitiesUtil puts every category on the shelf of its parent,
\* once and in row order, and never looks up a parent that is not stored.
THEOREM Nests == Spec => []NestingIsComplete
<1>1. IInv => NestingIsComplete
  BY DEF IInv, Nesting, NestingIsComplete, Complete, Holds
<1> QED
  BY <1>1, InvAlways, PTL

\* The recursive query of getItemCategoryTreeByCategoryId returns the subtree
\* of its category, each row once.
THEOREM SelectsSubtree == Spec => []SubtreeOnce
<1>1. ASSUME IInv, pc = "selected", NEW c \in Cats
      PROVE  rows[c] = IF c \in Subtree THEN 1 ELSE 0
  <2>1. /\ rows \in [Cats -> {0, 1}] /\ frontier = {}
        /\ root \in Cats => root \in Found
        /\ \A k \in Cats : parent[k] \in Found \ frontier => k \in Found
        /\ \A S \in SUBSET Cats :
              (root \in Cats => root \in S) /\ ChildrenOf(S) \subseteq S => Found \subseteq S
    BY <1>1 DEF IInv, Growing
  <2>2. Found \in SUBSET Cats /\ ChildrenOf(Found) \subseteq Found
    BY <2>1 DEF Found, ChildrenOf
  <2>3. c \in Subtree => c \in Found
    BY <2>1, <2>2 DEF Subtree
  <2>4. c \in Found => c \in Subtree
    BY <2>1 DEF Subtree
  <2> QED
    BY <2>1, <2>3, <2>4 DEF Found
<1>2. IInv => SubtreeOnce
  BY <1>1 DEF SubtreeOnce
<1> QED
  BY <1>2, InvAlways, PTL

\* What EveryStepCounts says of one step.
Counts ==
    \/ Stage' < Stage
    \/ Stage' = Stage /\ Ahead' \subseteq Ahead /\ Ahead' # Ahead

\* A loop passes a row.
LEMMA LoopCounts ==
    ASSUME IInv, pos <= N, pos' = pos + 1, pc # "expand", UNCHANGED pc
    PROVE  Counts
<1>1. pos \in Nat /\ pos \in pos..N /\ pos \notin pos + 1..N
  BY RowsPassed, NAssumption DEF IInv
<1>2. pos + 1..N \subseteq pos..N
  BY <1>1, NAssumption
<1> QED
  BY <1>1, <1>2 DEF Counts, Stage, Ahead

\* A round of the query finds a category it has not found, or is the last one.
LEMMA ExpandCounts == ASSUME IInv, Expand PROVE Counts
<1> DEFINE Left == {c \in Cats : rows[c] = 0}
           next == ChildrenOf(frontier)
<1>1. /\ pc = "expand" /\ pc' = "expand" /\ frontier # {} /\ frontier' = next
      /\ rows' = [c \in Cats |-> IF c \in next THEN OneMore(rows[c]) ELSE rows[c]]
      /\ Cats' = Cats
  BY DEF Expand, Cats
<1>2. /\ rows \in [Cats -> {0, 1}] /\ next \subseteq Cats
      /\ \A c \in next : c \notin Found
  BY <1>1 DEF IInv, Growing, ChildrenOf
<1>3. \A c \in next : rows[c] = 0
  BY <1>2 DEF Found
<1>4. Left' = Left \ next
  <2>1. \A c \in Cats : rows'[c] = 0 <=> rows[c] = 0 /\ c \notin next
    BY <1>1, <1>2, <1>3 DEF OneMore
  <2> QED
    BY <1>1, <2>1
<1>5. next \subseteq Left /\ 0 \notin Left
  BY <1>2, <1>3 DEF Cats
<1>6. Ahead = Left \cup {0} /\ Ahead' = Left' \cup (IF next = {} THEN {} ELSE {0})
  BY <1>1 DEF Ahead
<1>7. Stage' = Stage
  BY <1>1 DEF Stage
<1> HIDE DEF Left, next
<1>8. Ahead' \subseteq Ahead
  BY <1>4, <1>6
<1>9. Ahead' # Ahead
  BY <1>4, <1>5, <1>6
<1> QED
  BY <1>7, <1>8, <1>9 DEF Counts

LEMMA StepCounts == IInv /\ [Next]_vars => [Counts]_vars
<1> SUFFICES ASSUME IInv, Next PROVE Counts
  OBVIOUS
<1>1. CASE Store \/ FindChildren
  BY <1>1, LoopCounts DEF Store, FindChildren
<1>2. ASSUME Stage' < Stage PROVE Counts
  BY <1>2 DEF Counts
<1>3. CASE Link
  <2>1. pc = "link" /\ pos <= N /\ pos' = pos + 1 /\ pc' \in {"link", "threw"}
    BY <1>3 DEF Link
  <2>2. CASE pc' = "threw"
    <3>1. Stage = 1 /\ Stage' = 0
      BY <2>1, <2>2 DEF Stage
    <3> QED
      BY <1>2, <3>1
  <2> QED
    BY <2>1, <2>2, LoopCounts
<1>4. CASE FindAll \/ (\E c \in Cats : FindOne(c)) \/ (\E c \in 0..N : SelectRoot(c))
  <2>1. pc = "start" /\ pc' \in {"store", "children", "expand"}
    BY <1>4 DEF FindAll, FindOne, SelectRoot
  <2>2. Stage = 3 /\ Stage' \in {1, 2}
    BY <2>1 DEF Stage
  <2> QED
    BY <1>2, <2>2
<1>5. CASE StoredAll \/ LinkedAll \/ FoundChildren \/ Expanded
  <2>1. \/ pc = "store" /\ pc' = "link"
        \/ pc \in {"link", "children", "expand"} /\ pc' \in {"nested", "found", "selected"}
    BY <1>5 DEF StoredAll, LinkedAll, FoundChildren, Expanded
  <2>2. \/ Stage = 2 /\ Stage' = 1
        \/ Stage = 1 /\ Stage' = 0
    BY <2>1 DEF Stage
  <2> QED
    BY <1>2, <2>2
<1> QED
  BY <1>1, <1>3, <1>4, <1>5, ExpandCounts DEF Next

\* Every step of a request brings it nearer to its answer: the loops over the
\* rows end, and the recursion of the query does, however deep the forest is.
THEOREM StepsCount == Spec => EveryStepCounts
<1>1. IInv /\ [Next]_vars => [Counts]_vars
  BY StepCounts
<1> QED
  BY <1>1, InvAlways, PTL DEF Spec, EveryStepCounts, Counts
============================================================================
