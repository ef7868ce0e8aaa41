----------------------------- MODULE Categories -----------------------------
(***************************************************************************)
(* The three reads of the tree of categories: all of them nested into a     *)
(* menu, one with its children, and the subtree below the category that     *)
(* getItems filters by (category.service.ts).                               *)
(*                                                                         *)
(* No code writes item_category, and a request keeps nothing: one request   *)
(* over every possible table is enough.                                     *)
(***************************************************************************)
EXTENDS Naturals, Sequences

CONSTANT N   \* number of categories

ASSUME NAssumption == N \in Nat

VARIABLES
    parent,     \* parent_id of each category, 0 for NULL
    pc,         \* where the request is
    root,       \* the category asked for, 0 for none
    pos,        \* the row a loop over all rows has come to
    stored,     \* keys of inMemoryStorage
    shelf,      \* children of each category, and the result at 0
    frontier,   \* rows the last round of the recursive query added
    rows        \* how often the query's result has each category

vars == <<parent, pc, root, pos, stored, shelf, frontier, rows>>

----------------------------------------------------------------------------
\* Categories in the order findAll returns them, which is unrelated to the
\* order of the tree: a parent may come after its children.
Cats == 1..N

\* In every set of categories one has its parent, if any, outside.
Acyclic(up) == \A S \in SUBSET Cats : S # {} => \E c \in S : up[c] \notin S

ChildrenOf(S) == {c \in Cats : parent[c] \in S}

\* UNION ALL counts a row as often as it is found; beyond two is still two.
OneMore(k) == IF k < 2 THEN k + 1 ELSE k

Init ==
    /\ parent \in {up \in [Cats -> 0..N] : Acyclic(up)}
    /\ pc = "start"
    /\ root = 0 /\ pos = 1
    /\ stored = {}
    /\ shelf = [p \in 0..N |-> << >>]
    /\ frontier = {}
    /\ rows = [c \in Cats |-> 0]

----------------------------------------------------------------------------
(* GET item-categories: nestChildrenEntitiesUtil.                          *)

FindAll ==
    /\ pc = "start"
    /\ pc' = "store"
    /\ UNCHANGED <<parent, root, pos, stored, shelf, frontier, rows>>

\* The first loop empties the children of each row and keeps the roots.
StoreAndLink ==   \* mutant: one loop does the work of both
    /\ pc = "store" /\ pos <= N
    /\ stored' = stored \cup {pos}
    /\ shelf' = [shelf EXCEPT ![pos] = << >>, ![parent[pos]] = Append(@, pos)]
    /\ pos' = pos + 1
    /\ UNCHANGED <<parent, pc, root, frontier, rows>>
Store ==
    /\ pc = "store" /\ pos <= N
    /\ stored' = stored \cup {pos}
    /\ shelf' = IF parent[pos] = 0
                THEN [shelf EXCEPT ![pos] = << >>, ![0] = Append(@, pos)]
                ELSE [shelf EXCEPT ![pos] = << >>]
    /\ pos' = pos + 1
    /\ UNCHANGED <<parent, pc, root, frontier, rows>>

StoredAll ==
    /\ pc = "store" /\ pos > N
    /\ pc' = "link" /\ pos' = 1
    /\ UNCHANGED <<parent, root, stored, shelf, frontier, rows>>

\* The second loop looks parents up; reading children of one that is not stored
\* throws.
Link ==
    /\ pc = "link" /\ pos <= N
    /\ LET p == parent[pos]
       IN  IF p \in stored \cup {0}
           THEN /\ shelf' = IF p = 0 THEN shelf ELSE [shelf EXCEPT ![p] = Append(@, pos)]
                /\ pc' = pc
           ELSE /\ shelf' = shelf
                /\ pc' = "threw"
    /\ pos' = pos + 1
    /\ UNCHANGED <<parent, root, stored, frontier, rows>>

LinkedAll ==
    /\ pc = "link" /\ pos > N
    /\ pc' = "nested"
    /\ UNCHANGED <<parent, root, pos, stored, shelf, frontier, rows>>

----------------------------------------------------------------------------
(* GET item-categories/:id: the category, then the rows with it as parent.  *)

FindOne(c) ==
    /\ pc = "start"
    /\ pc' = "children" /\ root' = c
    /\ UNCHANGED <<parent, pos, stored, shelf, frontier, rows>>

FindChildren ==
    /\ pc = "children" /\ pos <= N
    /\ shelf' = IF parent[pos] = root THEN [shelf EXCEPT ![root] = Append(@, pos)] ELSE shelf
    /\ pos' = pos + 1
    /\ UNCHANGED <<parent, pc, root, stored, frontier, rows>>

FoundChildren ==
    /\ pc = "children" /\ pos > N
    /\ pc' = "found"
    /\ UNCHANGED <<parent, root, pos, stored, shelf, frontier, rows>>

----------------------------------------------------------------------------
(* GET items?categoryId=..: WITH RECURSIVE parent_category.                 *)

\* The first SELECT finds nothing if no category is asked for.
SelectAnything(c) ==   \* mutant: a category that is not there has a row too
    /\ pc = "start"
    /\ pc' = "expand" /\ root' = c
    /\ frontier' = {c}
    /\ rows' = [k \in Cats |-> IF k = c THEN 1 ELSE 0]
    /\ UNCHANGED <<parent, pos, stored, shelf>>
SelectRoot(c) ==
    /\ pc = "start"
    /\ pc' = "expand" /\ root' = c
    /\ frontier' = {c} \cap Cats
    /\ rows' = [k \in Cats |-> IF k = c THEN 1 ELSE 0]
    /\ UNCHANGED <<parent, pos, stored, shelf>>

\* The second one runs on the rows it found in the round before.
ExpandAgain ==   \* mutant: it runs on all rows found so far
    /\ pc = "expand" /\ frontier # {}
    /\ frontier' = frontier \cup ChildrenOf(frontier)
    /\ rows' = [c \in Cats |-> IF c \in ChildrenOf(frontier) THEN OneMore(rows[c]) ELSE rows[c]]
    /\ UNCHANGED <<parent, pc, root, pos, stored, shelf>>
ExpandOnce ==   \* mutant: the query is not recursive
    /\ pc = "expand" /\ frontier # {}
    /\ frontier' = {}
    /\ rows' = [c \in Cats |-> IF c \in ChildrenOf(frontier) THEN OneMore(rows[c]) ELSE rows[c]]
    /\ UNCHANGED <<parent, pc, root, pos, stored, shelf>>
Expand ==
    /\ pc = "expand" /\ frontier # {}
    /\ frontier' = ChildrenOf(frontier)
    /\ rows' = [c \in Cats |-> IF c \in ChildrenOf(frontier) THEN OneMore(rows[c]) ELSE rows[c]]
    /\ UNCHANGED <<parent, pc, root, pos, stored, shelf>>

Expanded ==
    /\ pc = "expand" /\ frontier = {}
    /\ pc' = "selected"
    /\ UNCHANGED <<parent, root, pos, stored, shelf, frontier, rows>>

----------------------------------------------------------------------------
Next ==
    \/ FindAll \/ Store \/ StoredAll \/ Link \/ LinkedAll
    \/ \E c \in Cats : FindOne(c)
    \/ FindChildren \/ FoundChildren
    \/ \E c \in 0..N : SelectRoot(c)
    \/ Expand \/ Expanded

\* A request that was received goes on: its loops and the database do.
Spec == Init /\ [][Next]_vars /\ WF_vars(Next)

----------------------------------------------------------------------------
TypeOK ==
    /\ parent \in [Cats -> 0..N]
    /\ pc \in {"start", "store", "link", "nested", "threw", "children", "found",
               "expand", "selected"}
    /\ root \in 0..N
    /\ pos \in 1..N + 1
    /\ stored \subseteq Cats
    /\ shelf \in [0..N -> Seq(Cats)]
    /\ frontier \subseteq Cats
    /\ rows \in [Cats -> 0..2]

\* A shelf with exactly the categories of one parent, each once, in the order
\* of the rows.
Complete(p) ==
    /\ {shelf[p][k] : k \in 1..Len(shelf[p])} = ChildrenOf({p})
    /\ \A j, k \in 1..Len(shelf[p]) : j < k => shelf[p][j] < shelf[p][k]

\* Whatever order the rows come in, nesting them loses and repeats no category,
\* puts none below another than its parent, and never looks up a parent that is
\* not stored; one category comes with its own children.
NestingIsComplete ==
    /\ pc # "threw"
    /\ pc = "nested" => \A p \in 0..N : Complete(p)
    /\ pc = "found" => Complete(root)

\* The categories in every set that has the root and the children of its own.
Subtree ==
    {c \in Cats : \A S \in SUBSET Cats :
        (root \in Cats => root \in S) /\ ChildrenOf(S) \subseteq S => c \in S}

\* The items of a category are those of its whole subtree: the recursive query
\* returns each category of it once although UNION ALL removes no duplicates,
\* and no other.
SubtreeOnce ==
    pc = "selected" => \A c \in Cats : rows[c] = IF c \in Subtree THEN 1 ELSE 0

\* Every request comes to an answer; the recursion of the query does because
\* the categories form no cycle.
AnswerComes == <>(pc \in {"nested", "found", "selected"})

\* How far the request is from its answer, and what its loop has before it: rows
\* to come, or categories the query has not found and, as 0, a round to go.
Stage ==
    IF pc = "start" THEN 3 ELSE IF pc = "store" THEN 2
    ELSE IF pc \in {"link", "children", "expand"} THEN 1 ELSE 0

Ahead ==
    IF pc = "expand" THEN {c \in Cats : rows[c] = 0} \cup (IF frontier = {} THEN {} ELSE {0})
    ELSE pos..N

\* No step of a request is for nothing: each brings it to a later stage, or
\* leaves less before it than there was.  So the loops end, and the recursion of
\* the query, of which one more round finds one more category or is the last.
EveryStepCounts ==
    [][\/ Stage' < Stage
       \/ Stage' = Stage /\ Ahead' \subseteq Ahead /\ Ahead' # Ahead]_vars
============================================================================
