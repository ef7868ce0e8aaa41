------------------------------ MODULE Listing ------------------------------
(***************************************************************************)
(* The public list of items, page by page: getItems of item.service.ts with *)
(* a cursor, and the item changes that go on while a client turns pages.    *)
(*                                                                         *)
(* A page takes two statements, a SELECT of one row more than the limit and *)
(* a COUNT, sent together on different connections: either may run first,   *)
(* and items change in between.  A request writes nothing, so one client is *)
(* enough and a request that fails and is repeated is one that came later.  *)
(***************************************************************************)
EXTENDS Naturals, Sequences, FiniteSets

CONSTANTS
    Limit,      \* query.limit
    MaxItems    \* bound: items ever created

ASSUME LimitAssumption == Limit \in Nat \ {0}
ASSUME MaxItemsAssumption == MaxItems \in Nat

VARIABLES
    items,      \* table item: whether row i is listed, ids count from 1
    pc,         \* the client: "start", "asking" or "done"
    cursor,     \* query.nextCursor, 0 when absent
    answer,     \* what the request in flight has read
    shown,      \* items shown since the client began
    (* history variables, read by properties only *)
    cursors,    \* cursors given out since the client began
    stable,     \* items listed ever since the client began
    torn        \* a page's two statements saw different lists

vars == <<items, pc, cursor, answer, shown, cursors, stable, torn>>

----------------------------------------------------------------------------
\* "listed": the row passes the filters of the query, which include PUBLISHED
\* for the public.  A deleted row never comes back.
ItemState == {"listed", "unlisted", "deleted"}

ItemIds == 1..Len(items)
Listed == {i \in ItemIds : items[i] = "listed"}

\* WHERE id < nextCursor, if there is one.
BelowAnything(c) == Listed   \* mutant: the cursor is ignored
Below(c) == {i \in Listed : c = 0 \/ i < c}

\* ORDER BY id DESC LIMIT n.
FirstAndOneMore(S, n) == {i \in S : Cardinality({j \in S : j > i}) <= n}   \* mutant
First(S, n) == {i \in S : Cardinality({j \in S : j > i}) < n}

Newest(S) == CHOOSE i \in S : \A j \in S : i >= j   \* mutant: shift() for pop()
Last(S) == CHOOSE i \in S : \A j \in S : i <= j

Answer == [read : SUBSET {"rows", "count"}, rows : SUBSET Nat, count : Nat, torn : BOOLEAN]
NoAnswer == [read |-> {}, rows |-> {}, count |-> 0, torn |-> FALSE]

\* The answer has a next cursor: count > query.limit, and a row to take it from.
MoreByRows == Cardinality(answer.rows) > Limit + 1   \* mutant
More == answer.count > Limit /\ answer.rows # {}

Init ==
    /\ items = << >>
    /\ pc = "start"
    /\ cursor = 0
    /\ answer = NoAnswer
    /\ shown = {} /\ cursors = {} /\ stable = {}
    /\ torn = FALSE

----------------------------------------------------------------------------
(* GET items, and GET items?nextCursor=..                                  *)

Begin ==
    /\ pc \in {"start", "done"}
    /\ pc' = "asking"
    /\ cursor' = 0
    /\ answer' = NoAnswer
    /\ shown' = {} /\ cursors' = {} /\ stable' = Listed
    /\ torn' = FALSE
    /\ UNCHANGED items

Select ==
    /\ pc = "asking" /\ "rows" \notin answer.read
    /\ answer' = [answer EXCEPT !.read = @ \cup {"rows"},
                                !.rows = First(Below(cursor), Limit + 1)]
    /\ UNCHANGED <<items, pc, cursor, shown, cursors, stable, torn>>

Count ==
    /\ pc = "asking" /\ "count" \notin answer.read
    /\ answer' = [answer EXCEPT !.read = @ \cup {"count"},
                                !.count = Cardinality(Below(cursor))]
    /\ UNCHANGED <<items, pc, cursor, shown, cursors, stable, torn>>

Answered == pc = "asking" /\ answer.read = {"rows", "count"}

\* The last row is taken off the page and its id is the next cursor; the client
\* asks for the page below it.
TurnPage ==
    /\ Answered /\ More
    /\ LET last == Last(answer.rows)
       IN  /\ shown' = shown \cup (answer.rows \ {last})
           /\ cursor' = last
           /\ cursors' = cursors \cup {last}
    /\ torn' = (torn \/ answer.torn)
    /\ answer' = NoAnswer
    /\ UNCHANGED <<items, pc, stable>>

LastPage ==
    /\ Answered /\ ~ More
    /\ shown' = shown \cup answer.rows
    /\ pc' = "done"
    /\ torn' = (torn \/ answer.torn)
    /\ answer' = NoAnswer
    /\ UNCHANGED <<items, cursor, cursors, stable>>

----------------------------------------------------------------------------
(* What owners do meanwhile: createItem, updateItem, deleteItem.  A row     *)
(* that commits after one with a higher id is one that appears later.      *)

Put(newItems) ==
    /\ items' = newItems
    /\ stable' = {i \in stable : newItems[i] = "listed"}
    /\ answer' = [answer EXCEPT !.torn = @ \/ Cardinality(answer.read) = 1]
    /\ UNCHANGED <<pc, cursor, shown, cursors, torn>>

CreateItem(s) ==
    /\ Len(items) < MaxItems
    /\ Put(Append(items, s))

UpdateItem(i) ==
    /\ items[i] # "deleted"
    /\ Put([items EXCEPT ![i] = IF @ = "listed" THEN "unlisted" ELSE "listed"])

DeleteItem(i) ==
    /\ items[i] # "deleted"
    /\ Put([items EXCEPT ![i] = "deleted"])

----------------------------------------------------------------------------
Handle == Select \/ Count \/ TurnPage \/ LastPage

Change ==
    \/ \E s \in {"listed", "unlisted"} : CreateItem(s)
    \/ \E i \in ItemIds : UpdateItem(i) \/ DeleteItem(i)

Next == Begin \/ Handle \/ Change

Spec == Init /\ [][Next]_vars

\* Statements are answered and the client follows the cursors it is given.
LiveSpec == Spec /\ WF_vars(Handle)

----------------------------------------------------------------------------
\* Types; a page never holds more rows than were asked for.
TypeOK ==
    /\ items \in Seq(ItemState)
    /\ pc \in {"start", "asking", "done"}
    /\ cursor \in Nat
    /\ answer \in Answer
    /\ answer.rows \subseteq ItemIds
    /\ Cardinality(answer.rows) <= Limit + 1
    /\ shown \subseteq ItemIds /\ cursors \subseteq ItemIds /\ stable \subseteq Listed
    /\ torn \in BOOLEAN

\* Whatever is created, hidden, published again or deleted between two pages,
\* no item is on two pages of one listing.
NothingTwice == answer.rows \cap shown = {}

\* At the end of a listing, an item that was listed all the time has been shown,
\* or it was taken off its page to be a cursor, or the two statements of a page
\* saw different lists.
MissedOnlyAsCursor == pc = "done" /\ ~ torn => stable \subseteq shown \cup cursors

\* A listing goes down, although items keep appearing above: a page's items come
\* below everything shown and every cursor before, its cursor below them too.
PagesDescend ==
    [][pc = "asking" =>
        /\ \A i \in shown' \ shown, j \in shown \cup cursors : i < j
        /\ \A c \in cursors' \ cursors, j \in shown' \cup cursors : c < j]_vars

\* Turning pages ends, although items keep appearing: cursors only go down.
PagingEnds == pc = "asking" ~> pc = "done"

----------------------------------------------------------------------------
(* What the comment says and the code does not do.                         *)

\* item.service.ts:204: an empty cursor is there "to indicate no more items".
\* The row taken off as the cursor is on neither page: the next page starts
\* strictly below it.
EndMeansNoMore == pc = "done" /\ ~ torn => stable \subseteq shown
============================================================================
