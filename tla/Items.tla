------------------------------- MODULE Items -------------------------------
(***************************************************************************)
(* What users do to items that exist: mark them as favorites, change their  *)
(* status, delete them (item.service.ts).  How items come to be is Upload's *)
(* subject, how they are listed Listing's.                                  *)
(*                                                                         *)
(* A handler loads entities, changes them in memory and flushes.  A flush   *)
(* writes the difference to what was loaded, whatever the rows are by then: *)
(* a status only if it is not the one loaded, a favorite as one row that is *)
(* inserted or deleted.                                                     *)
(***************************************************************************)
EXTENDS Naturals, Sequences, FiniteSets

CONSTANTS
    Users,
    Names,      \* usernames; nothing in the schema makes them unique
    Statuses,   \* values of ItemStatus
    Requests,   \* slots for HTTP requests in flight
    None,       \* no user, no status
    MaxItems,   \* bound: items ever created
    MaxRequests \* bound: requests ever received

ASSUME NoneAssumption == None \notin Users \cup Statuses
ASSUME BoundsAssumption == MaxItems \in Nat /\ MaxRequests \in Nat

VARIABLES
    name,       \* the username of each user
    items,      \* table item, ids count from 1
    favorites,  \* table user_favorite_item, PRIMARY KEY (user_id, item_id)
    req,        \* requests in flight
    received,   \* how many there were, for the bound
    (* history variables, read by properties only *)
    flipped,    \* favorites by the number of toggles carried out, odd or even
    told,       \* the status of each item by the last update carried out
    crossed,    \* favorites of which two toggles had loaded before either wrote
    raced       \* items of which two updates had

vars == <<name, items, favorites, req, received, flipped, told, crossed, raced>>

----------------------------------------------------------------------------
ItemIds == 1..Len(items)
Item == [owner : Users, status : Statuses, there : BOOLEAN]
There(i) == items[i].there

Request == [pc : {"idle", "load", "toggle", "update", "owner", "delete"},
            user : Users \cup {None}, item : Nat,
            status : Statuses \cup {None},   \* the status asked for
            loaded : Statuses \cup {None},   \* the status when it was loaded
            favorites : SUBSET Nat]          \* user.favoriteItems when loaded
Idle == [pc |-> "idle", user |-> None, item |-> 0, status |-> None, loaded |-> None,
         favorites |-> {}]

Pair(r) == <<req[r].user, req[r].item>>

Become(r, request) == req' = [req EXCEPT ![r] = request]
Answer(r) == Become(r, Idle)
Receive(r, request) ==
    /\ req[r] = Idle /\ received < MaxRequests
    /\ Become(r, request)
    /\ received' = received + 1

\* Another handler has loaded what r is about to write.
Crossing(r) == \E q \in Requests \ {r} :
    req[q].pc = req[r].pc /\ req[q].item = req[r].item /\ req[q].user = req[r].user

Init ==
    /\ name \in [Users -> Names]
    /\ items = << >>
    /\ favorites = {}
    /\ req = [r \in Requests |-> Idle] /\ received = 0
    /\ flipped = {} /\ told = << >> /\ crossed = {} /\ raced = {}

CreateItem(u, s) ==
    /\ Len(items) < MaxItems
    /\ items' = Append(items, [owner |-> u, status |-> s, there |-> TRUE])
    /\ told' = Append(told, s)
    /\ UNCHANGED <<name, favorites, req, received, flipped, crossed, raced>>

----------------------------------------------------------------------------
(* POST items/:id/user_favorites/toggle.                                   *)

\* getOneItem finds the item; the user is loaded next.
FindForToggle(r, u, i) ==
    /\ There(i)
    /\ Receive(r, [Idle EXCEPT !.pc = "load", !.user = u, !.item = i])
    /\ UNCHANGED <<name, items, favorites, flipped, told, crossed, raced>>

\* user.favoriteItems.init()
LoadNothing(r) ==   \* mutant: the collection is not initialized
    /\ req[r].pc = "load"
    /\ Become(r, [req[r] EXCEPT !.pc = "toggle"])
    /\ UNCHANGED <<name, items, favorites, received, flipped, told, crossed, raced>>
LoadFavorites(r) ==
    /\ req[r].pc = "load"
    /\ Become(r, [req[r] EXCEPT !.pc = "toggle",
                                !.favorites = {i \in ItemIds : <<req[r].user, i>> \in favorites}])
    /\ UNCHANGED <<name, items, favorites, received, flipped, told, crossed, raced>>

Flip(r) == flipped' = IF Pair(r) \in flipped THEN flipped \ {Pair(r)} ELSE flipped \cup {Pair(r)}
NoteCrossing(r) == crossed' = IF Crossing(r) THEN crossed \cup {Pair(r)} ELSE crossed

\* DELETE of the row, which may be gone.
RemoveAll(r) ==   \* mutant: the whole collection is written
    /\ req[r].pc = "toggle" /\ req[r].item \in req[r].favorites
    /\ favorites' = {f \in favorites : f[1] # req[r].user} \cup
                    {<<req[r].user, i>> : i \in req[r].favorites \ {req[r].item}}
    /\ Flip(r)
    /\ NoteCrossing(r)
    /\ Answer(r)
    /\ UNCHANGED <<name, items, received, told, raced>>
RemoveFavorite(r) ==
    /\ req[r].pc = "toggle" /\ req[r].item \in req[r].favorites
    /\ favorites' = favorites \ {Pair(r)}
    /\ Flip(r)
    /\ NoteCrossing(r)
    /\ Answer(r)
    /\ UNCHANGED <<name, items, received, told, raced>>

\* INSERT of the row; its keys refuse a second one, and one of a deleted item.
Accepted(r) == Pair(r) \notin favorites /\ There(req[r].item)

AddFavorite(r) ==
    /\ req[r].pc = "toggle" /\ req[r].item \notin req[r].favorites
    /\ \/ /\ Accepted(r)
          /\ favorites' = favorites \cup {Pair(r)}
          /\ Flip(r)
       \/ /\ ~ Accepted(r)
          /\ UNCHANGED <<favorites, flipped>>
    /\ NoteCrossing(r)
    /\ Answer(r)
    /\ UNCHANGED <<name, items, received, told, raced>>

----------------------------------------------------------------------------
(* PUT items/:id                                                           *)

\* getOneItem, then the comparison of the owner with the user of the token.
FindForUpdate(r, u, i, s) ==
    /\ There(i)
    /\ items[i].owner = u
    /\ Receive(r, [Idle EXCEPT !.pc = "update", !.user = u, !.item = i, !.status = s,
                              !.loaded = items[i].status])
    /\ UNCHANGED <<name, items, favorites, flipped, told, crossed, raced>>

NoteRace(r) == raced' = IF Crossing(r) THEN raced \cup {req[r].item} ELSE raced

\* Nothing is written if the status asked for is the one loaded, or to a row
\* that is gone.
UpdateUnflushed(r) ==   \* mutant: the change stays in memory
    /\ req[r].pc = "update"
    /\ told' = [told EXCEPT ![req[r].item] = req[r].status]
    /\ NoteRace(r)
    /\ Answer(r)
    /\ UNCHANGED <<name, items, favorites, received, flipped, crossed>>
Update(r) ==
    /\ req[r].pc = "update"
    /\ items' = IF req[r].status = req[r].loaded \/ ~ There(req[r].item) THEN items
                ELSE [items EXCEPT ![req[r].item].status = req[r].status]
    /\ told' = [told EXCEPT ![req[r].item] = req[r].status]
    /\ NoteRace(r)
    /\ Answer(r)
    /\ UNCHANGED <<name, favorites, received, flipped, crossed>>

----------------------------------------------------------------------------
(* DELETE items/:id                                                        *)

FindForDelete(r, u, i) ==
    /\ There(i)
    /\ Receive(r, [Idle EXCEPT !.pc = "owner", !.user = u, !.item = i])
    /\ UNCHANGED <<name, items, favorites, flipped, told, crossed, raced>>

\* getUserByUsername: some user of the name in the token.
CheckAnyone(r) ==   \* mutant: the comparison with the owner is left out
    /\ req[r].pc = "owner"
    /\ Become(r, [req[r] EXCEPT !.pc = "delete"])
    /\ UNCHANGED <<name, items, favorites, received, flipped, told, crossed, raced>>
CheckOwner(r) ==
    /\ req[r].pc = "owner"
    /\ \E v \in Users :
          /\ name[v] = name[req[r].user]
          /\ \/ v = items[req[r].item].owner /\ Become(r, [req[r] EXCEPT !.pc = "delete"])
             \/ v # items[req[r].item].owner /\ Answer(r)
    /\ UNCHANGED <<name, items, favorites, received, flipped, told, crossed, raced>>

\* removeAndFlush; the favorites go with the item, ON DELETE CASCADE.
DeleteKeepsFavorites(r) ==   \* mutant: the foreign key does not cascade
    /\ req[r].pc = "delete"
    /\ items' = [items EXCEPT ![req[r].item].there = FALSE]
    /\ Answer(r)
    /\ UNCHANGED <<name, favorites, received, flipped, told, crossed, raced>>
Delete(r) ==
    /\ req[r].pc = "delete"
    /\ items' = [items EXCEPT ![req[r].item].there = FALSE]
    /\ favorites' = {f \in favorites : f[2] # req[r].item}
    /\ Answer(r)
    /\ UNCHANGED <<name, received, flipped, told, crossed, raced>>

----------------------------------------------------------------------------
\* A statement fails and its transaction with it; the process dies.
Fail(r) ==
    /\ req[r] # Idle
    /\ Answer(r)
    /\ UNCHANGED <<name, items, favorites, received, flipped, told, crossed, raced>>

Crash ==
    /\ \E r \in Requests : req[r] # Idle
    /\ req' = [r \in Requests |-> Idle]
    /\ UNCHANGED <<name, items, favorites, received, flipped, told, crossed, raced>>

Arrive(r) == \E u \in Users, i \in ItemIds :
    \/ FindForToggle(r, u, i) \/ FindForDelete(r, u, i)
    \/ \E s \in Statuses : FindForUpdate(r, u, i, s)

Proceed(r) ==
    \/ LoadFavorites(r) \/ RemoveFavorite(r) \/ AddFavorite(r)
    \/ Update(r) \/ CheckOwner(r) \/ Delete(r)

Next ==
    \/ \E u \in Users, s \in Statuses : CreateItem(u, s)
    \/ \E r \in Requests : Arrive(r) \/ Proceed(r) \/ Fail(r)
    \/ Crash

Spec == Init /\ [][Next]_vars

----------------------------------------------------------------------------
\* Types and foreign keys: a favorite is one of an item that is there.
TypeOK ==
    /\ name \in [Users -> Names]
    /\ items \in Seq(Item)
    /\ favorites \subseteq Users \X ItemIds
    /\ \A f \in favorites : There(f[2])
    /\ req \in [Requests -> Request]
    /\ received \in 0..MaxRequests
    /\ flipped \subseteq Users \X ItemIds
    /\ told \in Seq(Statuses) /\ Len(told) = Len(items)
    /\ crossed \subseteq Users \X ItemIds
    /\ raced \subseteq ItemIds

\* Every toggle carried out turned the favorite over, although the toggles of
\* the user's other items load and flush the same collection; only toggles of
\* one item that both loaded before either wrote can come to the same, and
\* count as one.
TogglesFlip ==
    \A u \in Users, i \in ItemIds :
        There(i) /\ <<u, i>> \notin crossed =>
            (<<u, i>> \in favorites <=> <<u, i>> \in flipped)

\* The keys of the table refuse the row of a toggle only if another toggle of
\* the same user and item had loaded before this one's, or the item is gone.
RefusedOnlyInRaces ==
    \A r \in Requests :
        req[r].pc = "toggle" /\ req[r].item \notin req[r].favorites /\ ~ Accepted(r) =>
            Pair(r) \in crossed \/ ~ There(req[r].item)

\* The status of an item is the one its owner was last answered, unless two of
\* the owner's updates were under way at once: the later one may then ask for
\* the status it loaded, and write nothing over the other's.
StatusAsTold ==
    \A i \in ItemIds : There(i) /\ i \notin raced => items[i].status = told[i]

\* Nobody but the owner changes an item's status, and nobody deletes it but the
\* owner or, since deleteItem looks the user up by name, one of the same name.
OwnersDecide ==
    [][\A i \in ItemIds :
           /\ items'[i].status # items[i].status =>
                 \E r \in Requests : Pair(r) = <<items[i].owner, i>>
           /\ There(i) /\ ~ There(i)' =>
                 \E r \in Requests : /\ req[r].item = i /\ req[r].pc = "delete"
                                     /\ name[req[r].user] = name[items[i].owner]]_vars

Promised == INSTANCE Board WITH board <- items, starred <- favorites

\* Handlers that overlap and write from what they loaded change the tables as
\* the atomic changes of Board do: a late write of one undoes nothing of
\* another's, nor brings back anything of an item that was deleted.
ImplementsBoard == Promised!Spec
============================================================================
