---------------------------- MODULE Items_proofs ----------------------------
(***************************************************************************)
(* Proofs about Items, for every set of users, names, statuses and requests *)
(* and every bound.                                                         *)
(*                                                                         *)
(* One inductive invariant, Safe: types, Ref (what a request refers to) and *)
(* Fresh (what a request has loaded is still so unless another one like it  *)
(* wrote in between), with the two invariants about the history.           *)
(***************************************************************************)
EXTENDS Items, SequenceTheorems, TLAPS

\* Items and users of requests exist; checks made stay true.
Ref(r) ==
    /\ req[r].pc = "idle" => req[r] = Idle
    /\ req[r].pc # "idle" => req[r].user \in Users /\ req[r].item \in ItemIds
    /\ req[r].pc = "update" =>
          req[r].status \in Statuses /\ items[req[r].item].owner = req[r].user
    /\ req[r].pc = "delete" => name[req[r].user] = name[items[req[r].item].owner]

\* What was loaded is still what the tables hold.
Fresh(r) ==
    /\ req[r].pc = "toggle" /\ Pair(r) \notin crossed /\ There(req[r].item) =>
          (req[r].item \in req[r].favorites <=> Pair(r) \in favorites)
    /\ req[r].pc = "update" /\ req[r].item \notin raced /\ There(req[r].item) =>
          req[r].loaded = items[req[r].item].status

Requested == \A r \in Requests : Ref(r) /\ Fresh(r)

Safe == TypeOK /\ Requested /\ TogglesFlip /\ StatusAsTold

----------------------------------------------------------------------------
LEMMA IdleIsRequest == Idle \in Request /\ Idle.pc = "idle"
  BY DEF Idle, Request

LEMMA BecomeChangesOne ==
    ASSUME req \in [Requests -> Request], NEW r \in Requests, NEW q \in Request,
           Become(r, q)
    PROVE  /\ req' \in [Requests -> Request]
           /\ req'[r] = q
           /\ \A o \in Requests : o # r => req'[o] = req[o]
  BY DEF Become

LEMMA ItemsTyped ==
    ASSUME TypeOK
    PROVE  /\ Len(items) \in Nat /\ Len(told) = Len(items)
           /\ ItemIds = 1..Len(items)
           /\ \A i \in ItemIds : i \in Nat /\ items[i] \in Item /\ told[i] \in Statuses
<1>1. items \in Seq(Item) /\ told \in Seq(Statuses) /\ Len(told) = Len(items)
  BY DEF TypeOK
<1>2. Len(items) \in Nat
  BY <1>1, LenProperties
<1>3. \A i \in 1..Len(items) : items[i] \in Item /\ told[i] \in Statuses
  BY <1>1, ElementOfSeq
<1> QED
  BY <1>1, <1>2, <1>3 DEF ItemIds

LEMMA ReplaceInSeq ==
    ASSUME NEW S, NEW s \in Seq(S), NEW i \in 1..Len(s), NEW x \in S
    PROVE  /\ [s EXCEPT ![i] = x] \in Seq(S)
           /\ Len([s EXCEPT ![i] = x]) = Len(s)
           /\ [s EXCEPT ![i] = x][i] = x
           /\ \A j \in 1..Len(s) : j # i => [s EXCEPT ![i] = x][j] = s[j]
  BY ExceptSeq

\* Rows written to an item: the others, and the number of rows, stay.
LEMMA WriteItem ==
    ASSUME TypeOK, NEW i \in ItemIds, NEW x \in Item, items' = [items EXCEPT ![i] = x]
    PROVE  /\ items' \in Seq(Item) /\ Len(items') = Len(items) /\ ItemIds' = ItemIds
           /\ items'[i] = x
           /\ \A j \in ItemIds : j # i => items'[j] = items[j]
<1>1. items \in Seq(Item) /\ i \in 1..Len(items)
  BY DEF TypeOK, ItemIds
<1> QED
  BY <1>1, ReplaceInSeq DEF ItemIds

----------------------------------------------------------------------------
LEMMA InitSafe == Init => Safe
<1> SUFFICES ASSUME Init PROVE Safe
  OBVIOUS
<1>1. TypeOK
  BY IdleIsRequest, BoundsAssumption DEF Init, TypeOK, ItemIds
<1>2. Requested
  BY IdleIsRequest DEF Init, Requested, Ref, Fresh
<1>3. TogglesFlip /\ StatusAsTold
  <2>1. ItemIds = {}
    BY DEF Init, ItemIds
  <2> QED
    BY <2>1 DEF TogglesFlip, StatusAsTold
<1> QED
  BY <1>1, <1>2, <1>3 DEF Safe

Tables == <<name, items, favorites, flipped, told, crossed, raced>>

\* A step that changes one request and no table.
LEMMA MoveSafe ==
    ASSUME Safe, NEW r \in Requests, NEW q \in Request, Become(r, q),
           UNCHANGED Tables, received' \in 0..MaxRequests, Ref(r)', Fresh(r)'
    PROVE  Safe'
<1>1. /\ req' \in [Requests -> Request] /\ req'[r] = q
      /\ \A o \in Requests : o # r => req'[o] = req[o]
  BY BecomeChangesOne DEF Safe, TypeOK
<1>2. TypeOK'
  BY <1>1 DEF Safe, TypeOK, Tables, ItemIds, There
<1>3. ASSUME NEW o \in Requests, o # r PROVE Ref(o)' /\ Fresh(o)'
  BY <1>1, <1>3 DEF Safe, Requested, Ref, Fresh, Pair, There, ItemIds, Tables
<1>4. Requested'
  BY <1>3 DEF Requested
<1>5. TogglesFlip' /\ StatusAsTold'
  BY DEF Safe, TogglesFlip, StatusAsTold, There, ItemIds, Tables
<1> QED
  BY <1>2, <1>4, <1>5 DEF Safe

\* An answered request refers to nothing.
LEMMA AnswerLeaves ==
    ASSUME TypeOK, NEW r \in Requests, Answer(r)
    PROVE  /\ req' \in [Requests -> Request] /\ req'[r] = Idle
           /\ \A o \in Requests : o # r => req'[o] = req[o]
           /\ Ref(r)' /\ Fresh(r)'
<1>1. /\ req' \in [Requests -> Request] /\ req'[r] = Idle
      /\ \A o \in Requests : o # r => req'[o] = req[o]
  BY IdleIsRequest, BecomeChangesOne DEF TypeOK, Answer
<1> QED
  BY <1>1, IdleIsRequest DEF Ref, Fresh

LEMMA ArriveSafe ==
    ASSUME Safe, NEW r \in Requests, Arrive(r)
    PROVE  Safe'
<1>1. PICK u \in Users, i \in ItemIds :
          \/ FindForToggle(r, u, i) \/ FindForDelete(r, u, i)
          \/ \E s \in Statuses : FindForUpdate(r, u, i, s)
  BY DEF Arrive
<1>2. i \in Nat /\ items[i] \in Item
  BY ItemsTyped DEF Safe
<1>3. ASSUME received < MaxRequests, received' = received + 1
      PROVE  received' \in 0..MaxRequests
  BY <1>3, BoundsAssumption DEF Safe, TypeOK
<1>4. CASE FindForToggle(r, u, i)
  <2> DEFINE q == [Idle EXCEPT !.pc = "load", !.user = u, !.item = i]
  <2>1. q \in Request /\ q.pc = "load" /\ q.user = u /\ q.item = i
    BY <1>2 DEF Idle, Request
  <2>2. Become(r, q) /\ UNCHANGED Tables /\ received' \in 0..MaxRequests
    BY <1>3, <1>4 DEF FindForToggle, Receive, Tables
  <2>3. Ref(r)' /\ Fresh(r)'
    BY <2>1, <2>2, BecomeChangesOne DEF Ref, Fresh, Safe, TypeOK, ItemIds, Tables
  <2> QED
    BY <2>1, <2>2, <2>3, MoveSafe
<1>5. CASE FindForDelete(r, u, i)
  <2> DEFINE q == [Idle EXCEPT !.pc = "owner", !.user = u, !.item = i]
  <2>1. q \in Request /\ q.pc = "owner" /\ q.user = u /\ q.item = i
    BY <1>2 DEF Idle, Request
  <2>2. Become(r, q) /\ UNCHANGED Tables /\ received' \in 0..MaxRequests
    BY <1>3, <1>5 DEF FindForDelete, Receive, Tables
  <2>3. Ref(r)' /\ Fresh(r)'
    BY <2>1, <2>2, BecomeChangesOne DEF Ref, Fresh, Safe, TypeOK, ItemIds, Tables
  <2> QED
    BY <2>1, <2>2, <2>3, MoveSafe
<1>6. ASSUME NEW s \in Statuses, FindForUpdate(r, u, i, s) PROVE Safe'
  <2> DEFINE q == [Idle EXCEPT !.pc = "update", !.user = u, !.item = i, !.status = s,
                               !.loaded = items[i].status]
  <2>1. /\ q \in Request /\ q.pc = "update" /\ q.user = u /\ q.item = i /\ q.status = s
        /\ q.loaded = items[i].status
    BY <1>2 DEF Idle, Request, Item
  <2>2. /\ Become(r, q) /\ UNCHANGED Tables /\ received' \in 0..MaxRequests
        /\ items[i].owner = u
    BY <1>3, <1>6 DEF FindForUpdate, Receive, Tables
  <2>3. Ref(r)' /\ Fresh(r)'
    BY <2>1, <2>2, BecomeChangesOne DEF Ref, Fresh, Safe, TypeOK, ItemIds, Tables
  <2> QED
    BY <2>1, <2>2, <2>3, MoveSafe
<1> QED
  BY <1>1, <1>4, <1>5, <1>6

LEMMA LoadFavoritesSafe ==
    ASSUME Safe, NEW r \in Requests, LoadFavorites(r)
    PROVE  Safe'
<1> DEFINE found == {i \in ItemIds : <<req[r].user, i>> \in favorites}
           q == [req[r] EXCEPT !.pc = "toggle", !.favorites = found]
<1>1. /\ req[r] \in Request /\ Ref(r) /\ req[r].pc = "load"
      /\ Become(r, q) /\ UNCHANGED Tables /\ UNCHANGED received
  BY DEF Safe, TypeOK, Requested, LoadFavorites, Tables
<1>2. found \in SUBSET Nat
  BY DEF ItemIds
<1>3. /\ q \in Request /\ q.pc = "toggle" /\ q.user = req[r].user /\ q.item = req[r].item
      /\ q.favorites = found
  BY <1>1, <1>2 DEF Request
<1>4. q.user \in Users /\ q.item \in ItemIds
  BY <1>1, <1>3 DEF Ref
<1>5. req'[r] = q
  BY <1>1, <1>3, BecomeChangesOne DEF Safe, TypeOK
<1>6. Ref(r)'
  BY <1>1, <1>3, <1>4, <1>5 DEF Ref, ItemIds, Tables
<1>7. Fresh(r)'
  BY <1>1, <1>3, <1>4, <1>5 DEF Fresh, Pair, Tables
<1>8. received' \in 0..MaxRequests
  BY <1>1 DEF Safe, TypeOK
<1> QED
  BY <1>1, <1>3, <1>6, <1>7, <1>8, MoveSafe

LEMMA CheckOwnerSafe ==
    ASSUME Safe, NEW r \in Requests, CheckOwner(r)
    PROVE  Safe'
<1>1. /\ req[r] \in Request /\ Ref(r) /\ req[r].pc = "owner"
      /\ UNCHANGED Tables /\ received' \in 0..MaxRequests
  BY DEF Safe, TypeOK, Requested, CheckOwner, Tables
<1>2. CASE Answer(r)
  BY <1>1, <1>2, AnswerLeaves, IdleIsRequest, MoveSafe DEF Safe, Answer
<1>3. CASE name[items[req[r].item].owner] = name[req[r].user]
           /\ Become(r, [req[r] EXCEPT !.pc = "delete"])
  <2> DEFINE q == [req[r] EXCEPT !.pc = "delete"]
  <2>1. /\ q \in Request /\ q.pc = "delete" /\ q.user = req[r].user /\ q.item = req[r].item
    BY <1>1 DEF Request
  <2>2. req'[r] = q
    BY <1>3, <2>1, BecomeChangesOne DEF Safe, TypeOK
  <2>3. Ref(r)' /\ Fresh(r)'
    BY <1>1, <1>3, <2>1, <2>2 DEF Ref, Fresh, ItemIds, Tables
  <2> QED
    BY <1>1, <1>3, <2>1, <2>3, MoveSafe
<1> QED
  BY <1>2, <1>3 DEF CheckOwner

LEMMA CreateItemSafe ==
    ASSUME Safe, NEW u \in Users, NEW s \in Statuses, CreateItem(u, s)
    PROVE  Safe'
<1> DEFINE new == [owner |-> u, status |-> s, there |-> TRUE]
           n == Len(items) + 1
<1>1. /\ new \in Item /\ n \in Nat /\ ItemIds = 1..Len(items) /\ Len(told) = Len(items)
      /\ n \notin ItemIds
  BY ItemsTyped DEF Item, Safe
<1>2. /\ items' \in Seq(Item) /\ Len(items') = n /\ items'[n] = new
      /\ \A i \in ItemIds : items'[i] = items[i]
  BY <1>1, AppendProperties DEF CreateItem, Safe, TypeOK
<1>3. /\ told' \in Seq(Statuses) /\ Len(told') = n /\ told'[n] = s
      /\ \A i \in ItemIds : told'[i] = told[i]
  BY <1>1, AppendProperties DEF CreateItem, Safe, TypeOK
<1>4. ItemIds' = ItemIds \cup {n}
  BY <1>1, <1>2 DEF ItemIds
<1>5. /\ UNCHANGED <<name, favorites, req, received, flipped, crossed, raced>>
  BY DEF CreateItem
<1>6. TypeOK'
  <2>1. \A f \in favorites : items'[f[2]].there
    BY <1>2 DEF Safe, TypeOK, There
  <2> QED
    BY <1>2, <1>3, <1>4, <1>5, <2>1 DEF Safe, TypeOK, There
<1>7. Requested'
  BY <1>2, <1>4, <1>5 DEF Safe, Requested, Ref, Fresh, Pair, There
<1>8. TogglesFlip'
  <2>1. \A u1 \in Users : <<u1, n>> \notin favorites /\ <<u1, n>> \notin flipped
    BY <1>1 DEF Safe, TypeOK
  <2> QED
    BY <1>2, <1>4, <1>5, <2>1 DEF Safe, TogglesFlip, There
<1>9. StatusAsTold'
  BY <1>2, <1>3, <1>4, <1>5 DEF Safe, StatusAsTold, There
<1> QED
  BY <1>6, <1>7, <1>8, <1>9 DEF Safe

\* A toggle writes a row, or finds it refused.
LEMMA ToggleSafe ==
    ASSUME Safe, NEW r \in Requests, RemoveFavorite(r) \/ AddFavorite(r)
    PROVE  Safe'
<1> DEFINE p == Pair(r)
<1>1. /\ req[r].pc = "toggle" /\ req[r] \in Request
      /\ req[r].user \in Users /\ req[r].item \in ItemIds
  BY IdleIsRequest DEF RemoveFavorite, AddFavorite, Safe, Requested, Ref, TypeOK
<1>2. p \in Users \X ItemIds /\ p[2] = req[r].item
  BY <1>1 DEF Pair
<1>3. /\ Answer(r) /\ NoteCrossing(r) /\ UNCHANGED <<name, items, received, told, raced>>
      /\ ItemIds' = ItemIds
  BY DEF RemoveFavorite, AddFavorite, ItemIds
<1>4. /\ req' \in [Requests -> Request] /\ req'[r] = Idle
      /\ \A o \in Requests : o # r => req'[o] = req[o]
      /\ Ref(r)' /\ Fresh(r)'
  BY <1>3, AnswerLeaves DEF Safe
<1>5. crossed' \subseteq Users \X ItemIds /\ crossed \subseteq crossed'
  BY <1>2, <1>3 DEF NoteCrossing, Safe, TypeOK
<1>6. /\ favorites' \subseteq favorites \cup {p} /\ favorites \subseteq favorites' \cup {p}
      /\ flipped' \subseteq flipped \cup {p} /\ flipped \subseteq flipped' \cup {p}
      /\ p \in favorites' => There(p[2])
  <2>1. CASE RemoveFavorite(r)
    BY <2>1 DEF RemoveFavorite, Flip
  <2>2. CASE AddFavorite(r)
    BY <1>2, <2>2 DEF AddFavorite, Flip, Accepted, Safe, TypeOK
  <2> QED
    BY <2>1, <2>2
<1>7. TypeOK'
  BY <1>2, <1>3, <1>4, <1>5, <1>6 DEF Safe, TypeOK, There
<1>8. ASSUME NEW o \in Requests, o # r PROVE Ref(o)' /\ Fresh(o)'
  <2>1. Ref(o) /\ Fresh(o) /\ req'[o] = req[o] /\ (Pair(o))' = Pair(o)
    BY <1>4, <1>8 DEF Safe, Requested, Pair
  <2>2. Ref(o)'
    BY <1>3, <2>1 DEF Ref
  <2>3. req[o].pc = "toggle" /\ Pair(o) = p => p \in crossed'
    BY <1>1, <1>3, <1>8 DEF NoteCrossing, Crossing, Pair
  <2>4. Pair(o) # p => (Pair(o) \in favorites' <=> Pair(o) \in favorites)
    BY <1>6
  <2>5. Fresh(o)'
    BY <1>3, <1>5, <2>1, <2>3, <2>4 DEF Fresh, There
  <2> QED
    BY <2>2, <2>5
<1>9. Requested'
  BY <1>4, <1>8 DEF Requested
<1>10. TogglesFlip'
  <2> SUFFICES ASSUME NEW u \in Users, NEW i \in ItemIds,
                      There(i), <<u, i>> \notin crossed'
               PROVE  <<u, i>> \in favorites' <=> <<u, i>> \in flipped'
    BY <1>3 DEF TogglesFlip, There
  <2>1. <<u, i>> \in favorites <=> <<u, i>> \in flipped
    BY <1>5 DEF Safe, TogglesFlip
  <2>2. CASE <<u, i>> # p
    BY <1>6, <2>1, <2>2
  <2>3. CASE <<u, i>> = p
    <3>1. There(req[r].item) /\ p \notin crossed /\ i = req[r].item
      BY <1>2, <1>5, <2>3
    <3>2. req[r].item \in req[r].favorites <=> p \in favorites
      BY <1>1, <3>1 DEF Safe, Requested, Fresh
    <3>3. CASE RemoveFavorite(r)
      BY <2>1, <2>3, <3>2, <3>3 DEF RemoveFavorite, Flip
    <3>4. CASE AddFavorite(r)
      BY <2>1, <2>3, <3>1, <3>2, <3>4 DEF AddFavorite, Flip, Accepted
    <3> QED
      BY <3>3, <3>4
  <2> QED
    BY <2>2, <2>3
<1>11. StatusAsTold'
  BY <1>3 DEF Safe, StatusAsTold, There
<1> QED
  BY <1>7, <1>9, <1>10, <1>11 DEF Safe

LEMMA UpdateSafe ==
    ASSUME Safe, NEW r \in Requests, Update(r)
    PROVE  Safe'
<1> DEFINE k == req[r].item
           s == req[r].status
<1>1. /\ req[r].pc = "update" /\ k \in ItemIds /\ s \in Statuses
      /\ items[k].owner = req[r].user /\ items[k] \in Item
  BY IdleIsRequest, ItemsTyped DEF Update, Safe, Requested, Ref
<1>2. /\ Answer(r) /\ NoteRace(r)
      /\ UNCHANGED <<name, favorites, received, flipped, crossed>>
  BY DEF Update
<1>3. /\ req' \in [Requests -> Request] /\ req'[r] = Idle
      /\ \A o \in Requests : o # r => req'[o] = req[o]
      /\ Ref(r)' /\ Fresh(r)'
  BY <1>2, AnswerLeaves DEF Safe
<1>4. raced' \subseteq ItemIds /\ raced \subseteq raced'
  BY <1>1, <1>2 DEF NoteRace, Safe, TypeOK
<1>5. /\ told' \in Seq(Statuses) /\ Len(told') = Len(told) /\ told'[k] = s
      /\ \A j \in ItemIds : j # k => told'[j] = told[j]
  <2>1. told \in Seq(Statuses) /\ k \in 1..Len(told) /\ ItemIds = 1..Len(told)
    BY <1>1, ItemsTyped DEF Safe, TypeOK
  <2> QED
    BY <1>1, <2>1, ReplaceInSeq DEF Update
<1> DEFINE written == ~ (s = req[r].loaded \/ ~ There(k))
<1>6. /\ items' \in Seq(Item) /\ Len(items') = Len(items) /\ ItemIds' = ItemIds
      /\ \A j \in ItemIds : /\ j # k => items'[j] = items[j]
                            /\ items'[j].owner = items[j].owner
                            /\ items'[j].there = items[j].there
      /\ items'[k].status = IF written THEN s ELSE items[k].status
  <2>1. CASE written
    <3> DEFINE x == [items[k] EXCEPT !.status = s]
    <3>1. x \in Item /\ x.owner = items[k].owner /\ x.there = items[k].there /\ x.status = s
      BY <1>1 DEF Item
    <3>2. items' = [items EXCEPT ![k] = x]
      BY <2>1 DEF Update
    <3> QED
      BY <1>1, <2>1, <3>1, <3>2, WriteItem DEF Safe
  <2>2. CASE ~ written
    BY <2>2 DEF Update, Safe, TypeOK, ItemIds
  <2> QED
    BY <2>1, <2>2
<1>7. TypeOK'
  BY <1>2, <1>3, <1>4, <1>5, <1>6 DEF Safe, TypeOK, There
<1>8. ASSUME NEW o \in Requests, o # r PROVE Ref(o)' /\ Fresh(o)'
  <2>1. Ref(o) /\ Fresh(o) /\ req'[o] = req[o] /\ (Pair(o))' = Pair(o)
    BY <1>3, <1>8 DEF Safe, Requested, Pair
  <2>2. Ref(o)'
    BY <1>2, <1>6, <2>1 DEF Ref
  <2>3. req[o].pc = "update" /\ req[o].item = k => k \in raced'
    BY <1>1, <1>2, <1>8, <2>1 DEF NoteRace, Crossing, Ref
  <2>4. req[o].pc \in {"toggle", "update"} => req[o].item \in ItemIds
    BY <2>1 DEF Ref
  <2>5. Fresh(o)'
    BY <1>2, <1>4, <1>6, <2>1, <2>3, <2>4 DEF Fresh, There
  <2> QED
    BY <2>2, <2>5
<1>9. Requested'
  BY <1>3, <1>8 DEF Requested
<1>10. TogglesFlip'
  BY <1>2, <1>6 DEF Safe, TogglesFlip, There
<1>11. StatusAsTold'
  <2> SUFFICES ASSUME NEW i \in ItemIds, There(i), i \notin raced'
               PROVE  items'[i].status = told'[i]
    BY <1>6 DEF StatusAsTold, There
  <2>1. i \notin raced /\ items[i].status = told[i]
    BY <1>4 DEF Safe, StatusAsTold
  <2>2. CASE i # k
    BY <1>5, <1>6, <2>1, <2>2
  <2>3. CASE i = k
    <3>1. req[r].loaded = items[k].status
      BY <1>1, <2>1, <2>3 DEF Safe, Requested, Fresh
    <3> QED
      BY <1>5, <1>6, <2>3, <3>1
  <2> QED
    BY <2>2, <2>3
<1> QED
  BY <1>7, <1>9, <1>10, <1>11 DEF Safe

LEMMA DeleteSafe ==
    ASSUME Safe, NEW r \in Requests, Delete(r)
    PROVE  Safe'
<1> DEFINE k == req[r].item
<1>1. /\ req[r].pc = "delete" /\ k \in ItemIds /\ items[k] \in Item
  BY IdleIsRequest, ItemsTyped DEF Delete, Safe, Requested, Ref
<1>2. /\ Answer(r)
      /\ UNCHANGED <<name, received, flipped, told, crossed, raced>>
      /\ favorites' = {f \in favorites : f[2] # k}
  BY DEF Delete
<1>3. /\ req' \in [Requests -> Request] /\ req'[r] = Idle
      /\ \A o \in Requests : o # r => req'[o] = req[o]
      /\ Ref(r)' /\ Fresh(r)'
  BY <1>2, AnswerLeaves DEF Safe
<1> DEFINE x == [items[k] EXCEPT !.there = FALSE]
<1>4. x \in Item /\ x.owner = items[k].owner /\ x.status = items[k].status /\ ~ x.there
  BY <1>1 DEF Item
<1>5. /\ items' \in Seq(Item) /\ Len(items') = Len(items) /\ ItemIds' = ItemIds
      /\ \A j \in ItemIds : /\ j # k => items'[j] = items[j]
                            /\ items'[j].owner = items[j].owner
                            /\ items'[j].status = items[j].status
      /\ ~ items'[k].there
  BY <1>1, <1>4, WriteItem DEF Delete, Safe
<1>6. TypeOK'
  <2>1. \A f \in favorites' : items'[f[2]].there
    BY <1>2, <1>5 DEF Safe, TypeOK, There
  <2> QED
    BY <1>2, <1>3, <1>5, <2>1 DEF Safe, TypeOK, There
<1>7. ASSUME NEW o \in Requests, o # r PROVE Ref(o)' /\ Fresh(o)'
  <2>1. Ref(o) /\ Fresh(o) /\ req'[o] = req[o] /\ (Pair(o))' = Pair(o)
    BY <1>3, <1>7 DEF Safe, Requested, Pair
  <2>2. Ref(o)'
    BY <1>2, <1>5, <2>1 DEF Ref
  <2>3. req[o].pc \in {"toggle", "update"} => req[o].item \in ItemIds
    BY <2>1 DEF Ref
  <2>4. req[o].item # k => (Pair(o) \in favorites' <=> Pair(o) \in favorites)
    BY <1>2 DEF Pair
  <2>5. Fresh(o)'
    BY <1>2, <1>5, <2>1, <2>3, <2>4 DEF Fresh, There
  <2> QED
    BY <2>2, <2>5
<1>8. Requested'
  BY <1>3, <1>7 DEF Requested
<1>9. TogglesFlip'
  BY <1>2, <1>5 DEF Safe, TogglesFlip, There
<1>10. StatusAsTold'
  BY <1>2, <1>5 DEF Safe, StatusAsTold, There
<1> QED
  BY <1>6, <1>8, <1>9, <1>10 DEF Safe

LEMMA FailSafe ==
    ASSUME Safe, NEW r \in Requests, Fail(r)
    PROVE  Safe'
<1>1. Answer(r) /\ UNCHANGED Tables /\ received' \in 0..MaxRequests
  BY DEF Fail, Tables, Safe, TypeOK
<1> QED
  BY <1>1, AnswerLeaves, IdleIsRequest, MoveSafe DEF Answer, Safe

LEMMA CrashSafe == ASSUME Safe, Crash PROVE Safe'
<1>1. /\ req' = [r \in Requests |-> Idle]
      /\ UNCHANGED <<name, items, favorites, received, flipped, told, crossed, raced>>
  BY DEF Crash
<1>2. TypeOK'
  BY <1>1, IdleIsRequest DEF Safe, TypeOK, ItemIds, There
<1>3. Requested'
  BY <1>1, IdleIsRequest DEF Requested, Ref, Fresh
<1>4. TogglesFlip' /\ StatusAsTold'
  BY <1>1 DEF Safe, TogglesFlip, StatusAsTold, There, ItemIds
<1> QED
  BY <1>2, <1>3, <1>4 DEF Safe

LEMMA StepSafe == Safe /\ [Next]_vars => Safe'
<1> SUFFICES ASSUME Safe, [Next]_vars PROVE Safe'
  OBVIOUS
<1>1. ASSUME NEW u \in Users, NEW s \in Statuses, CreateItem(u, s) PROVE Safe'
  BY <1>1, CreateItemSafe
<1>2. ASSUME NEW r \in Requests, Arrive(r) PROVE Safe'
  BY <1>2, ArriveSafe
<1>3. ASSUME NEW r \in Requests, Proceed(r) PROVE Safe'
  BY <1>3, LoadFavoritesSafe, ToggleSafe, UpdateSafe, CheckOwnerSafe, DeleteSafe DEF Proceed
<1>4. ASSUME NEW r \in Requests, Fail(r) PROVE Safe'
  BY <1>4, FailSafe
<1>5. CASE Crash
  BY <1>5, CrashSafe
<1>6. CASE UNCHANGED vars
  <2>1. TypeOK'
    BY <1>6 DEF vars, Safe, TypeOK, ItemIds, There
  <2>2. Requested'
    BY <1>6 DEF vars, Safe, Requested, Ref, Fresh, Pair, ItemIds, There
  <2>3. TogglesFlip' /\ StatusAsTold'
    BY <1>6 DEF vars, Safe, TogglesFlip, StatusAsTold, ItemIds, There
  <2> QED
    BY <2>1, <2>2, <2>3 DEF Safe
<1> QED
  BY <1>1, <1>2, <1>3, <1>4, <1>5, <1>6 DEF Next

----------------------------------------------------------------------------
\* The inductive invariant of item.service.ts: types, references and what the
\* requests in flight have loaded, at every step.
THEOREM SafeAlways == Spec => []Safe
<1> QED
  BY InitSafe, StepSafe, PTL DEF Spec

\* The tables hold what their columns and foreign keys allow: favorites are of
\* items that are there, also when a toggle is overtaken by a delete.
THEOREM Typing == Spec => []TypeOK
<1>1. Safe => TypeOK
  BY DEF Safe
<1> QED
  BY <1>1, SafeAlways, PTL

\* toggleUserFavoriteItem turns its favorite over each time it is carried out,
\* except when two toggles of the same one crossed.
THEOREM TogglesCount == Spec => []TogglesFlip
<1>1. Safe => TogglesFlip
  BY DEF Safe
<1> QED
  BY <1>1, SafeAlways, PTL

\* The primary key of user_favorite_item refuses a row only to a toggle that
\* another one of the same favorite crossed, or whose item is gone.
THEOREM RefusalsAreRaces == Spec => []RefusedOnlyInRaces
<1>1. Safe => RefusedOnlyInRaces
  BY DEF Safe, Requested, Fresh, RefusedOnlyInRaces, Accepted
<1> QED
  BY <1>1, SafeAlways, PTL

\* updateItem leaves the status its owner asked for, except when two updates
\* of one item crossed.
THEOREM StatusKept == Spec => []StatusAsTold
<1>1. Safe => StatusAsTold
  BY DEF Safe
<1> QED
  BY <1>1, SafeAlways, PTL

\* The owner of an item, as far as one step can tell.
Decided ==
    \A i \in ItemIds :
        /\ items'[i].status # items[i].status =>
              \E r \in Requests : Pair(r) = <<items[i].owner, i>>
        /\ There(i) /\ ~ There(i)' =>
              \E r \in Requests : /\ req[r].item = i /\ req[r].pc = "delete"
                                  /\ name[req[r].user] = name[items[i].owner]

LEMMA StepDecided == Safe /\ [Next]_vars => Decided
<1> SUFFICES ASSUME Safe, [Next]_vars, NEW i \in ItemIds, items'[i] # items[i]
             PROVE  /\ items'[i].status # items[i].status =>
                          \E r \in Requests : Pair(r) = <<items[i].owner, i>>
                    /\ There(i) /\ ~ There(i)' =>
                          \E r \in Requests : /\ req[r].item = i /\ req[r].pc = "delete"
                                              /\ name[req[r].user] = name[items[i].owner]
  BY DEF Decided, There
<1>1. items \in Seq(Item) /\ i \in 1..Len(items)
  BY DEF Safe, TypeOK, ItemIds
<1>2. ASSUME NEW u \in Users, NEW s \in Statuses, CreateItem(u, s) PROVE FALSE
  <2>1. [owner |-> u, status |-> s, there |-> TRUE] \in Item
    BY DEF Item
  <2> QED
    BY <1>1, <1>2, <2>1, AppendProperties DEF CreateItem
<1>3. PICK r \in Requests : Update(r) \/ Delete(r)
  BY <1>2 DEF Next, vars, Arrive, Proceed, FindForToggle, FindForUpdate, FindForDelete,
              LoadFavorites, RemoveFavorite, AddFavorite, CheckOwner, Fail, Crash
<1> DEFINE k == req[r].item
<1>4. k \in ItemIds /\ items[k] \in Item /\ Ref(r)
  BY <1>3, ItemsTyped, IdleIsRequest DEF Update, Delete, Safe, Requested, Ref
<1>5. CASE Update(r)
  <2> DEFINE x == [items[k] EXCEPT !.status = req[r].status]
  <2>1. x \in Item /\ x.there = items[k].there
    BY <1>4, <1>5 DEF Update, Ref, Item
  <2>2. items' = [items EXCEPT ![k] = x]
    BY <1>5 DEF Update
  <2>3. i = k /\ items'[i] = x
    BY <1>4, <2>1, <2>2, WriteItem DEF Safe
  <2>4. items[k].owner = req[r].user
    BY <1>4, <1>5 DEF Update, Ref
  <2> QED
    BY <2>1, <2>3, <2>4 DEF Pair, There
<1>6. CASE Delete(r)
  <2> DEFINE x == [items[k] EXCEPT !.there = FALSE]
  <2>1. x \in Item /\ x.status = items[k].status
    BY <1>4 DEF Item
  <2>2. items' = [items EXCEPT ![k] = x]
    BY <1>6 DEF Delete
  <2>3. i = k /\ items'[i] = x
    BY <1>4, <2>1, <2>2, WriteItem DEF Safe
  <2>4. name[req[r].user] = name[items[k].owner] /\ req[r].pc = "delete"
    BY <1>4, <1>6 DEF Delete, Ref
  <2> QED
    BY <2>1, <2>3, <2>4
<1> QED
  BY <1>3, <1>5, <1>6

\* The checks of updateItem and deleteItem hold at the write they guard: no
\* step changes an item for anybody but its owner or the owner's namesake.
THEOREM OwnersDecideAlways == Spec => OwnersDecide
<1>1. Safe /\ [Next]_vars => [Decided]_vars
  BY StepDecided
<1> QED
  BY <1>1, SafeAlways, PTL DEF Spec, OwnersDecide, Decided

----------------------------------------------------------------------------
(* Items implements Board.                                                 *)

LEMMA InitImplements == Init => Promised!Init
  BY DEF Init, Promised!Init

LEMMA CreatePosts ==
    ASSUME NEW u \in Users, NEW s \in Statuses, CreateItem(u, s)
    PROVE  Promised!Next
<1>1. Promised!Post(u, s)
  BY DEF CreateItem, Promised!Post
<1> QED
  BY <1>1 DEF Promised!Next

\* A toggle writes one row, or finds it written or refused.
LEMMA ToggleStars ==
    ASSUME Safe, NEW r \in Requests, RemoveFavorite(r) \/ AddFavorite(r)
    PROVE  Promised!Next \/ UNCHANGED <<items, favorites>>
<1> DEFINE u == req[r].user
           i == req[r].item
<1>1. u \in Users /\ i \in 1..Len(items)
  BY IdleIsRequest DEF RemoveFavorite, AddFavorite, Safe, Requested, Ref, ItemIds
<1>2. CASE RemoveFavorite(r)
  <2>1. Promised!Unstar(u, i)
    BY <1>2 DEF RemoveFavorite, Pair, Promised!Unstar
  <2> QED
    BY <1>1, <2>1 DEF Promised!Next
<1>3. CASE AddFavorite(r)
  <2>1. CASE Accepted(r)
    <3>1. Promised!Star(u, i)
      BY <1>3, <2>1 DEF AddFavorite, Accepted, Pair, There, Promised!Star, Promised!There
    <3> QED
      BY <1>1, <3>1 DEF Promised!Next
  <2>2. CASE ~ Accepted(r)
    BY <1>3, <2>2 DEF AddFavorite
  <2> QED
    BY <2>1, <2>2
<1> QED
  BY <1>2, <1>3

\* An update writes the status it was asked for, or nothing.
LEMMA UpdateSets ==
    ASSUME Safe, NEW r \in Requests, Update(r)
    PROVE  Promised!Next \/ UNCHANGED <<items, favorites>>
<1> DEFINE i == req[r].item
           s == req[r].status
<1>1. i \in 1..Len(items) /\ s \in Statuses
  BY IdleIsRequest DEF Update, Safe, Requested, Ref, ItemIds
<1>2. CASE s = req[r].loaded \/ ~ There(i)
  BY <1>2 DEF Update
<1>3. CASE ~ (s = req[r].loaded \/ ~ There(i))
  <2>1. Promised!SetStatus(i, s)
    BY <1>3 DEF Update, There, Promised!SetStatus, Promised!There
  <2> QED
    BY <1>1, <2>1 DEF Promised!Next
<1> QED
  BY <1>2, <1>3

\* A delete takes the item and its favorites; of an item that is gone there is
\* neither row nor favorite left.
LEMMA DeleteRemoves ==
    ASSUME Safe, NEW r \in Requests, Delete(r)
    PROVE  Promised!Next \/ UNCHANGED <<items, favorites>>
<1> DEFINE i == req[r].item
<1>1. i \in 1..Len(items) /\ i \in ItemIds /\ items[i] \in Item
  BY ItemsTyped, IdleIsRequest DEF Delete, Safe, Requested, Ref, ItemIds
<1>2. /\ items' = [items EXCEPT ![i] = [items[i] EXCEPT !.there = FALSE]]
      /\ favorites' = {f \in favorites : f[2] # i}
  BY DEF Delete
<1>3. CASE There(i)
  <2>1. Promised!Remove(i)
    BY <1>3 DEF Delete, There, Promised!Remove, Promised!There
  <2> QED
    BY <1>1, <2>1 DEF Promised!Next
<1>4. CASE ~ There(i)
  <2>1. \A f \in favorites : f[2] # i
    BY <1>4 DEF Safe, TypeOK
  <2>2. favorites' = favorites
    BY <1>2, <2>1
  <2>3. [items[i] EXCEPT !.there = FALSE] = items[i]
    BY <1>1, <1>4 DEF Item, There
  <2>4. items' = items
    BY <1>1, <1>2, <2>3 DEF Safe, TypeOK
  <2> QED
    BY <2>2, <2>4
<1> QED
  BY <1>3, <1>4

LEMMA StepImplements == Safe /\ [Next]_vars => [Promised!Next]_(Promised!vars)
<1> SUFFICES ASSUME Safe, [Next]_vars
             PROVE  Promised!Next \/ UNCHANGED <<items, favorites>>
  BY DEF Promised!vars
<1>1. ASSUME NEW u \in Users, NEW s \in Statuses, CreateItem(u, s)
      PROVE  Promised!Next
  BY <1>1, CreatePosts
<1>2. ASSUME NEW r \in Requests, Proceed(r)
      PROVE  Promised!Next \/ UNCHANGED <<items, favorites>>
  <2>1. CASE LoadFavorites(r) \/ CheckOwner(r)
    BY <2>1 DEF LoadFavorites, CheckOwner
  <2> QED
    BY <1>2, <2>1, ToggleStars, UpdateSets, DeleteRemoves DEF Proceed
<1>3. ASSUME NEW r \in Requests, Arrive(r) \/ Fail(r) PROVE UNCHANGED <<items, favorites>>
  BY <1>3 DEF Arrive, FindForToggle, FindForUpdate, FindForDelete, Fail
<1>4. CASE Crash \/ UNCHANGED vars
  BY <1>4 DEF Crash, vars
<1> QED
  BY <1>1, <1>2, <1>3, <1>4 DEF Next

\* The overlapping handlers of item.service.ts, each reading before it writes,
\* change items and favorites one atomic change of Board at a time.
THEOREM Implements == Spec => ImplementsBoard
<1>1. Safe /\ [Next]_vars => [Promised!Next]_(Promised!vars)
  BY StepImplements
<1> QED
  BY InitImplements, <1>1, SafeAlways, PTL DEF Spec, ImplementsBoard, Promised!Spec
=============================================================================
