--------------------------- MODULE Session_proofs ---------------------------
(***************************************************************************)
(* Proofs about Session, for every set of users and requests.              *)
(*                                                                         *)
(* One inductive invariant, Safe: types, Owners (whose tokens rows and     *)
(* requests refer to) and FreshIds (the id a floating upsert may insert    *)
(* has never been a row's id), from which the properties follow.           *)
(***************************************************************************)
EXTENDS Session, SequenceTheorems, TLAPS

\* Rows, requests and tokens refer to tokens of their own user.
RowOwner(u) ==
    Present(u) => /\ row[u].id \in Tokens /\ row[u].id # 0
                  /\ row[u].hash \in Tokens
                  /\ issued[row[u].id].user = u
                  /\ issued[row[u].hash].user = u

RequestOwner(r) ==
    req[r].pc # "idle" =>
        /\ req[r].user \in Users
        /\ req[r].pc = "answer" => req[r].token \in Tokens
        /\ req[r].pc \in {"rotate", "delete"} =>
              req[r].id \in Tokens /\ issued[req[r].id].user = req[r].user

Owners == (\A u \in Users : RowOwner(u)) /\ (\A r \in Requests : RequestOwner(r))

\* The token of a floating upsert is nobody's row id, now or before.
FreshIds ==
    /\ ended \subseteq Tokens
    /\ \A t \in floating :
          /\ t \notin ended
          /\ \A u \in Users : row[u].id # t
          /\ \A r \in Requests : req[r].pc \in {"rotate", "delete"} => req[r].id # t

Safe == TypeOK /\ Owners /\ FreshIds /\ LoggedOutStaysOut

----------------------------------------------------------------------------
LEMMA TokensAreNat == ASSUME TypeOK PROVE Len(issued) \in Nat /\ Tokens \subseteq Nat \ {0}
  BY DEF TypeOK, Tokens

LEMMA IdleIsRequest == Idle \in Request /\ Idle.pc = "idle"
  BY DEF Idle, Request

LEMMA BecomeChangesOne ==
    ASSUME req \in [Requests -> Request], NEW r \in Requests, NEW q \in Request,
           Become(r, q)
    PROVE  /\ req' \in [Requests -> Request]
           /\ req'[r] = q
           /\ \A o \in Requests : o # r => req'[o] = req[o]
  BY DEF Become

\* Signing a token moves no other token.
LEMMA SignToken ==
    ASSUME TypeOK, NEW u \in Users, NEW t \in Nat, t = Len(issued) + 1,
           issued' = Append(issued, [user |-> u, live |-> TRUE])
    PROVE  /\ issued' \in Seq(Token)
           /\ Tokens' = Tokens \cup {t} /\ t \notin Tokens
           /\ issued'[t].user = u
           /\ \A k \in Tokens : issued'[k].user = issued[k].user
<1> DEFINE new == [user |-> u, live |-> TRUE]
<1>1. new \in Token
  BY DEF Token
<1>2. Len(issued) \in Nat
  BY TokensAreNat
<1>3. /\ issued' \in Seq(Token) /\ Len(issued') = t
      /\ \A k \in 1..Len(issued) : issued'[k] = issued[k]
      /\ issued'[t] = new
  BY <1>1, <1>2, AppendProperties DEF TypeOK
<1> QED
  BY <1>2, <1>3 DEF Tokens

----------------------------------------------------------------------------
LEMMA InitSafe == Init => Safe
<1> SUFFICES ASSUME Init PROVE Safe
  OBVIOUS
<1>1. TypeOK
  BY IdleIsRequest DEF Init, TypeOK, Tokens, NoRow, Row
<1>2. Owners /\ FreshIds /\ LoggedOutStaysOut
  BY IdleIsRequest DEF Init, Owners, RowOwner, RequestOwner, FreshIds, LoggedOutStaysOut, Present
<1> QED
  BY <1>1, <1>2 DEF Safe

\* A step that changes one request and signs no token, stores and deletes nothing.
LEMMA MoveSafe ==
    ASSUME Safe, NEW r \in Requests, NEW q \in Request, Become(r, q),
           UNCHANGED <<row, issued, floating, ended>>,
           held' \subseteq Tokens, access' \subseteq Users,
           q.pc # "idle" => /\ q.user \in Users
                            /\ q.pc \in {"rotate", "delete"}
                            /\ Present(q.user) /\ q.id = row[q.user].id
    PROVE  Safe'
<1>1. /\ req' \in [Requests -> Request] /\ req'[r] = q
      /\ \A o \in Requests : o # r => req'[o] = req[o]
  BY BecomeChangesOne DEF Safe, TypeOK
<1>2. TypeOK'
  BY <1>1 DEF Safe, TypeOK, Tokens
<1>3. q.pc # "idle" => q.id \in Tokens /\ issued[q.id].user = q.user
  BY DEF Safe, Owners, RowOwner
<1>4. Owners'
  BY <1>1, <1>3 DEF Safe, Owners, RowOwner, RequestOwner, Tokens, Present
<1>5. FreshIds'
  BY <1>1 DEF Safe, FreshIds, Tokens
<1>6. LoggedOutStaysOut'
  BY DEF Safe, LoggedOutStaysOut, Present
<1> QED
  BY <1>2, <1>4, <1>5, <1>6 DEF Safe

LEMMA LoginSafe ==
    ASSUME Safe, NEW r \in Requests, NEW u \in Users, Login(r, u)
    PROVE  Safe'
<1>1. PICK t \in Nat : t = Len(issued) + 1
  BY TokensAreNat DEF Safe
<1> DEFINE q == [Idle EXCEPT !.pc = "answer", !.user = u, !.token = t]
<1>2. /\ Become(r, q) /\ UNCHANGED <<row, held, access, ended>>
      /\ issued' = Append(issued, [user |-> u, live |-> TRUE])
      /\ floating' = floating \cup {t}
  BY <1>1 DEF Login
<1>3. q \in Request /\ q.pc = "answer" /\ q.user = u /\ q.token = t
  BY DEF Idle, Request
<1>4. /\ req' \in [Requests -> Request] /\ req'[r] = q
      /\ \A o \in Requests : o # r => req'[o] = req[o]
  BY <1>2, <1>3, BecomeChangesOne DEF Safe, TypeOK
<1>5. /\ issued' \in Seq(Token) /\ Tokens' = Tokens \cup {t} /\ t \notin Tokens
      /\ \A k \in Tokens : issued'[k].user = issued[k].user
  BY <1>1, <1>2, SignToken DEF Safe
<1>6. TypeOK'
  BY <1>2, <1>4, <1>5 DEF Safe, TypeOK
<1>7. Owners'
  <2>1. \A v \in Users : RowOwner(v)'
    BY <1>2, <1>5 DEF Safe, Owners, RowOwner, Present
  <2>2. ASSUME NEW o \in Requests PROVE RequestOwner(o)'
    <3>1. CASE o = r
      BY <1>3, <1>4, <1>5, <3>1 DEF RequestOwner
    <3>2. CASE o # r
      BY <1>4, <1>5, <3>2 DEF Safe, Owners, RequestOwner
    <3> QED
      BY <3>1, <3>2
  <2> QED
    BY <2>1, <2>2 DEF Owners
<1>8. FreshIds'
  <2> SUFFICES ASSUME NEW k \in floating'
               PROVE  /\ k \notin ended
                      /\ \A v \in Users : row[v].id # k
                      /\ \A o \in Requests : req'[o].pc \in {"rotate", "delete"} => req'[o].id # k
    BY <1>2, <1>5 DEF Safe, FreshIds
  <2>1. CASE k \in floating
    BY <1>3, <1>4, <2>1 DEF Safe, FreshIds
  <2>2. CASE k = t
    <3>1. t # 0 /\ t \notin ended
      <4>1. t # 0
        BY <1>1, TokensAreNat DEF Safe
      <4> QED
        BY <1>5, <4>1 DEF Safe, FreshIds
    <3>2. ASSUME NEW v \in Users PROVE row[v].id # t
      <4>1. CASE Present(v)
        BY <1>5, <4>1 DEF Safe, Owners, RowOwner
      <4>2. CASE row[v] = NoRow
        BY <3>1, <4>2 DEF NoRow
      <4> QED
        BY <4>1, <4>2 DEF Present
    <3>3. ASSUME NEW o \in Requests, req'[o].pc \in {"rotate", "delete"}
          PROVE  req'[o].id # t
      <4>1. o # r /\ req'[o] = req[o]
        BY <1>3, <1>4, <3>3
      <4>2. req[o].id \in Tokens
        BY <3>3, <4>1 DEF Safe, Owners, RequestOwner
      <4> QED
        BY <1>5, <4>1, <4>2
    <3> QED
      BY <2>2, <3>1, <3>2, <3>3
  <2> QED
    BY <1>2, <2>1, <2>2
<1>9. LoggedOutStaysOut'
  BY <1>2 DEF Safe, LoggedOutStaysOut, Present
<1> QED
  BY <1>6, <1>7, <1>8, <1>9 DEF Safe

LEMMA StoreSafe ==
    ASSUME Safe, NEW t \in Tokens, Store(t)
    PROVE  Safe'
<1>1. PICK u \in Users : u = issued[t].user
  <2>1. issued[t] \in Token
    BY ElementOfSeq DEF Safe, TypeOK, Tokens
  <2> QED
    BY <2>1 DEF Token
<1> DEFINE new == [id |-> IF Present(u) THEN row[u].id ELSE t, hash |-> t]
<1>2. /\ t \in floating /\ floating' = floating \ {t}
      /\ row' = [row EXCEPT ![u] = new]
      /\ UNCHANGED <<issued, held, access, req, ended>>
  BY <1>1 DEF Store
<1>3. t \in Nat \ {0} /\ new.id \in Tokens /\ new.id \in Nat \ {0} /\ issued[new.id].user = u
  BY <1>1, TokensAreNat DEF Safe, Owners, RowOwner
<1>4. new \in Row
  BY <1>3 DEF Row
<1>5. row' \in [Users -> Row] /\ \A v \in Users : row'[v] = IF v = u THEN new ELSE row[v]
  BY <1>2, <1>4 DEF Safe, TypeOK
<1>6. TypeOK'
  BY <1>2, <1>5 DEF Safe, TypeOK, Tokens
<1>7. Owners'
  <2>1. Tokens' = Tokens /\ NoRow' = NoRow
    BY <1>2 DEF Tokens
  <2>2. ASSUME NEW v \in Users PROVE RowOwner(v)'
    <3>1. CASE v = u
      <4>1. row'[v] = new /\ new.hash = t /\ issued' = issued /\ issued[t].user = u
        BY <1>1, <1>2, <1>5, <3>1
      <4> HIDE DEF new
      <4> QED
        BY <1>3, <2>1, <3>1, <4>1 DEF RowOwner
    <3>2. CASE v # u
      <4>1. row'[v] = row[v] /\ issued' = issued /\ RowOwner(v)
        BY <1>2, <1>5, <3>2 DEF Safe, Owners
      <4> QED
        BY <2>1, <4>1 DEF RowOwner, Present, NoRow
    <3> QED
      BY <3>1, <3>2
  <2>3. \A r \in Requests : RequestOwner(r)'
    BY <1>2, <2>1 DEF Safe, Owners, RequestOwner
  <2> QED
    BY <2>2, <2>3 DEF Owners
<1>8. new.id # t => Present(u) /\ new.id = row[u].id
  OBVIOUS
<1>9. \A k \in floating' : new.id # k
  BY <1>2, <1>8 DEF Safe, FreshIds
<1>10. FreshIds'
  BY <1>2, <1>5, <1>9 DEF Safe, FreshIds, Tokens
<1>11. new.id \notin ended
  BY <1>2, <1>8 DEF Safe, FreshIds, LoggedOutStaysOut
<1>12. LoggedOutStaysOut'
  BY <1>2, <1>5, <1>11 DEF Safe, LoggedOutStaysOut, Present
<1> QED
  BY <1>6, <1>7, <1>10, <1>12 DEF Safe

LEMMA FindSessionSafe ==
    ASSUME Safe, NEW r \in Requests, NEW t \in Tokens, FindSession(r, t)
    PROVE  Safe'
<1>1. PICK u \in Users : u = issued[t].user
  <2>1. issued[t] \in Token
    BY ElementOfSeq DEF Safe, TypeOK, Tokens
  <2> QED
    BY <2>1 DEF Token
<1> DEFINE q == [pc |-> "rotate", user |-> u, token |-> t,
                 id |-> row[u].id, hash |-> row[u].hash]
<1>2. q \in Request
  BY TokensAreNat DEF Safe, TypeOK, Row, Request
<1>3. Become(r, q) /\ Present(u)
  BY <1>1 DEF FindSession
<1> QED
  BY <1>2, <1>3, MoveSafe DEF FindSession, Safe, TypeOK

LEMMA FindOwnSafe ==
    ASSUME Safe, NEW r \in Requests, NEW u \in Users, FindOwn(r, u)
    PROVE  Safe'
<1> DEFINE q == [pc |-> "delete", user |-> u, token |-> 0,
                 id |-> row[u].id, hash |-> row[u].hash]
<1>1. q \in Request
  BY DEF Safe, TypeOK, Row, Request
<1> QED
  BY <1>1, MoveSafe DEF FindOwn, Safe, TypeOK

LEMMA RotateSafe ==
    ASSUME Safe, NEW r \in Requests, Rotate(r)
    PROVE  Safe'
<1>1. PICK t \in Nat, u \in Users : t = Len(issued) + 1 /\ u = req[r].user
  BY TokensAreNat DEF Safe, Owners, RequestOwner, Rotate
<1> DEFINE q == [Idle EXCEPT !.pc = "answer", !.user = u, !.token = t]
           new == [row[u] EXCEPT !.hash = t]
<1>2. /\ Become(r, q) /\ UNCHANGED <<floating, held, access, ended>>
      /\ issued' = Append(issued, [user |-> u, live |-> TRUE])
      /\ row' = IF row[u].id = req[r].id THEN [row EXCEPT ![u] = new] ELSE row
  BY <1>1 DEF Rotate
<1>3. q \in Request /\ q.pc = "answer" /\ q.user = u /\ q.token = t
  BY DEF Idle, Request
<1>4. /\ req' \in [Requests -> Request] /\ req'[r] = q
      /\ \A o \in Requests : o # r => req'[o] = req[o]
  BY <1>2, <1>3, BecomeChangesOne DEF Safe, TypeOK
<1>5. /\ issued' \in Seq(Token) /\ Tokens' = Tokens \cup {t} /\ t \notin Tokens
      /\ issued'[t].user = u
      /\ \A k \in Tokens : issued'[k].user = issued[k].user
  BY <1>1, <1>2, SignToken DEF Safe
<1>6. /\ row[u] \in Row /\ new \in Row /\ new.id = row[u].id /\ new.hash = t
      /\ req[r].id \in Tokens /\ req[r].id # 0
  BY <1>1, TokensAreNat DEF Safe, TypeOK, Row, Owners, RequestOwner, Rotate
<1>7. /\ row' \in [Users -> Row]
      /\ \A v \in Users : row'[v] = row[v] \/ (v = u /\ row'[v] = new /\ Present(v))
  BY <1>2, <1>6 DEF Safe, TypeOK, Present, NoRow
<1>8. TypeOK'
  BY <1>2, <1>4, <1>5, <1>7 DEF Safe, TypeOK
<1>9. Owners'
  <2>1. ASSUME NEW v \in Users PROVE RowOwner(v)'
    <3>1. CASE row'[v] = row[v]
      BY <1>5, <3>1 DEF Safe, Owners, RowOwner, Present
    <3>2. CASE v = u /\ row'[v] = new /\ Present(v)
      BY <1>5, <1>6, <3>2 DEF Safe, Owners, RowOwner
    <3> QED
      BY <1>7, <3>1, <3>2
  <2>2. ASSUME NEW o \in Requests PROVE RequestOwner(o)'
    <3>1. CASE o = r
      BY <1>3, <1>4, <1>5, <3>1 DEF RequestOwner
    <3>2. CASE o # r
      BY <1>4, <1>5, <3>2 DEF Safe, Owners, RequestOwner
    <3> QED
      BY <3>1, <3>2
  <2> QED
    BY <2>1, <2>2 DEF Owners
<1>10. \A v \in Users : row'[v].id = row[v].id /\ (Present(v)' => Present(v))
  BY <1>6, <1>7 DEF Present
<1>11. FreshIds'
  <2>1. \A o \in Requests : req'[o].pc \in {"rotate", "delete"} => req'[o] = req[o]
    BY <1>3, <1>4
  <2>2. ended' \subseteq Tokens'
    BY <1>2, <1>5 DEF Safe, FreshIds
  <2>3. \A k \in floating' :
            /\ k \notin ended'
            /\ \A v \in Users : row'[v].id # k
            /\ \A o \in Requests : req'[o].pc \in {"rotate", "delete"} => req'[o].id # k
    BY <1>2, <1>10, <2>1 DEF Safe, FreshIds
  <2> QED
    BY <2>2, <2>3 DEF FreshIds
<1>12. LoggedOutStaysOut'
  BY <1>2, <1>10 DEF Safe, LoggedOutStaysOut
<1> QED
  BY <1>8, <1>9, <1>11, <1>12 DEF Safe

LEMMA DeleteSafe ==
    ASSUME Safe, NEW r \in Requests, Delete(r)
    PROVE  Safe'
<1>1. PICK u \in Users : u = req[r].user
  BY DEF Safe, Owners, RequestOwner, Delete
<1>2. /\ req' \in [Requests -> Request] /\ req'[r] = Idle
      /\ \A o \in Requests : o # r => req'[o] = req[o]
  BY IdleIsRequest, BecomeChangesOne DEF Delete, Safe, TypeOK
<1>3. req[r].id \in Tokens /\ issued[req[r].id].user = u
  BY <1>1 DEF Safe, Owners, RequestOwner, Delete
<1>4. /\ row' \in [Users -> Row]
      /\ \A v \in Users : row'[v] = NoRow \/ row'[v] = row[v]
      /\ row'[u] = NoRow \/ row'[u].id # req[r].id
  BY <1>1 DEF Delete, Safe, TypeOK, NoRow, Row
<1>5. UNCHANGED <<issued, floating, held, access>> /\ ended' = ended \cup {req[r].id}
  BY DEF Delete
<1>6. TypeOK'
  BY <1>2, <1>3, <1>4, <1>5, TokensAreNat DEF Safe, TypeOK, Tokens
<1>7. Owners'
  BY <1>2, <1>4, <1>5, IdleIsRequest DEF Safe, Owners, RowOwner, RequestOwner, Present, Tokens
<1>8. FreshIds'
  <2>1. NoRow.id = 0
    BY DEF NoRow
  <2>2. \A t \in floating : t # 0 /\ t # req[r].id
    BY TokensAreNat DEF Safe, TypeOK, FreshIds, Delete
  <2> QED
    BY <1>2, <1>3, <1>4, <1>5, <2>1, <2>2, IdleIsRequest DEF Safe, FreshIds, Tokens
<1>9. LoggedOutStaysOut'
  <2> SUFFICES ASSUME NEW v \in Users, row'[v] # NoRow
               PROVE  row'[v].id \notin ended'
    BY DEF LoggedOutStaysOut, Present
  <2>1. row'[v] = row[v] /\ Present(v)
    BY <1>4 DEF Present
  <2>2. row[v].id \notin ended
    BY <2>1 DEF Safe, LoggedOutStaysOut
  <2>3. row[v].id # req[r].id
    <3>1. CASE v = u
      BY <1>4, <2>1, <3>1
    <3>2. CASE v # u
      BY <1>3, <2>1, <3>2 DEF Safe, Owners, RowOwner
    <3> QED
      BY <3>1, <3>2
  <2> QED
    BY <1>5, <2>1, <2>2, <2>3
<1> QED
  BY <1>6, <1>7, <1>8, <1>9 DEF Safe

LEMMA ExpireTokenSafe ==
    ASSUME Safe, NEW t \in Tokens, ExpireToken(t)
    PROVE  Safe'
<1> DEFINE old == [issued[t] EXCEPT !.live = FALSE]
<1>1. issued[t] \in Token
  BY ElementOfSeq DEF Safe, TypeOK, Tokens
<1>2. old \in Token /\ old.user = issued[t].user
  BY <1>1 DEF Token
<1>3. /\ issued' \in Seq(Token) /\ Tokens' = Tokens
      /\ \A k \in Tokens : issued'[k].user = issued[k].user
  <2>1. issued' = [issued EXCEPT ![t] = old]
    BY DEF ExpireToken
  <2> QED
    BY <1>2, <2>1, ExceptSeq DEF Safe, TypeOK, Tokens
<1>4. UNCHANGED <<row, floating, held, access, req, ended>>
  BY DEF ExpireToken
<1> QED
  BY <1>3, <1>4 DEF Safe, TypeOK, Owners, RowOwner, RequestOwner, FreshIds,
     LoggedOutStaysOut, Present

LEMMA CrashSafe ==
    ASSUME Safe, Crash
    PROVE  Safe'
<1>1. /\ floating' = {} /\ UNCHANGED <<row, issued, held, access, ended>>
      /\ req' = [r \in Requests |-> Idle]
  BY DEF Crash
<1>2. TypeOK'
  BY <1>1, IdleIsRequest DEF Safe, TypeOK, Tokens
<1>3. Owners' /\ FreshIds' /\ LoggedOutStaysOut'
  BY <1>1, IdleIsRequest DEF Safe, Owners, RowOwner, RequestOwner, FreshIds,
     LoggedOutStaysOut, Present, Tokens
<1> QED
  BY <1>2, <1>3 DEF Safe

LEMMA NextSafe ==
    ASSUME Safe, [Next]_vars
    PROVE  Safe'
<1>1. CASE UNCHANGED vars
  BY <1>1 DEF vars, Safe, TypeOK, Owners, RowOwner, RequestOwner, FreshIds,
     LoggedOutStaysOut, Present, Tokens
<1>2. ASSUME NEW r \in Requests, Answer(r) PROVE Safe'
  <2>1. req[r].token \in Tokens /\ req[r].user \in Users
    BY <1>2 DEF Answer, Safe, Owners, RequestOwner
  <2> QED
    BY <1>2, <2>1, IdleIsRequest, MoveSafe DEF Answer, Safe, TypeOK
<1>3. ASSUME NEW r \in Requests, Fail(r) PROVE Safe'
  BY <1>3, IdleIsRequest, MoveSafe DEF Fail, Safe, TypeOK
<1>4. ASSUME NEW u \in access, ExpireAccess(u) PROVE Safe'
  BY <1>4 DEF ExpireAccess, Safe, TypeOK, Owners, RowOwner, RequestOwner, FreshIds,
     LoggedOutStaysOut, Present, Tokens
<1> QED
  BY <1>1, <1>2, <1>3, <1>4, LoginSafe, StoreSafe, FindSessionSafe, FindOwnSafe,
     RotateSafe, DeleteSafe, ExpireTokenSafe, CrashSafe DEF Next, Serve

----------------------------------------------------------------------------
\* TypeOK is an invariant.
THEOREM Typing == Spec => []TypeOK
<1>1. Safe /\ [Next]_vars => Safe'
  BY NextSafe
<1> QED
  BY InitSafe, <1>1, PTL DEF Spec, Safe

\* Logout is final: the row it found never comes back.
THEOREM LogoutIsFinal == Spec => []LoggedOutStaysOut
<1>1. Safe /\ [Next]_vars => Safe'
  BY NextSafe
<1> QED
  BY InitSafe, <1>1, PTL DEF Spec, Safe

\* Only the upsert of a login turns a user without a session into one with.
THEOREM OnlyLoginOpens == Spec => OnlyLoginsOpen
<1> DEFINE Ok == \A u \in Users : ~ Present(u) /\ Present(u)' =>
                    \E t \in floating \ floating' : issued[t].user = u /\ row'[u].hash = t
<1>1. Safe /\ [Next]_vars => Safe'
  BY NextSafe
<1>2. ASSUME Safe, [Next]_vars PROVE [Ok]_vars
  <2>1. ASSUME NEW t \in Tokens, Store(t) PROVE Ok
    <3> SUFFICES ASSUME NEW u \in Users, ~ Present(u), row'[u] # NoRow
                 PROVE  /\ t \in floating \ floating'
                        /\ issued[t].user = u /\ row'[u].hash = t
      BY DEF Present
    <3>1. u = issued[t].user
      BY <1>2, <2>1 DEF Store, Safe, TypeOK, Present
    <3> QED
      BY <1>2, <2>1, <3>1 DEF Store, Safe, TypeOK
  <2>2. ASSUME NEW r \in Requests, Rotate(r), NEW u \in Users, Present(u)'
        PROVE  Present(u)
    <3>1. req[r].id \in Tokens /\ req[r].id # 0
      BY <1>2, <2>2, TokensAreNat DEF Rotate, Safe, Owners, RequestOwner
    <3> QED
      BY <1>2, <2>2, <3>1 DEF Rotate, Present, NoRow, Safe, TypeOK
  <2>3. ASSUME NEW r \in Requests, Delete(r), NEW u \in Users, Present(u)'
        PROVE  Present(u)
    BY <1>2, <2>3 DEF Delete, Present, Safe, TypeOK
  <2>4. \/ UNCHANGED vars \/ row' = row
        \/ \E t \in Tokens : Store(t)
        \/ \E r \in Requests : Rotate(r) \/ Delete(r)
    BY <1>2 DEF Next, Serve, Login, FindSession, FindOwn, Answer, ExpireToken, ExpireAccess,
       Crash, Fail
  <2>5. CASE row' = row
    BY <2>5 DEF Present
  <2> QED
    BY <2>1, <2>2, <2>3, <2>4, <2>5
<1> QED
  BY InitSafe, <1>1, <1>2, PTL DEF Spec, OnlyLoginsOpen

----------------------------------------------------------------------------
(* The refinement.                                                         *)

\* A logout in flight deletes the row of its user, or one that another logout
\* has deleted before; a floating upsert is one of the tokens logins may sign.
Closing ==
    /\ floating \subseteq 1..MaxTokens
    /\ \A r \in Requests : req[r].pc = "delete" =>
          row[req[r].user].id = req[r].id \/ req[r].id \in ended

LEMMA NoRowIsZero == ASSUME TypeOK, NEW u \in Users PROVE NoRow.id = 0 /\ (~ Present(u) => row[u].id = 0)
  BY DEF Present, NoRow, TypeOK

\* A step that loads no row for a logout, and takes no row's id away.
LEMMA KeepsClosing ==
    ASSUME Safe, Closing, floating' \subseteq floating, ended \subseteq ended',
           \A u \in Users : row'[u].id = row[u].id \/ row[u].id \in ended' \cup {0},
           \A r \in Requests : req'[r].pc = "delete" => req'[r] = req[r]
    PROVE  Closing'
<1>1. ASSUME NEW r \in Requests, req'[r].pc = "delete"
      PROVE  row'[req'[r].user].id = req'[r].id \/ req'[r].id \in ended'
  <2>1. req'[r] = req[r] /\ req[r].pc = "delete" /\ req[r].user \in Users
    BY <1>1 DEF Safe, Owners, RequestOwner
  <2>2. req[r].id # 0
    BY <2>1, TokensAreNat DEF Safe, Owners, RequestOwner
  <2> QED
    BY <2>1, <2>2 DEF Closing
<1> QED
  BY <1>1 DEF Closing

LEMMA StepClosing == Safe /\ Closing /\ [Next]_vars => Closing'
<1> SUFFICES ASSUME Safe, Closing, [Next]_vars PROVE Closing'
  OBVIOUS
<1> USE DEF Safe
<1>1. ASSUME NEW r \in Requests, NEW u \in Users, Login(r, u) PROVE Closing'
  <2> DEFINE t == Len(issued) + 1
             q == [Idle EXCEPT !.pc = "answer", !.user = u, !.token = t]
  <2>1. t \in 1..MaxTokens /\ t \in Nat
    BY <1>1, TokensAreNat, MaxTokensAssumption DEF Login
  <2> HIDE DEF t
  <2>2. q \in Request /\ q.pc = "answer"
    BY <2>1 DEF Idle, Request
  <2> USE DEF t
  <2>3. Become(r, q) /\ floating' = floating \cup {t} /\ UNCHANGED <<row, ended>>
    BY <1>1 DEF Login
  <2>4. \A o \in Requests : req'[o].pc = "delete" => req'[o] = req[o]
    BY <2>2, <2>3, BecomeChangesOne DEF TypeOK
  <2> QED
    BY <2>1, <2>3, <2>4 DEF Closing
<1>2. ASSUME NEW r \in Requests, NEW u \in Users, FindOwn(r, u) PROVE Closing'
  <2> DEFINE q == [pc |-> "delete", user |-> u, token |-> 0, id |-> row[u].id, hash |-> row[u].hash]
  <2>1. q \in Request /\ q.user = u /\ q.id = row[u].id
    BY DEF Request, TypeOK, Row
  <2>2. Become(r, q) /\ UNCHANGED <<row, floating, ended>>
    BY <1>2 DEF FindOwn
  <2>3. req'[r] = q /\ \A o \in Requests : o # r => req'[o] = req[o]
    BY <2>1, <2>2, BecomeChangesOne DEF TypeOK
  <2> QED
    BY <2>1, <2>2, <2>3 DEF Closing
<1>3. ASSUME NEW r \in Requests, NEW t \in Tokens, FindSession(r, t) PROVE Closing'
  <2> DEFINE u == issued[t].user
             q == [pc |-> "rotate", user |-> u, token |-> t, id |-> row[u].id, hash |-> row[u].hash]
  <2>1. u \in Users /\ t \in Nat
    <3>1. issued \in Seq(Token) /\ t \in 1..Len(issued) /\ Len(issued) \in Nat
      BY TokensAreNat DEF TypeOK, Tokens
    <3>2. issued[t] \in Token
      BY <3>1, ElementOfSeq
    <3> QED
      BY <3>1, <3>2 DEF Token
  <2>2. q \in Request /\ q.pc = "rotate"
    BY <2>1 DEF Request, TypeOK, Row
  <2>3. Become(r, q) /\ UNCHANGED <<row, floating, ended>>
    BY <1>3 DEF FindSession
  <2> QED
    BY <2>2, <2>3, BecomeChangesOne, KeepsClosing DEF TypeOK
<1>4. ASSUME NEW r \in Requests, Answer(r) \/ Fail(r) PROVE Closing'
  <2>1. Become(r, Idle) /\ UNCHANGED <<row, floating, ended>>
    BY <1>4 DEF Answer, Fail
  <2> QED
    BY <2>1, IdleIsRequest, BecomeChangesOne, KeepsClosing DEF TypeOK
<1>5. ASSUME NEW r \in Requests, Rotate(r) PROVE Closing'
  <2>0. PICK t \in Nat : t = Len(issued) + 1
    BY TokensAreNat
  <2> DEFINE q == [Idle EXCEPT !.pc = "answer", !.user = req[r].user, !.token = t]
  <2>1. q \in Request /\ q.pc = "answer"
    <3>1. req[r].user \in Users
      BY <1>5 DEF Rotate, Owners, RequestOwner
    <3> QED
      BY <3>1 DEF Idle, Request
  <2>2. Become(r, q) /\ UNCHANGED <<floating, ended>> /\ \A u \in Users : row'[u].id = row[u].id
    BY <1>5, <2>0 DEF Rotate, TypeOK, Row
  <2> QED
    BY <2>1, <2>2, BecomeChangesOne, KeepsClosing DEF TypeOK
<1>6. ASSUME NEW r \in Requests, Delete(r) PROVE Closing'
  <2>1. /\ Become(r, Idle) /\ UNCHANGED floating /\ ended' = ended \cup {req[r].id}
        /\ \A u \in Users : row'[u] = row[u] \/ row[u].id = req[r].id
    BY <1>6 DEF Delete, TypeOK
  <2> QED
    BY <2>1, IdleIsRequest, BecomeChangesOne, KeepsClosing DEF TypeOK
<1>7. ASSUME NEW t \in Tokens, Store(t) PROVE Closing'
  <2>1. \A u \in Users : row'[u].id = row[u].id \/ row[u].id = 0
    BY <1>7, NoRowIsZero DEF Store, TypeOK
  <2>2. UNCHANGED <<req, ended>> /\ floating' \subseteq floating
    BY <1>7 DEF Store
  <2> QED
    BY <2>1, <2>2, KeepsClosing
<1>8. CASE Crash
  BY <1>8, IdleIsRequest DEF Crash, Closing
<1>9. CASE UNCHANGED vars \/ (\E t \in Tokens : ExpireToken(t)) \/ (\E u \in access : ExpireAccess(u))
  BY <1>9 DEF vars, ExpireToken, ExpireAccess, Closing
<1> QED
  BY <1>1, <1>2, <1>3, <1>4, <1>5, <1>6, <1>7, <1>8, <1>9 DEF Next, Serve

LEMMA StepSessions ==
    Safe /\ Safe' /\ Closing /\ [Next]_vars => [Sessions!Next]_(Sessions!vars)
<1> SUFFICES ASSUME Safe, Safe', Closing, [Next]_vars PROVE [Sessions!Next]_(Sessions!vars)
  OBVIOUS
<1> USE DEF Safe
<1> DEFINE ids == [u \in Users |-> row[u].id]
<1>1. row \in [Users -> Row] /\ row' \in [Users -> Row]
  BY DEF TypeOK
<1>2. ASSUME ids' = ids, ended' = ended PROVE UNCHANGED Sessions!vars
  BY <1>2 DEF Sessions!vars
<1>3. ASSUME NEW t \in Tokens, Store(t) PROVE [Sessions!Next]_(Sessions!vars)
  <2>0. issued[t].user \in Users /\ t \in floating /\ t \in 1..MaxTokens
    BY <1>3, ElementOfSeq DEF Store, Closing, TypeOK, Tokens, Token
  <2>1. PICK u \in Users : u = issued[t].user /\ t \in floating /\ t \in 1..MaxTokens
    BY <2>0
  <2>2. /\ row' = [row EXCEPT ![u] = [id |-> IF Present(u) THEN row[u].id ELSE t, hash |-> t]]
        /\ UNCHANGED ended
    BY <1>3, <2>1 DEF Store
  <2>3. CASE Present(u)
    BY <1>1, <1>2, <2>1, <2>2, <2>3
  <2>4. CASE ~ Present(u)
    <3>1. ids' = [ids EXCEPT ![u] = t]
      BY <1>1, <2>1, <2>2, <2>4
    <3>2. ids[u] = 0 /\ t \notin ended /\ \A v \in Users : ids[v] # t
      BY <2>1, <2>4, NoRowIsZero DEF FreshIds
    <3>3. Sessions!Login(u, t)
      BY <2>2, <3>1, <3>2 DEF Sessions!Login
    <3> QED
      BY <2>1, <3>3 DEF Sessions!Next
  <2> QED
    BY <2>3, <2>4
<1>4. ASSUME NEW r \in Requests, Delete(r) PROVE [Sessions!Next]_(Sessions!vars)
  <2> DEFINE k == req[r].id
  <2>0. req[r].user \in Users /\ req[r].pc = "delete" /\ k # 0
    BY <1>4, TokensAreNat DEF Delete, Owners, RequestOwner
  <2>1. PICK u \in Users : u = req[r].user /\ req[r].pc = "delete" /\ k # 0
    BY <2>0
  <2>2. /\ row' = IF row[u].id = k THEN [row EXCEPT ![u] = NoRow] ELSE row
        /\ ended' = ended \cup {k}
    BY <1>4, <2>1 DEF Delete
  <2>3. CASE row[u].id = k
    <3>1. ids' = [ids EXCEPT ![u] = 0] /\ ids[u] = k
      BY <1>1, <2>1, <2>2, <2>3 DEF NoRow
    <3>2. Sessions!Logout(u)
      BY <2>1, <2>2, <3>1 DEF Sessions!Logout
    <3> QED
      BY <3>2 DEF Sessions!Next
  <2>4. CASE row[u].id # k
    <3>1. k \in ended
      BY <2>1, <2>4 DEF Closing
    <3> QED
      BY <1>2, <2>2, <2>4, <3>1
  <2> QED
    BY <2>3, <2>4
<1>5. ASSUME NEW r \in Requests, Rotate(r) PROVE [Sessions!Next]_(Sessions!vars)
  <2>1. UNCHANGED ended /\ \A u \in Users : row'[u].id = row[u].id
    BY <1>5 DEF Rotate, TypeOK, Row
  <2> QED
    BY <1>2, <2>1
<1>6. \/ UNCHANGED <<row, ended>>
      \/ \E t \in Tokens : Store(t)
      \/ \E r \in Requests : Rotate(r) \/ Delete(r)
  BY DEF Next, Serve, Login, FindSession, FindOwn, Answer, ExpireToken, ExpireAccess, Crash, Fail, vars
<1> QED
  BY <1>2, <1>3, <1>4, <1>5, <1>6

\* Session, with its rows as sessions, implements OpenSessions.
THEOREM Implements == Spec => ImplementsOpenSessions
<1>1. Init => Closing /\ Sessions!Init
  BY IdleIsRequest DEF Init, Closing, Sessions!Init, NoRow
<1>2. Safe /\ [Next]_vars => Safe'
  BY NextSafe
<1> QED
  BY InitSafe, <1>1, <1>2, StepClosing, StepSessions, PTL
     DEF Spec, ImplementsOpenSessions, Sessions!Spec
=============================================================================
