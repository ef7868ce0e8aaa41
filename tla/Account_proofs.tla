--------------------------- MODULE Account_proofs ---------------------------
(***************************************************************************)
(* Proofs about Account, for every set of emails, names and requests.      *)
(*                                                                         *)
(*   Typing      TypeOK with Refs: what a request in flight refers to.     *)
(*   Overlap     DuplicatesOnlyFromOverlap, from ChecksHold: a signup's    *)
(*               check saw all the rows that were there when it was made.  *)
(*   GateHolds   Gated, then the action property TokensAreEarned.          *)
(*   UsedLinksDie          UsedLinksAreDead, by what a verification in     *)
(*                         flight knows of its row.                        *)
(*   NobodyIsForgotten     LinksGoOut, step by step of the handler that    *)
(*                         owes a link; DebtorsAlwaysAdvance counts them.  *)
(***************************************************************************)
EXTENDS Account, SequenceTheorems, TLAPS

----------------------------------------------------------------------------
(* The inductive invariant, part by part.                                  *)

\* What the fields of a request are worth at each program counter.
RequestRefs(r) ==
    LET q == req[r]
    IN  /\ q.pc \in {"checkName", "insert"} =>
              /\ q.email \in Emails /\ q.name \in Names
              /\ q.emailSeen \in 0..Len(users) /\ q.nameSeen \in 0..Len(users)
        /\ q.pc = "findUser" => q.self \in UserIds /\ users[q.self].email = q.email
        /\ q.pc \in {"upsert", "verify", "gate", "activate"} => q.user \in UserIds
        /\ q.pc = "upsert" /\ q.self # 0 =>
              q.self \in UserIds /\ users[q.user].email = users[q.self].email
        /\ q.pc \in {"mail", "verify"} => q.link \in 1..Len(links)
        /\ q.pc = "verify" => links[q.link].user = q.user

\* A link belongs to a user, and a row holds a link of its own user.
RowRefs ==
    /\ \A t \in 1..Len(links) : links[t].user \in UserIds
    /\ \A u \in UserIds :
          /\ ev[u].id = 0 => ev[u].token = 0
          /\ ev[u].token # 0 =>
                ev[u].token \in 1..Len(links) /\ links[ev[u].token].user = u

Refs == RowRefs /\ \A r \in Requests : RequestRefs(r)

Typed == TypeOK /\ Refs

----------------------------------------------------------------------------
(* Steps, as far as the other tables can tell.                             *)

LEMMA IdleIsRequest == Idle \in Request
  BY DEF Idle, Request, Pc, SignupPc

\* Answering leaves a request that refers to nothing.
LEMMA InitTyped == Init => Typed
<1> SUFFICES ASSUME Init PROVE Typed
  OBVIOUS
<1>1. TypeOK
  BY IdleIsRequest DEF Init, TypeOK, UserIds
<1>2. Refs
  BY DEF Init, Refs, RowRefs, RequestRefs, UserIds, Idle
<1> QED
  BY <1>1, <1>2 DEF Typed

LEMMA BecomeChangesOne ==
    ASSUME req \in [Requests -> Request], NEW r \in Requests, NEW q \in Request,
           Become(r, q)
    PROVE  /\ req' \in [Requests -> Request]
           /\ req'[r] = q
           /\ \A o \in Requests : o # r => req'[o] = req[o]
  BY DEF Become

LEMMA LengthsAreNat ==
    ASSUME TypeOK
    PROVE  /\ Len(users) \in Nat /\ Len(links) \in Nat
           /\ \A u \in UserIds : u \in Nat /\ u # 0
  BY DEF TypeOK, UserIds

\* What no step takes back: rows keep their email and username, a user that
\* left UNVERIFIED never returns to it, links keep their user and their uses.
Grows ==
    /\ UserIds \subseteq UserIds' /\ 0..Len(users) \subseteq 0..Len(users)'
    /\ \A u \in UserIds :
          /\ users'[u].email = users[u].email /\ users'[u].name = users[u].name
          /\ users[u].status # "UNVERIFIED" => users'[u].status # "UNVERIFIED"
    /\ 1..Len(links) \subseteq 1..Len(links)'
    /\ \A t \in 1..Len(links) :
          /\ links'[t].user = links[t].user
          /\ links[t].uses > 0 => links'[t].uses > 0

TablesTyped ==
    /\ users \in Seq(UserRow)
    /\ ev \in Seq(EvRow) /\ Len(ev) = Len(users)
    /\ links \in Seq(Link)
    /\ holders \subseteq UserIds
    /\ seen \in Seq([email : Nat, name : Nat]) /\ Len(seen) = Len(users)
    /\ lost \subseteq UserIds
    /\ unsent \subseteq Nat

Tables == <<users, ev, links, holders, seen, lost, unsent>>

LEMMA StutterGrows == ASSUME UNCHANGED <<users, links>> PROVE Grows
  BY DEF Grows, UserIds

LEMMA OthersKeepRefs ==
    ASSUME Typed, Grows, NEW o \in Requests, req'[o] = req[o]
    PROVE  RequestRefs(o)'
<1>1. RequestRefs(o)
  BY DEF Typed, Refs
<1> QED
  BY <1>1 DEF RequestRefs, Grows

\* A step that moves request r on to q, whose references are sound afterwards.
LEMMA MoveTyped ==
    ASSUME Typed, NEW r \in Requests, NEW q \in Request, Become(r, q),
           Grows, TablesTyped', RowRefs', RequestRefs(r)'
    PROVE  Typed'
<1>1. /\ req' \in [Requests -> Request]
      /\ \A o \in Requests : o # r => req'[o] = req[o]
  BY BecomeChangesOne DEF Typed, TypeOK
<1>2. TypeOK'
  BY <1>1 DEF TablesTyped, TypeOK
<1>3. \A o \in Requests : RequestRefs(o)'
  BY <1>1, OthersKeepRefs
<1> QED
  BY <1>2, <1>3 DEF Typed, Refs

\* The same when no table changes.
LEMMA ReadTyped ==
    ASSUME Typed, NEW r \in Requests, NEW q \in Request, Become(r, q),
           UNCHANGED Tables, RequestRefs(r)'
    PROVE  Typed'
<1>1. TablesTyped' /\ RowRefs'
  BY DEF Tables, TablesTyped, Typed, TypeOK, Refs, RowRefs, UserIds
<1>2. Grows
  BY StutterGrows DEF Tables
<1> QED
  BY <1>1, <1>2, MoveTyped

\* The same when the request is answered.
LEMMA AnswerRefs ==
    ASSUME Typed, NEW r \in Requests, Answer(r)
    PROVE  RequestRefs(r)' /\ Become(r, Idle) /\ req'[r] = Idle
<1>1. req'[r] = Idle
  BY IdleIsRequest, BecomeChangesOne DEF Typed, TypeOK, Answer
<1> QED
  BY <1>1 DEF RequestRefs, Idle, Answer

----------------------------------------------------------------------------
(* Typing, one lemma per action.                                           *)

LEMMA CheckEmailTyped ==
    ASSUME Typed, NEW r \in Requests, NEW e \in Emails, NEW n \in Names, CheckEmail(r, e, n)
    PROVE  Typed'
<1> DEFINE q == [Idle EXCEPT !.pc = "checkName", !.email = e, !.name = n,
                             !.emailSeen = Len(users)]
<1>1. q \in Request
  BY IdleIsRequest, LengthsAreNat DEF Typed, Idle, Request, Pc, SignupPc
<1>2. Become(r, q)
  BY DEF CheckEmail
<1>3. req'[r] = q
  BY <1>1, <1>2, BecomeChangesOne DEF Typed, TypeOK
<1>4. RequestRefs(r)'
  BY <1>3, LengthsAreNat DEF RequestRefs, Idle, CheckEmail, Typed
<1> QED
  BY <1>1, <1>2, <1>4, ReadTyped DEF CheckEmail, Tables

LEMMA CheckNameTyped ==
    ASSUME Typed, NEW r \in Requests, CheckName(r)
    PROVE  Typed'
<1> DEFINE q == [req[r] EXCEPT !.pc = "insert", !.nameSeen = Len(users)]
<1>1. q \in Request /\ req[r] \in Request
  BY LengthsAreNat DEF Typed, TypeOK, Request, Pc, SignupPc
<1>2. CASE Become(r, q)
  <2>1. req'[r] = q
    BY <1>1, <1>2, BecomeChangesOne DEF Typed, TypeOK
  <2>2. /\ q.email \in Emails /\ q.name \in Names /\ q.pc = "insert"
        /\ q.emailSeen \in 0..Len(users) /\ q.nameSeen \in 0..Len(users)
    BY <1>1, LengthsAreNat DEF CheckName, Typed, Refs, RequestRefs, Request
  <2>3. RequestRefs(r)'
    BY <2>1, <2>2 DEF RequestRefs, CheckName
  <2> QED
    BY <1>1, <1>2, <2>3, ReadTyped DEF CheckName, Tables
<1>3. CASE Answer(r)
  BY <1>3, IdleIsRequest, AnswerRefs, ReadTyped DEF CheckName, Tables
<1> QED
  BY <1>2, <1>3 DEF CheckName

LEMMA InsertUserTyped ==
    ASSUME Typed, NEW r \in Requests, InsertUser(r)
    PROVE  Typed' /\ Grows
<1> DEFINE new == [email |-> req[r].email, name |-> req[r].name, status |-> "UNVERIFIED"]
           saw == [email |-> req[r].emailSeen, name |-> req[r].nameSeen]
           q == [req[r] EXCEPT !.pc = "findUser", !.self = Len(users) + 1]
<1>1. /\ new \in UserRow /\ saw \in [email : Nat, name : Nat]
      /\ q \in Request /\ req[r] \in Request
  <2>1. req[r] \in Request
    BY DEF Typed, TypeOK
  <2>2. req[r].email \in Emails /\ req[r].name \in Names
    BY DEF InsertUser, Typed, Refs, RequestRefs
  <2>3. q \in Request
    <3>1. Len(users) + 1 \in Nat /\ "findUser" \in Pc
      BY LengthsAreNat DEF Typed, Pc, SignupPc
    <3> QED
      BY <2>1, <3>1 DEF Request
  <2> QED
    BY <2>1, <2>2, <2>3 DEF Request, UserRow, Status
<1>2. NoRow \in EvRow
  BY DEF NoRow, EvRow
<1>3. /\ users' = Append(users, new) /\ ev' = Append(ev, NoRow) /\ seen' = Append(seen, saw)
      /\ Become(r, q) /\ UNCHANGED <<links, holders, lost, unsent>>
  BY DEF InsertUser
<1>4. /\ users' \in Seq(UserRow) /\ Len(users') = Len(users) + 1
      /\ \A u \in UserIds : users'[u] = users[u]
      /\ users'[Len(users) + 1] = new
  BY <1>1, <1>3, AppendProperties DEF Typed, TypeOK, UserIds
<1>5. /\ ev' \in Seq(EvRow) /\ Len(ev') = Len(ev) + 1
      /\ \A u \in UserIds : ev'[u] = ev[u]
      /\ ev'[Len(users) + 1] = NoRow
  BY <1>2, <1>3, AppendProperties DEF Typed, TypeOK, UserIds
<1>6. seen' \in Seq([email : Nat, name : Nat]) /\ Len(seen') = Len(seen) + 1
  BY <1>1, <1>3, AppendProperties DEF Typed, TypeOK
<1>7. UserIds' = UserIds \cup {Len(users) + 1}
  BY <1>4, LengthsAreNat DEF Typed, UserIds
<1>8. Grows
  <2>1. 0..Len(users) \subseteq 0..Len(users')
    BY <1>4, LengthsAreNat DEF Typed
  <2> QED
    BY <1>3, <1>4, <1>7, <2>1 DEF Grows
<1>9. TablesTyped'
  BY <1>3, <1>4, <1>5, <1>6, <1>7 DEF TablesTyped, Typed, TypeOK
<1>10. RowRefs'
  <2>1. \A t \in 1..Len(links) : links[t].user \in UserIds'
    BY <1>7 DEF Typed, Refs, RowRefs
  <2>2. ASSUME NEW u \in UserIds'
        PROVE  /\ ev'[u].id = 0 => ev'[u].token = 0
               /\ ev'[u].token # 0 =>
                     ev'[u].token \in 1..Len(links) /\ links[ev'[u].token].user = u
    BY <1>5, <1>7 DEF Typed, Refs, RowRefs, NoRow
  <2> QED
    BY <1>3, <2>1, <2>2 DEF RowRefs
<1>11. req'[r] = q
  BY <1>1, <1>3, BecomeChangesOne DEF Typed, TypeOK
<1>12. RequestRefs(r)'
  BY <1>1, <1>4, <1>7, <1>11 DEF RequestRefs, Request
<1> QED
  BY <1>1, <1>3, <1>8, <1>9, <1>10, <1>12, MoveTyped

LEMMA FindNewUserTyped ==
    ASSUME Typed, NEW r \in Requests, FindNewUser(r)
    PROVE  Typed'
<1>1. PICK v \in UserIds :
          /\ users[v].email = req[r].email
          /\ Become(r, [Idle EXCEPT !.pc = "upsert", !.self = req[r].self, !.user = v])
  BY DEF FindNewUser
<1> DEFINE q == [Idle EXCEPT !.pc = "upsert", !.self = req[r].self, !.user = v]
<1>2. /\ req[r].self \in UserIds
      /\ users[req[r].self].email = req[r].email
  BY DEF FindNewUser, Typed, Refs, RequestRefs
<1>3. q \in Request
  <2>1. req[r].self \in Nat /\ v \in Nat
    BY <1>2, LengthsAreNat DEF Typed
  <2> QED
    BY <2>1 DEF Idle, Request, Pc, SignupPc
<1>4. req'[r] = q
  BY <1>1, <1>3, BecomeChangesOne DEF Typed, TypeOK
<1>5. RequestRefs(r)'
  BY <1>1, <1>2, <1>4 DEF RequestRefs, FindNewUser, Idle, UserIds
<1> QED
  BY <1>1, <1>3, <1>5, ReadTyped DEF FindNewUser, Tables

\* Resend, FindLogin and FindAccount load a user.
LEMMA LoadUserTyped ==
    ASSUME Typed, NEW r \in Requests, NEW v \in UserIds,
           Resend(r, v) \/ FindLogin(r, v) \/ FindAccount(r, v)
    PROVE  Typed'
<1>1. PICK pc \in {"upsert", "gate", "activate"} :
          Become(r, [Idle EXCEPT !.pc = pc, !.user = v])
  BY DEF Resend, FindLogin, FindAccount
<1> DEFINE q == [Idle EXCEPT !.pc = pc, !.user = v]
<1>2. q \in Request
  <2>1. v \in Nat
    BY LengthsAreNat DEF Typed
  <2> QED
    BY <2>1 DEF Idle, Request, Pc, SignupPc
<1>3. UNCHANGED Tables
  BY DEF Resend, FindLogin, FindAccount, Tables
<1>4. req'[r] = q
  BY <1>1, <1>2, BecomeChangesOne DEF Typed, TypeOK
<1>5. RequestRefs(r)'
  BY <1>3, <1>4 DEF RequestRefs, Idle, UserIds, Tables
<1> QED
  BY <1>1, <1>2, <1>3, <1>5, ReadTyped

LEMMA UpsertLinkTyped ==
    ASSUME Typed, NEW r \in Requests, UpsertLink(r)
    PROVE  Typed' /\ Grows
<1> DEFINE u == req[r].user
           t == Len(links) + 1
           new == [user |-> u, to |-> None, uses |-> 0]
           row == [id |-> IF ev[u].id = 0 THEN t ELSE ev[u].id, token |-> t, fresh |-> TRUE]
           q == [Idle EXCEPT !.pc = "mail", !.link = t]
<1>1. /\ links' = Append(links, new) /\ ev' = [ev EXCEPT ![u] = row]
      /\ Become(r, q) /\ UNCHANGED <<users, holders, seen, lost, unsent>>
  BY DEF UpsertLink
<1>2. u \in UserIds /\ u \in 1..Len(ev) /\ u \in Nat
  BY LengthsAreNat DEF UpsertLink, Typed, TypeOK, Refs, RequestRefs, UserIds
<1>3. ev[u] \in EvRow /\ t \in Nat \ {0}
  BY <1>2, LengthsAreNat, ElementOfSeq DEF Typed, TypeOK
<1>4. new \in Link /\ row \in EvRow /\ q \in Request
  BY <1>2, <1>3 DEF Link, EvRow, Idle, Request, Pc, SignupPc
<1>5. /\ links' \in Seq(Link) /\ Len(links') = t
      /\ \A k \in 1..Len(links) : links'[k] = links[k]
      /\ links'[t] = new
  BY <1>1, <1>4, AppendProperties DEF Typed, TypeOK
<1>6. /\ ev' \in Seq(EvRow) /\ Len(ev') = Len(ev)
      /\ \A v \in 1..Len(ev) : ev'[v] = IF v = u THEN row ELSE ev[v]
  BY <1>1, <1>2, <1>4, ExceptSeq DEF Typed, TypeOK
<1>7. 1..Len(links') = 1..Len(links) \cup {t}
  BY <1>5, LengthsAreNat DEF Typed
<1>8. Grows
  BY <1>1, <1>5, <1>7 DEF Grows, UserIds
<1>9. TablesTyped'
  BY <1>1, <1>5, <1>6 DEF TablesTyped, Typed, TypeOK, UserIds
<1>10. RowRefs'
  <2>1. UserIds' = UserIds /\ UserIds = 1..Len(ev)
    BY <1>1 DEF UserIds, Typed, TypeOK
  <2>2. ASSUME NEW k \in 1..Len(links') PROVE links'[k].user \in UserIds
    BY <1>2, <1>5, <1>7 DEF Typed, Refs, RowRefs
  <2>3. ASSUME NEW v \in UserIds
        PROVE  /\ ev'[v].id = 0 => ev'[v].token = 0
               /\ ev'[v].token # 0 =>
                     ev'[v].token \in 1..Len(links') /\ links'[ev'[v].token].user = v
    <3>1. CASE v = u
      BY <1>3, <1>5, <1>6, <1>7, <2>1, <3>1
    <3>2. CASE v # u
      BY <1>5, <1>6, <1>7, <2>1, <3>2 DEF Typed, Refs, RowRefs
    <3> QED
      BY <3>1, <3>2
  <2> QED
    BY <2>1, <2>2, <2>3 DEF RowRefs
<1>11. req'[r] = q
  BY <1>1, <1>4, BecomeChangesOne DEF Typed, TypeOK
<1>12. RequestRefs(r)'
  BY <1>3, <1>5, <1>11 DEF RequestRefs, Idle
<1> QED
  BY <1>1, <1>4, <1>8, <1>9, <1>10, <1>12, MoveTyped

LEMMA MailTyped ==
    ASSUME Typed, NEW r \in Requests, Mail(r)
    PROVE  Typed' /\ Grows
<1> DEFINE t == req[r].link
           sent == [links[t] EXCEPT !.to = Recipient]
<1>1. t \in 1..Len(links)
  BY DEF Mail, Typed, Refs, RequestRefs
<1>2. links[t] \in Link
  BY <1>1, ElementOfSeq DEF Typed, TypeOK
<1>3. sent \in Link /\ sent.user = links[t].user /\ sent.uses = links[t].uses
  BY <1>2 DEF Link
<1>4. /\ links' \in Seq(Link) /\ Len(links') = Len(links)
      /\ \A k \in 1..Len(links) : links'[k] = IF k = t THEN sent ELSE links[k]
  <2>1. links' = [links EXCEPT ![t] = sent]
    BY DEF Mail
  <2> QED
    BY <1>1, <1>3, <2>1, ExceptSeq DEF Typed, TypeOK
<1>5. UNCHANGED <<users, ev, holders, seen, lost, unsent>> /\ Answer(r)
  BY DEF Mail
<1>6. Grows
  BY <1>3, <1>4, <1>5 DEF Grows, UserIds
<1>7. TablesTyped'
  BY <1>4, <1>5 DEF TablesTyped, Typed, TypeOK, UserIds
<1>8. RowRefs'
  BY <1>3, <1>4, <1>5 DEF RowRefs, Typed, Refs, UserIds
<1> QED
  BY <1>5, <1>6, <1>7, <1>8, AnswerRefs, IdleIsRequest, MoveTyped

LEMMA FindLinkTyped ==
    ASSUME Typed, NEW r \in Requests, NEW t \in 1..Len(links), FindLink(r, t)
    PROVE  Typed'
<1>1. PICK u \in UserIds :
          /\ ev[u].token = t
          /\ Become(r, [Idle EXCEPT !.pc = "verify", !.user = u,
                                    !.row = ev[u].id, !.link = t])
  BY DEF FindLink
<1> DEFINE q == [Idle EXCEPT !.pc = "verify", !.user = u, !.row = ev[u].id, !.link = t]
<1>2. ev[u] \in EvRow /\ t \in Nat /\ t # 0 /\ u \in Nat
  BY LengthsAreNat, ElementOfSeq DEF Typed, TypeOK, UserIds
<1>3. q \in Request
  BY <1>2 DEF Idle, Request, Pc, SignupPc, EvRow
<1>4. links[t].user = u
  BY <1>1, <1>2 DEF Typed, Refs, RowRefs
<1>5. req'[r] = q
  BY <1>1, <1>3, BecomeChangesOne DEF Typed, TypeOK
<1>6. RequestRefs(r)'
  BY <1>4, <1>5 DEF RequestRefs, FindLink, Idle, UserIds
<1> QED
  BY <1>1, <1>3, <1>6, ReadTyped DEF FindLink, Tables

LEMMA NoRowIsRow == NoRow \in EvRow
  BY DEF NoRow, EvRow

\* UPDATE user SET status for one user, to a status other than UNVERIFIED.
LEMMA SetStatus ==
    ASSUME TypeOK, NEW u \in UserIds, NEW st \in {"VERIFIED", "ACTIVE"},
           users' = [users EXCEPT ![u].status = st]
    PROVE  /\ users' \in Seq(UserRow) /\ Len(users') = Len(users)
           /\ \A v \in UserIds :
                 /\ users'[v].email = users[v].email /\ users'[v].name = users[v].name
                 /\ users'[v].status = IF v = u THEN st ELSE users[v].status
<1> DEFINE row == [users[u] EXCEPT !.status = st]
<1>1. users[u] \in UserRow
  BY ElementOfSeq DEF TypeOK, UserIds
<1>2. /\ row \in UserRow /\ row.status = st
      /\ row.email = users[u].email /\ row.name = users[u].name
  BY <1>1 DEF UserRow, Status
<1>3. users' = [users EXCEPT ![u] = row]
  OBVIOUS
<1>4. /\ users' \in Seq(UserRow) /\ Len(users') = Len(users)
      /\ \A v \in 1..Len(users) : users'[v] = IF v = u THEN row ELSE users[v]
  <2>1. users \in Seq(UserRow) /\ u \in 1..Len(users)
    BY DEF TypeOK, UserIds
  <2> HIDE DEF row
  <2> QED
    BY <1>2, <1>3, <2>1, ExceptSeq
<1> QED
  BY <1>2, <1>4 DEF UserIds

\* What Verify does, as far as the other tables can tell.
LEMMA VerifyEffect ==
    ASSUME Typed, NEW r \in Requests, Verify(r)
    PROVE  LET u == req[r].user
               t == req[r].link
           IN  /\ u \in UserIds /\ t \in 1..Len(links) /\ links[t].user = u
               /\ users' \in Seq(UserRow) /\ Len(users') = Len(users)
               /\ \A v \in UserIds :
                     /\ users'[v].email = users[v].email /\ users'[v].name = users[v].name
                     /\ users'[v].status = IF v = u THEN "VERIFIED" ELSE users[v].status
               /\ links' \in Seq(Link) /\ Len(links') = Len(links)
               /\ \A k \in 1..Len(links) :
                     /\ links'[k].user = links[k].user
                     /\ links'[k].uses = IF k = t THEN links[k].uses + 1 ELSE links[k].uses
               /\ ev' \in Seq(EvRow) /\ Len(ev') = Len(ev)
               /\ \A v \in UserIds :
                     ev'[v] = IF v = u /\ ev[u].id = req[r].row THEN NoRow ELSE ev[v]
<1> DEFINE u == req[r].user
           t == req[r].link
           used == [links[t] EXCEPT !.uses = @ + 1]
<1>1. u \in UserIds /\ t \in 1..Len(links) /\ links[t].user = u
  BY DEF Verify, Typed, Refs, RequestRefs
<1>2. links[t] \in Link
  BY <1>1, ElementOfSeq DEF Typed, TypeOK
<1>3. used \in Link /\ used.user = links[t].user /\ used.uses = links[t].uses + 1
  BY <1>2 DEF Link
<1>4. links' = [links EXCEPT ![t] = used]
  BY DEF Verify
<1>5. /\ links' \in Seq(Link) /\ Len(links') = Len(links)
      /\ \A k \in 1..Len(links) : links'[k] = IF k = t THEN used ELSE links[k]
  BY <1>1, <1>3, <1>4, ExceptSeq DEF Typed, TypeOK
<1>6. /\ users' \in Seq(UserRow) /\ Len(users') = Len(users)
      /\ \A v \in UserIds :
            /\ users'[v].email = users[v].email /\ users'[v].name = users[v].name
            /\ users'[v].status = IF v = u THEN "VERIFIED" ELSE users[v].status
  BY <1>1, SetStatus DEF Verify, Typed
<1>7. /\ ev' \in Seq(EvRow) /\ Len(ev') = Len(ev)
      /\ \A v \in UserIds :
            ev'[v] = IF v = u /\ ev[u].id = req[r].row THEN NoRow ELSE ev[v]
  <2>1. u \in 1..Len(ev) /\ UserIds = 1..Len(ev)
    BY <1>1 DEF Typed, TypeOK, UserIds
  <2>2. CASE ev[u].id = req[r].row
    <3>1. ev' = [ev EXCEPT ![u] = NoRow]
      BY <2>2 DEF Verify
    <3> QED
      BY <2>1, <2>2, <3>1, NoRowIsRow, ExceptSeq DEF Typed, TypeOK
  <2>3. CASE ev[u].id # req[r].row
    BY <2>1, <2>3 DEF Verify, Typed, TypeOK
  <2> QED
    BY <2>2, <2>3
<1> QED
  BY <1>1, <1>3, <1>5, <1>6, <1>7

LEMMA VerifyTyped ==
    ASSUME Typed, NEW r \in Requests, Verify(r)
    PROVE  Typed' /\ Grows
<1> DEFINE u == req[r].user
           t == req[r].link
<1>1. UNCHANGED <<holders, seen, lost, unsent>> /\ Answer(r)
  BY DEF Verify
<1>2. UserIds' = UserIds
  BY VerifyEffect DEF UserIds
<1>3. \A k \in 1..Len(links) : links[k].uses \in Nat
  <2>1. \A k \in 1..Len(links) : links[k] \in Link
    BY ElementOfSeq DEF Typed, TypeOK
  <2> QED
    BY <2>1 DEF Link
<1>4. Grows
  <2>1. 0..Len(users') = 0..Len(users) /\ 1..Len(links') = 1..Len(links)
    BY VerifyEffect
  <2>2. \A v \in UserIds :
            /\ users'[v].email = users[v].email /\ users'[v].name = users[v].name
            /\ users[v].status # "UNVERIFIED" => users'[v].status # "UNVERIFIED"
    BY VerifyEffect
  <2>3. \A k \in 1..Len(links) :
            links'[k].user = links[k].user /\ (links[k].uses > 0 => links'[k].uses > 0)
    BY <1>3, VerifyEffect
  <2> QED
    BY <1>2, <2>1, <2>2, <2>3 DEF Grows
<1>5. TablesTyped'
  BY <1>1, <1>2, VerifyEffect DEF TablesTyped, Typed, TypeOK
<1>6. RowRefs'
  <2>1. \A k \in 1..Len(links) : links'[k].user \in UserIds
    BY VerifyEffect DEF Typed, Refs, RowRefs
  <2>2. ASSUME NEW v \in UserIds
        PROVE  /\ ev'[v].id = 0 => ev'[v].token = 0
               /\ ev'[v].token # 0 =>
                     ev'[v].token \in 1..Len(links) /\ links'[ev'[v].token].user = v
    <3>1. ev'[v] = NoRow \/ ev'[v] = ev[v]
      BY VerifyEffect
    <3>2. \A k \in 1..Len(links) : links'[k].user = links[k].user
      BY VerifyEffect
    <3> QED
      BY <3>1, <3>2 DEF Typed, Refs, RowRefs, NoRow
  <2>3. Len(links') = Len(links)
    BY VerifyEffect
  <2> QED
    BY <1>2, <2>1, <2>2, <2>3 DEF RowRefs
<1> QED
  BY <1>1, <1>4, <1>5, <1>6, AnswerRefs, IdleIsRequest, MoveTyped

LEMMA ActivateTyped ==
    ASSUME Typed, NEW r \in Requests, Activate(r)
    PROVE  Typed' /\ Grows
<1> DEFINE u == req[r].user
<1>1. u \in UserIds
  BY DEF Activate, Typed, Refs, RequestRefs
<1>2. UNCHANGED <<ev, links, holders, seen, lost, unsent>> /\ Answer(r)
  BY DEF Activate
<1>3. /\ users' \in Seq(UserRow) /\ Len(users') = Len(users)
      /\ \A v \in UserIds :
            /\ users'[v].email = users[v].email /\ users'[v].name = users[v].name
            /\ users'[v].status = IF v = u THEN "ACTIVE" ELSE users[v].status
  BY <1>1, SetStatus DEF Activate, Typed
<1>4. Grows
  BY <1>2, <1>3 DEF Grows, UserIds
<1>5. TablesTyped'
  BY <1>2, <1>3 DEF TablesTyped, Typed, TypeOK, UserIds
<1>6. RowRefs'
  BY <1>2, <1>3 DEF RowRefs, Typed, Refs, UserIds
<1> QED
  BY <1>2, <1>4, <1>5, <1>6, AnswerRefs, IdleIsRequest, MoveTyped

LEMMA GateTyped ==
    ASSUME Typed, NEW r \in Requests, Gate(r)
    PROVE  Typed' /\ Grows
<1>1. UNCHANGED <<users, ev, links, seen, lost, unsent>> /\ Answer(r)
  BY DEF Gate
<1>2. holders' \subseteq UserIds
  BY DEF Gate, Typed, TypeOK, Refs, RequestRefs
<1>3. TablesTyped' /\ RowRefs'
  BY <1>1, <1>2 DEF TablesTyped, Typed, TypeOK, Refs, RowRefs, UserIds
<1>4. Grows
  BY <1>1, StutterGrows
<1> QED
  BY <1>1, <1>3, <1>4, AnswerRefs, IdleIsRequest, MoveTyped

\* Time passing: a link or an access token expires.
LEMMA ExpireTyped ==
    ASSUME Typed, NEW u \in UserIds, ExpireLink(u) \/ ExpireAccess(u)
    PROVE  Typed' /\ Grows
<1>1. UNCHANGED <<users, links, req, seen, lost, unsent>>
  BY DEF ExpireLink, ExpireAccess
<1>2. Grows
  BY <1>1, StutterGrows
<1>3. holders' \subseteq UserIds
  BY DEF ExpireLink, ExpireAccess, Typed, TypeOK
<1>4. /\ ev' \in Seq(EvRow) /\ Len(ev') = Len(ev)
      /\ \A v \in UserIds : ev'[v].id = ev[v].id /\ ev'[v].token = ev[v].token
  <2>1. CASE ExpireAccess(u)
    BY <2>1 DEF ExpireAccess, Typed, TypeOK
  <2>2. CASE ExpireLink(u)
    <3> DEFINE row == [ev[u] EXCEPT !.fresh = FALSE]
    <3>1. u \in 1..Len(ev) /\ UserIds = 1..Len(ev)
      BY DEF Typed, TypeOK, UserIds
    <3>2. ev[u] \in EvRow
      BY <3>1, ElementOfSeq DEF Typed, TypeOK
    <3>3. row \in EvRow /\ row.id = ev[u].id /\ row.token = ev[u].token
      BY <3>2 DEF EvRow
    <3>4. ev' = [ev EXCEPT ![u] = row]
      BY <2>2 DEF ExpireLink
    <3> QED
      BY <3>1, <3>3, <3>4, ExceptSeq DEF Typed, TypeOK
  <2> QED
    BY <2>1, <2>2
<1>5. TypeOK'
  BY <1>1, <1>3, <1>4 DEF Typed, TypeOK, UserIds
<1>6. RowRefs'
  BY <1>1, <1>4 DEF Typed, Refs, RowRefs, UserIds
<1>7. \A o \in Requests : RequestRefs(o)'
  BY <1>1, <1>2, OthersKeepRefs
<1> QED
  BY <1>2, <1>5, <1>6, <1>7 DEF Typed, Refs

LEMMA CutOffIsUser ==
    ASSUME Typed, NEW r \in Requests
    PROVE  CutOff(r) \subseteq UserIds
  BY DEF CutOff, Typed, Refs, RequestRefs

LEMMA UnmailedIsLink ==
    ASSUME Typed, NEW r \in Requests
    PROVE  Unmailed(r) \subseteq Nat
  BY DEF Unmailed, Typed, TypeOK, Request

LEMMA FaultTyped ==
    ASSUME Typed, Crash \/ \E r \in Requests : Fail(r)
    PROVE  Typed' /\ Grows
<1>1. UNCHANGED <<users, ev, links, holders, seen>>
  BY DEF Crash, Fail
<1>2. Grows
  BY <1>1, StutterGrows
<1>3. lost' \subseteq UserIds /\ unsent' \subseteq Nat
  <2>1. lost' \subseteq UserIds
    BY CutOffIsUser DEF Crash, Fail, Typed, TypeOK
  <2>2. unsent' \subseteq Nat
    BY UnmailedIsLink DEF Crash, Fail, Typed, TypeOK
  <2> QED
    BY <2>1, <2>2
<1>4. TablesTyped' /\ RowRefs'
  BY <1>1, <1>3 DEF TablesTyped, Typed, TypeOK, Refs, RowRefs, UserIds
<1>5. CASE Crash
  <2>1. req' \in [Requests -> Request] /\ \A r \in Requests : req'[r] = Idle
    BY <1>5, IdleIsRequest DEF Crash
  <2>2. \A r \in Requests : RequestRefs(r)'
    BY <2>1 DEF RequestRefs, Idle
  <2>3. TypeOK'
    BY <1>4, <2>1 DEF TypeOK, TablesTyped
  <2> QED
    BY <1>2, <1>4, <2>2, <2>3 DEF Typed, Refs
<1>6. ASSUME NEW r \in Requests, Fail(r) PROVE Typed'
  <2>1. Answer(r)
    BY <1>6 DEF Fail
  <2> QED
    BY <1>2, <1>4, <2>1, AnswerRefs, IdleIsRequest, MoveTyped
<1> QED
  BY <1>2, <1>5, <1>6

\* Every step keeps the types and takes nothing back.
LEMMA NextTyped ==
    ASSUME Typed, [Next]_vars
    PROVE  Typed' /\ Grows
<1>1. CASE UNCHANGED vars
  <2>1. Grows
    BY <1>1, StutterGrows DEF vars
  <2> QED
    BY <1>1, <2>1 DEF vars, Typed, TypeOK, Refs, RowRefs, RequestRefs, UserIds
<1>2. ASSUME NEW r \in Requests, Arrive(r) PROVE Typed' /\ Grows
  <2>1. UNCHANGED <<users, links>>
    BY <1>2 DEF Arrive, CheckEmail, Resend, FindLogin, FindAccount, FindLink
  <2>2. Typed'
    BY <1>2, CheckEmailTyped, LoadUserTyped, FindLinkTyped DEF Arrive
  <2> QED
    BY <2>1, <2>2, StutterGrows
<1>3. ASSUME NEW r \in Requests, Proceed(r) PROVE Typed' /\ Grows
  <2>1. CASE CheckName(r) \/ FindNewUser(r)
    BY <2>1, CheckNameTyped, FindNewUserTyped, StutterGrows DEF CheckName, FindNewUser
  <2> QED
    BY <1>3, <2>1, InsertUserTyped, UpsertLinkTyped, MailTyped, VerifyTyped, GateTyped,
       ActivateTyped DEF Proceed
<1>4. ASSUME NEW u \in UserIds, ExpireLink(u) PROVE Typed' /\ Grows
  BY <1>4, ExpireTyped
<1>5. ASSUME NEW u \in holders, ExpireAccess(u) PROVE Typed' /\ Grows
  BY <1>5, ExpireTyped DEF Typed, TypeOK
<1> QED
  BY <1>1, <1>2, <1>3, <1>4, <1>5, FaultTyped DEF Next, Serve

\* TypeOK is an invariant, together with what requests in flight refer to.
THEOREM Typing == Spec => []TypeOK
<1>1. Typed /\ [Next]_vars => Typed'
  BY NextTyped
<1>2. Typed => TypeOK
  BY DEF Typed
<1> QED
  BY InitTyped, <1>1, <1>2, PTL DEF Spec

----------------------------------------------------------------------------
(* Duplicates.                                                             *)

\* A signup in flight saw, at each check, that no user present then had its
\* email (username); ids number the users in the order they were inserted.
ChecksHold ==
    \A r \in Requests :
        /\ req[r].pc \in {"checkName", "insert"} =>
              \A u \in UserIds : users[u].email = req[r].email => req[r].emailSeen < u
        /\ req[r].pc = "insert" =>
              \A u \in UserIds : users[u].name = req[r].name => req[r].nameSeen < u

Overlap == ChecksHold /\ DuplicatesOnlyFromOverlap

\* A step that inserts nobody and starts or continues no signup.
LEMMA NoInsertKeepsOverlap ==
    ASSUME Typed, Overlap, UNCHANGED seen, UserIds' = UserIds,
           \A u \in UserIds :
              users'[u].email = users[u].email /\ users'[u].name = users[u].name,
           \A r \in Requests : \/ req'[r] = req[r]
                               \/ req'[r].pc \notin {"checkName", "insert"}
    PROVE  Overlap'
<1>1. ChecksHold'
  BY DEF Overlap, ChecksHold
<1>2. DuplicatesOnlyFromOverlap'
  BY DEF Overlap, DuplicatesOnlyFromOverlap
<1> QED
  BY <1>1, <1>2 DEF Overlap

LEMMA CheckEmailOverlap ==
    ASSUME Typed, Overlap, NEW r \in Requests, NEW e \in Emails, NEW n \in Names,
           CheckEmail(r, e, n)
    PROVE  Overlap'
<1>1. /\ UNCHANGED <<users, seen>>
      /\ \A u \in UserIds : users[u].email # e
      /\ \A o \in Requests \ {r} : req'[o] = req[o]
      /\ req'[r].pc = "checkName" /\ req'[r].email = e
  BY DEF CheckEmail, Become, EmailTaken, Typed, TypeOK, Idle
<1>2. ChecksHold'
  BY <1>1 DEF Overlap, ChecksHold, UserIds
<1>3. DuplicatesOnlyFromOverlap'
  BY <1>1 DEF Overlap, DuplicatesOnlyFromOverlap, UserIds
<1> QED
  BY <1>2, <1>3 DEF Overlap

LEMMA CheckNameOverlap ==
    ASSUME Typed, Overlap, NEW r \in Requests, CheckName(r)
    PROVE  Overlap'
<1>1. /\ UNCHANGED <<users, seen>>
      /\ \A o \in Requests \ {r} : req'[o] = req[o]
  BY DEF CheckName, Become, Answer, Typed, TypeOK
<1>2. \/ req'[r].pc = "idle"
      \/ /\ \A u \in UserIds : users[u].name # req[r].name
         /\ req'[r].email = req[r].email /\ req'[r].name = req[r].name
         /\ req'[r].emailSeen = req[r].emailSeen
  <2>1. req[r] \in Request /\ req \in [Requests -> Request]
    BY DEF Typed, TypeOK
  <2>2. CASE Answer(r)
    BY <2>1, <2>2 DEF Answer, Become, Idle
  <2>3. CASE /\ ~ NameTaken(req[r].name)
             /\ Become(r, [req[r] EXCEPT !.pc = "insert", !.nameSeen = Len(users)])
    BY <2>1, <2>3 DEF Become, NameTaken, Request
  <2> QED
    BY <2>2, <2>3 DEF CheckName
<1>3. \A u \in UserIds : users[u].email = req[r].email => req[r].emailSeen < u
  BY DEF CheckName, Overlap, ChecksHold
<1>4. ChecksHold'
  BY <1>1, <1>2, <1>3 DEF Overlap, ChecksHold, UserIds
<1>5. DuplicatesOnlyFromOverlap'
  BY <1>1 DEF Overlap, DuplicatesOnlyFromOverlap, UserIds
<1> QED
  BY <1>4, <1>5 DEF Overlap

\* The new row carries what its signup saw; its id is above all that was seen.
LEMMA InsertUserOverlap ==
    ASSUME Typed, Overlap, NEW r \in Requests, InsertUser(r)
    PROVE  Overlap'
<1> DEFINE new == [email |-> req[r].email, name |-> req[r].name, status |-> "UNVERIFIED"]
           saw == [email |-> req[r].emailSeen, name |-> req[r].nameSeen]
           id == Len(users) + 1
<1>1. /\ \A u \in UserIds : users'[u] = users[u] /\ seen'[u] = seen[u]
      /\ users'[id] = new /\ seen'[id] = saw
      /\ UserIds' = UserIds \cup {id}
  <2>1. Len(users) \in Nat /\ Len(seen) = Len(users)
    BY LengthsAreNat DEF Typed, TypeOK
  <2>2. users' = Append(users, new) /\ seen' = Append(seen, saw)
    BY DEF InsertUser
  <2> QED
    BY <2>1, <2>2 DEF Typed, TypeOK, UserIds
<1>2. /\ \A o \in Requests \ {r} : req'[o] = req[o]
      /\ req'[r].pc = "findUser"
  <2>1. req[r] \in Request
    BY DEF Typed, TypeOK
  <2> QED
    BY <2>1 DEF InsertUser, Become, Typed, TypeOK, Request
<1>3. \A o \in Requests : req[o] \in Request
  BY DEF Typed, TypeOK
<1>4. \A u \in UserIds : u < id /\ u \in Nat
  BY LengthsAreNat DEF Typed, UserIds
<1>5. ChecksHold'
  <2> SUFFICES ASSUME NEW o \in Requests, req'[o].pc \in {"checkName", "insert"}
               PROVE  /\ \A u \in UserIds' :
                            users'[u].email = req'[o].email => req'[o].emailSeen < u
                      /\ req'[o].pc = "insert" =>
                            \A u \in UserIds' :
                               users'[u].name = req'[o].name => req'[o].nameSeen < u
    BY DEF ChecksHold
  <2>1. req'[o] = req[o]
    BY <1>2
  <2>2. req[o].emailSeen < id /\ req[o].nameSeen < id
    BY <2>1, LengthsAreNat DEF Typed, Refs, RequestRefs
  <2> QED
    BY <1>1, <2>1, <2>2 DEF Overlap, ChecksHold
<1>6. DuplicatesOnlyFromOverlap'
  <2> SUFFICES ASSUME NEW u \in UserIds', NEW v \in UserIds', u < v
               PROVE  /\ users'[u].email = users'[v].email => seen'[v].email < u
                      /\ users'[u].name = users'[v].name => seen'[v].name < u
    BY DEF DuplicatesOnlyFromOverlap
  <2>1. u \in UserIds
    BY <1>1, <1>4, LengthsAreNat DEF Typed
  <2>2. CASE v \in UserIds
    BY <1>1, <2>1, <2>2 DEF Overlap, DuplicatesOnlyFromOverlap
  <2>3. CASE v = id
    <3>1. /\ users[u].email = req[r].email => req[r].emailSeen < u
          /\ users[u].name = req[r].name => req[r].nameSeen < u
      BY <2>1 DEF Overlap, ChecksHold, InsertUser
    <3>2. /\ users'[v].email = req[r].email /\ users'[v].name = req[r].name
          /\ seen'[v].email = req[r].emailSeen /\ seen'[v].name = req[r].nameSeen
      BY <1>1, <2>3
    <3> QED
      BY <1>1, <2>1, <3>1, <3>2
  <2> QED
    BY <1>1, <2>2, <2>3
<1> QED
  BY <1>5, <1>6 DEF Overlap

\* Requests other than r stay; r leaves the two checking states.
LEMMA LeavesChecking ==
    ASSUME Typed, NEW r \in Requests, NEW q \in Request,
           q.pc \notin {"checkName", "insert"}, Become(r, q)
    PROVE  \A o \in Requests : \/ req'[o] = req[o]
                               \/ req'[o].pc \notin {"checkName", "insert"}
  BY BecomeChangesOne DEF Typed, TypeOK

LEMMA AnswerLeavesChecking ==
    ASSUME Typed, NEW r \in Requests, Answer(r)
    PROVE  \A o \in Requests : \/ req'[o] = req[o]
                               \/ req'[o].pc \notin {"checkName", "insert"}
  BY IdleIsRequest, LeavesChecking DEF Answer, Idle

LEMMA NextOverlap ==
    ASSUME Typed, Overlap, [Next]_vars
    PROVE  Overlap'
<1>1. \A u \in UserIds :
         users'[u].email = users[u].email /\ users'[u].name = users[u].name
  BY NextTyped DEF Grows
<1>2. CASE UNCHANGED <<seen, req, users>>
  BY <1>2, NoInsertKeepsOverlap DEF UserIds
<1>3. ASSUME NEW r \in Requests, NEW v \in UserIds,
             Resend(r, v) \/ FindLogin(r, v) \/ FindAccount(r, v)
      PROVE  Overlap'
  <2>1. PICK pc \in {"upsert", "gate", "activate"} :
            Become(r, [Idle EXCEPT !.pc = pc, !.user = v])
    BY <1>3 DEF Resend, FindLogin, FindAccount
  <2>2. req'[r].pc = pc /\ \A o \in Requests \ {r} : req'[o] = req[o]
    BY <2>1 DEF Become, Idle, Typed, TypeOK
  <2>3. UNCHANGED <<seen, users>>
    BY <1>3 DEF Resend, FindLogin, FindAccount
  <2> QED
    BY <2>2, <2>3, NoInsertKeepsOverlap DEF UserIds
<1>4. ASSUME NEW r \in Requests, NEW t \in 1..Len(links), FindLink(r, t)
      PROVE  Overlap'
  <2>1. req'[r].pc = "verify" /\ \A o \in Requests \ {r} : req'[o] = req[o]
    BY <1>4 DEF FindLink, Become, Idle, Typed, TypeOK
  <2> QED
    BY <1>4, <2>1, NoInsertKeepsOverlap DEF FindLink, UserIds
<1>5. ASSUME NEW r \in Requests, FindNewUser(r) \/ UpsertLink(r)
      PROVE  Overlap'
  <2>1. req'[r].pc \in {"upsert", "mail"} /\ \A o \in Requests \ {r} : req'[o] = req[o]
    BY <1>5 DEF FindNewUser, UpsertLink, Become, Idle, Typed, TypeOK
  <2> QED
    BY <1>5, <2>1, NoInsertKeepsOverlap DEF FindNewUser, UpsertLink, UserIds
<1>6. ASSUME NEW r \in Requests, Mail(r) \/ Verify(r) \/ Gate(r) \/ Activate(r) \/ Fail(r)
      PROVE  Overlap'
  <2>1. Answer(r) /\ UNCHANGED seen
    BY <1>6 DEF Mail, Verify, Gate, Activate, Fail
  <2>2. UserIds' = UserIds
    BY <1>6, VerifyEffect DEF Mail, Gate, Activate, Fail, UserIds, Typed, TypeOK
  <2> QED
    BY <1>1, <2>1, <2>2, AnswerLeavesChecking, NoInsertKeepsOverlap
<1>7. CASE Crash
  BY <1>7, NoInsertKeepsOverlap DEF Crash, Idle, UserIds
<1>8. CASE UNCHANGED vars
  BY <1>2, <1>8 DEF vars
<1>9. ASSUME NEW u, ExpireLink(u) \/ ExpireAccess(u) PROVE Overlap'
  BY <1>2, <1>9 DEF ExpireLink, ExpireAccess
<1> QED
  BY <1>3, <1>4, <1>5, <1>6, <1>7, <1>8, <1>9,
     CheckEmailOverlap, CheckNameOverlap, InsertUserOverlap
     DEF Next, Serve, Arrive, Proceed

\* Two users share an email or a username only if their signups overlapped:
\* the later one checked before the earlier one was inserted.
THEOREM DuplicatesNeedOverlap == Spec => []DuplicatesOnlyFromOverlap
<1>1. Init => Overlap
  BY DEF Init, Overlap, ChecksHold, DuplicatesOnlyFromOverlap, UserIds, Idle
<1>2. Typed /\ Overlap /\ [Next]_vars => Typed' /\ Overlap'
  BY NextTyped, NextOverlap
<1>3. Overlap => DuplicatesOnlyFromOverlap
  BY DEF Overlap
<1> QED
  BY InitTyped, <1>1, <1>2, <1>3, PTL DEF Spec

----------------------------------------------------------------------------
(* The gate.                                                               *)

\* A step that deletes no row of u and cuts off no signup of u keeps u gated.
LEMMA GatedKept ==
    ASSUME Typed, Gated, Grows, lost \subseteq lost', NEW u \in UserIds,
           ev[u].id # 0 => ev'[u].id # 0,
           MidSignup(u) => MidSignup(u)' \/ u \in lost' \/ SharesEmail(u) \/ ev'[u].id # 0
    PROVE  \/ ev'[u].id # 0 \/ Earned(u)'
           \/ MidSignup(u)' \/ u \in lost' \/ SharesEmail(u)'
<1>1. Earned(u) => Earned(u)'
  BY DEF Earned, Grows
<1>2. SharesEmail(u) => SharesEmail(u)'
  BY DEF SharesEmail, Grows
<1> QED
  BY <1>1, <1>2 DEF Gated

\* Requests in mid-signup other than r are still there after r moved on.
LEMMA MidSignupKept ==
    ASSUME Typed, NEW r \in Requests, \A o \in Requests \ {r} : req'[o] = req[o],
           NEW u \in UserIds, MidSignup(u)
    PROVE  \/ MidSignup(u)'
           \/ req[r].pc \in {"findUser", "upsert"} /\ req[r].self = u
  BY DEF MidSignup

LEMMA NextGated ==
    ASSUME Typed, Gated, [Next]_vars
    PROVE  Gated'
<1>1. Typed' /\ Grows
  BY NextTyped
<1>2. CASE UNCHANGED <<users, ev, req, lost>>
  BY <1>1, <1>2, GatedKept DEF Gated, UserIds, MidSignup
<1>3. ASSUME NEW r \in Requests, UNCHANGED <<users, ev>>, lost \subseteq lost',
             req[r].pc \notin {"findUser", "upsert"},
             \A o \in Requests \ {r} : req'[o] = req[o]
      PROVE  Gated'
  BY <1>1, <1>3, GatedKept, MidSignupKept DEF Gated, UserIds
<1>4. ASSUME NEW r \in Requests, InsertUser(r) PROVE Gated'
  <2>0. PICK id \in Nat : id = Len(users) + 1
    BY LengthsAreNat DEF Typed
  <2>1. \A o \in Requests \ {r} : req'[o] = req[o]
    BY <1>4 DEF InsertUser, Become, Typed, TypeOK
  <2>2. req'[r].pc = "findUser" /\ req'[r].self = id
    <3>1. req[r] \in Request
      BY DEF Typed, TypeOK
    <3> QED
      BY <1>4, <2>0, <3>1 DEF InsertUser, Become, Typed, TypeOK, Request
  <2>3. /\ UserIds' = UserIds \cup {id}
        /\ \A u \in UserIds : ev'[u] = ev[u]
    <3>1. Len(users) \in Nat
      BY LengthsAreNat DEF Typed
    <3> QED
      BY <1>4, <2>0, <3>1, NoRowIsRow DEF InsertUser, UserIds, Typed, TypeOK
  <2>4. MidSignup(id)'
    BY <2>2 DEF MidSignup
  <2>5. req[r].pc \notin {"findUser", "upsert"} /\ lost' = lost
    BY <1>4 DEF InsertUser
  <2> QED
    BY <1>1, <2>1, <2>3, <2>4, <2>5, GatedKept, MidSignupKept DEF Gated
<1>5. ASSUME NEW r \in Requests, FindNewUser(r) PROVE Gated'
  <2>1. /\ \A o \in Requests \ {r} : req'[o] = req[o]
        /\ req'[r].pc = "upsert" /\ req'[r].self = req[r].self
    BY <1>5 DEF FindNewUser, Become, Idle, Typed, TypeOK
  <2>2. ASSUME NEW u \in UserIds, MidSignup(u) PROVE MidSignup(u)'
    BY <2>1, <2>2, MidSignupKept DEF MidSignup
  <2> QED
    BY <1>1, <1>5, <2>2, GatedKept DEF FindNewUser, Gated, UserIds
<1>6. ASSUME NEW r \in Requests, UpsertLink(r) PROVE Gated'
  <2> DEFINE v == req[r].user
  <2>1. v \in UserIds /\ v \in 1..Len(ev) /\ UserIds = 1..Len(ev)
    BY <1>6 DEF UpsertLink, Typed, TypeOK, Refs, RequestRefs, UserIds
  <2>2. /\ \A o \in Requests \ {r} : req'[o] = req[o]
        /\ UNCHANGED <<users, lost>>
    BY <1>6 DEF UpsertLink, Become, Typed, TypeOK
  <2>3. /\ ev'[v].id # 0
        /\ \A u \in UserIds \ {v} : ev'[u] = ev[u]
    <3>1. Len(links) + 1 # 0
      BY LengthsAreNat DEF Typed
    <3> QED
      BY <1>6, <2>1, <3>1 DEF UpsertLink, Typed, TypeOK
  <2>4. ASSUME NEW u \in UserIds, MidSignup(u), u # v
        PROVE  MidSignup(u)' \/ SharesEmail(u)
    <3>1. CASE req[r].self = u
      BY <1>6, <2>1, <2>4, <3>1, LengthsAreNat
         DEF UpsertLink, Typed, Refs, RequestRefs, SharesEmail
    <3> QED
      BY <2>2, <2>4, <3>1, MidSignupKept
  <2> QED
    BY <1>1, <2>2, <2>3, <2>4, GatedKept DEF Gated, UserIds
<1>7. ASSUME NEW r \in Requests, Verify(r) PROVE Gated'
  <2>0. PICK v \in UserIds, t \in 1..Len(links) : v = req[r].user /\ t = req[r].link
    BY <1>7, VerifyEffect
  <2>1. /\ \A o \in Requests \ {r} : req'[o] = req[o]
        /\ lost' = lost /\ req[r].pc = "verify"
    BY <1>7 DEF Verify, Answer, Become, Typed, TypeOK
  <2>2. UserIds' = UserIds /\ \A u \in UserIds \ {v} : ev'[u] = ev[u]
    BY <1>7, <2>0, VerifyEffect DEF UserIds
  <2>3. Earned(v)'
    <3>1. links[t] \in Link
      BY ElementOfSeq DEF Typed, TypeOK
    <3>2. t \in 1..Len(links') /\ links'[t].user = v /\ links'[t].uses = links[t].uses + 1
      BY <1>7, <2>0, VerifyEffect
    <3> QED
      BY <3>1, <3>2 DEF Earned, Link
  <2>4. ASSUME NEW u \in UserIds, MidSignup(u) PROVE MidSignup(u)'
    BY <2>1, <2>4, MidSignupKept
  <2>5. ASSUME NEW u \in UserIds, u # v
        PROVE  \/ ev'[u].id # 0 \/ Earned(u)'
               \/ MidSignup(u)' \/ u \in lost' \/ SharesEmail(u)'
    BY <1>1, <2>1, <2>2, <2>4, <2>5, GatedKept
  <2> QED
    BY <2>2, <2>3, <2>5 DEF Gated
<1>8. ASSUME Crash \/ \E r \in Requests : Fail(r) PROVE Gated'
  <2>1. UNCHANGED <<users, ev>> /\ lost \subseteq lost'
    BY <1>8 DEF Crash, Fail
  <2>2. ASSUME NEW u \in UserIds, MidSignup(u) PROVE MidSignup(u)' \/ u \in lost'
    <3>1. u # 0
      BY LengthsAreNat DEF Typed
    <3>2. CASE Crash
      BY <2>2, <3>1, <3>2 DEF Crash, CutOff, MidSignup
    <3>3. ASSUME NEW r \in Requests, Fail(r) PROVE MidSignup(u)' \/ u \in lost'
      <4>1. \A o \in Requests \ {r} : req'[o] = req[o]
        BY <3>3 DEF Fail, Answer, Become, Typed, TypeOK
      <4> QED
        BY <2>2, <3>1, <3>3, <4>1, MidSignupKept DEF Fail, CutOff
    <3> QED
      BY <1>8, <3>2, <3>3
  <2> QED
    BY <1>1, <2>1, <2>2, GatedKept DEF Gated, UserIds
<1>9. ASSUME NEW r \in Requests, CheckName(r) \/ Mail(r) \/ Gate(r) PROVE Gated'
  <2>1. \A o \in Requests \ {r} : req'[o] = req[o]
    BY <1>9 DEF CheckName, Mail, Gate, Answer, Become, Typed, TypeOK
  <2> QED
    BY <1>3, <1>9, <2>1 DEF CheckName, Mail, Gate
<1>10. ASSUME NEW r \in Requests, Activate(r) PROVE Gated'
  <2>1. \A o \in Requests \ {r} : req'[o] = req[o]
    BY <1>10 DEF Activate, Answer, Become, Typed, TypeOK
  <2>2. UserIds' = UserIds
    BY <1>10 DEF Activate, UserIds, Typed, TypeOK
  <2> QED
    BY <1>1, <1>10, <2>1, <2>2, GatedKept, MidSignupKept DEF Activate, Gated
<1>11. ASSUME NEW r \in Requests, Arrive(r) PROVE Gated'
  <2>1. \A o \in Requests \ {r} : req'[o] = req[o]
    BY <1>11 DEF Arrive, CheckEmail, Resend, FindLogin, FindAccount, FindLink, Become,
       Typed, TypeOK
  <2>2. req[r] = Idle /\ UNCHANGED <<users, ev, lost>>
    BY <1>11 DEF Arrive, CheckEmail, Resend, FindLogin, FindAccount, FindLink
  <2>3. req[r].pc = "idle"
    BY <2>2 DEF Idle
  <2> QED
    BY <1>3, <2>1, <2>2, <2>3
<1>12. ASSUME NEW u \in UserIds, ExpireLink(u) PROVE Gated'
  <2>1. \A v \in UserIds : ev'[v].id = ev[v].id
    <3>1. \A v \in UserIds : ev[v] \in EvRow
      BY ElementOfSeq DEF Typed, TypeOK, UserIds
    <3> QED
      BY <1>12, <3>1 DEF ExpireLink, Typed, TypeOK, EvRow, UserIds
  <2> QED
    BY <1>1, <1>12, <2>1, GatedKept DEF ExpireLink, Gated, UserIds, MidSignup
<1>13. ASSUME NEW u, ExpireAccess(u) PROVE Gated'
  BY <1>2, <1>13 DEF ExpireAccess
<1>14. CASE UNCHANGED vars
  BY <1>2, <1>14 DEF vars
<1> QED
  BY <1>4, <1>5, <1>6, <1>7, <1>8, <1>9, <1>10, <1>11, <1>12, <1>13, <1>14
     DEF Next, Serve, Proceed

LEMMA InitGated == Init => Gated
  BY DEF Init, Gated, UserIds

\* A user without an email_verification row has verified, is signing up, was
\* cut off, or shares its email.
THEOREM GateHolds == Spec => []Gated
<1>1. Typed /\ Gated /\ [Next]_vars => Typed' /\ Gated'
  BY NextTyped, NextGated
<1> QED
  BY InitTyped, InitGated, <1>1, PTL DEF Spec

\* Access tokens go to users that verified by a link of theirs, but for the
\* exceptions of Gated.
THEOREM TokensEarned == Spec => TokensAreEarned
<1> DEFINE Ok == \A u \in holders' \ holders :
                    Earned(u) \/ MidSignup(u) \/ u \in lost \/ SharesEmail(u)
<1>1. ASSUME Typed, Gated, [Next]_vars PROVE [Ok]_vars
  <2>1. ASSUME NEW r \in Requests, Gate(r) PROVE Ok
    <3>1. req[r].user \in UserIds
      BY <1>1, <2>1 DEF Gate, Typed, Refs, RequestRefs
    <3> QED
      BY <1>1, <2>1, <3>1 DEF Gate, Gated
  <2>2. ASSUME holders' \subseteq holders PROVE Ok
    BY <2>2
  <2>3. \/ UNCHANGED vars \/ holders' \subseteq holders \/ \E r \in Requests : Gate(r)
    BY <1>1 DEF Next, Serve, Arrive, Proceed, CheckEmail, CheckName, InsertUser, FindNewUser,
       Resend, UpsertLink, Mail, FindLink, Verify, ExpireLink, FindLogin, ExpireAccess,
       FindAccount, Activate, Fail, Crash
  <2> QED
    BY <2>1, <2>2, <2>3
<1>2. Typed /\ Gated /\ [Next]_vars => Typed' /\ Gated'
  BY NextTyped, NextGated
<1> QED
  BY InitTyped, InitGated, <1>1, <1>2, PTL DEF Spec, TokensAreEarned

----------------------------------------------------------------------------
(* Links.                                                                  *)

\* A verification in flight knows the row that holds its link, if one still does.
VerifyKnowsRow ==
    \A r \in Requests : req[r].pc = "verify" /\ ev[req[r].user].token = req[r].link =>
        ev[req[r].user].id = req[r].row

Dead == VerifyKnowsRow /\ UsedLinksAreDead

\* A step that uses no link, stores no link and starts no verification.
LEMMA DeadKept ==
    ASSUME Typed, Typed', Grows, Dead, UserIds' = UserIds, Len(links)' = Len(links),
           \A t \in 1..Len(links) : links'[t].uses = links[t].uses,
           \A u \in UserIds : ev'[u].id = ev[u].id /\ ev'[u].token = ev[u].token,
           \A o \in Requests : req'[o] = req[o] \/ req'[o].pc # "verify"
    PROVE  Dead'
<1>1. VerifyKnowsRow'
  BY DEF Dead, VerifyKnowsRow, Typed, Refs, RequestRefs
<1>2. UsedLinksAreDead'
  <2> SUFFICES ASSUME NEW t \in 1..Len(links), links'[t].uses > 0
               PROVE  /\ users'[links'[t].user].status # "UNVERIFIED"
                      /\ \A u \in UserIds : ev'[u].token # t
    BY DEF UsedLinksAreDead
  <2>1. links'[t].user = links[t].user /\ links[t].user \in UserIds
    BY DEF Grows, Typed, Refs, RowRefs
  <2> QED
    BY <2>1 DEF Dead, UsedLinksAreDead, Grows
<1> QED
  BY <1>1, <1>2 DEF Dead

LEMMA InsertUserDead ==
    ASSUME Typed, Typed', Grows, Dead, NEW r \in Requests, InsertUser(r)
    PROVE  Dead'
<1>1. PICK id \in Nat : id = Len(users) + 1
  BY LengthsAreNat DEF Typed
<1>2. /\ UserIds' = UserIds \cup {id} /\ links' = links
      /\ \A u \in UserIds : ev'[u] = ev[u]
      /\ ev'[id] = NoRow
  <2>1. Len(users) \in Nat
    BY LengthsAreNat DEF Typed
  <2> QED
    BY <1>1, <2>1, NoRowIsRow DEF InsertUser, UserIds, Typed, TypeOK
<1>3. /\ \A o \in Requests \ {r} : req'[o] = req[o]
      /\ req'[r].pc = "findUser"
  <2>1. req[r] \in Request
    BY DEF Typed, TypeOK
  <2> QED
    BY <2>1 DEF InsertUser, Become, Typed, TypeOK, Request
<1>4. VerifyKnowsRow'
  BY <1>2, <1>3 DEF Dead, VerifyKnowsRow, Typed, Refs, RequestRefs
<1>5. UsedLinksAreDead'
  <2> SUFFICES ASSUME NEW t \in 1..Len(links), links[t].uses > 0
               PROVE  /\ users'[links[t].user].status # "UNVERIFIED"
                      /\ \A u \in UserIds' : ev'[u].token # t
    BY <1>2 DEF UsedLinksAreDead
  <2>1. links[t].user \in UserIds /\ t # 0
    BY LengthsAreNat DEF Typed, Refs, RowRefs
  <2> QED
    BY <1>2, <2>1 DEF Dead, UsedLinksAreDead, Grows, NoRow
<1> QED
  BY <1>4, <1>5 DEF Dead

LEMMA UpsertLinkDead ==
    ASSUME Typed, Typed', Grows, Dead, NEW r \in Requests, UpsertLink(r)
    PROVE  Dead'
<1>1. PICK v \in UserIds, new \in Nat \ {0} : v = req[r].user /\ new = Len(links) + 1
  BY LengthsAreNat DEF UpsertLink, Typed, Refs, RequestRefs
<1>2. /\ UserIds' = UserIds /\ UserIds = 1..Len(ev)
      /\ ev'[v].token = new
      /\ \A u \in UserIds \ {v} : ev'[u] = ev[u]
  BY <1>1 DEF UpsertLink, UserIds, Typed, TypeOK
<1>3. /\ 1..Len(links') = 1..Len(links) \cup {new} /\ new \notin 1..Len(links)
      /\ \A t \in 1..Len(links) : links'[t] = links[t]
      /\ links'[new].uses = 0
  <2>1. Len(links) \in Nat
    BY LengthsAreNat DEF Typed
  <2> QED
    BY <1>1, <2>1 DEF UpsertLink, Typed, TypeOK
<1>4. /\ \A o \in Requests \ {r} : req'[o] = req[o]
      /\ req'[r].pc = "mail"
  BY DEF UpsertLink, Become, Idle, Typed, TypeOK
<1>5. VerifyKnowsRow'
  BY <1>2, <1>3, <1>4 DEF Dead, VerifyKnowsRow, Typed, Refs, RequestRefs
<1>6. UsedLinksAreDead'
  <2> SUFFICES ASSUME NEW t \in 1..Len(links'), links'[t].uses > 0
               PROVE  /\ users'[links'[t].user].status # "UNVERIFIED"
                      /\ \A u \in UserIds : ev'[u].token # t
    BY <1>2 DEF UsedLinksAreDead
  <2>1. t \in 1..Len(links) /\ t # new /\ links'[t] = links[t]
    BY <1>3
  <2>2. links[t].user \in UserIds
    BY <2>1 DEF Typed, Refs, RowRefs
  <2> QED
    BY <1>2, <2>1, <2>2 DEF Dead, UsedLinksAreDead, Grows
<1> QED
  BY <1>5, <1>6 DEF Dead

LEMMA FindLinkDead ==
    ASSUME Typed, Dead, NEW r \in Requests, NEW t \in 1..Len(links), FindLink(r, t)
    PROVE  Dead'
<1>1. /\ \A o \in Requests \ {r} : req'[o] = req[o]
      /\ req'[r].row = ev[req'[r].user].id
      /\ UNCHANGED <<users, ev, links>>
  BY DEF FindLink, Become, Idle, Typed, TypeOK
<1>2. VerifyKnowsRow'
  BY <1>1 DEF Dead, VerifyKnowsRow
<1>3. UsedLinksAreDead'
  BY <1>1 DEF Dead, UsedLinksAreDead, UserIds
<1> QED
  BY <1>2, <1>3 DEF Dead

LEMMA VerifyDead ==
    ASSUME Typed, Typed', Grows, Dead, NEW r \in Requests, Verify(r)
    PROVE  Dead'
<1>1. PICK v \in UserIds, k \in 1..Len(links) :
          v = req[r].user /\ k = req[r].link /\ links[k].user = v
  BY VerifyEffect
<1>2. /\ UserIds' = UserIds /\ Len(links') = Len(links)
      /\ \A t \in 1..Len(links) \ {k} : links'[t].uses = links[t].uses
      /\ users'[v].status = "VERIFIED"
  BY <1>1, VerifyEffect DEF UserIds
<1>3. /\ \A u \in UserIds : ev'[u] = ev[u] \/ ev'[u] = NoRow
      /\ ev'[v] = NoRow \/ (ev'[v] = ev[v] /\ ev[v].id # req[r].row)
  BY <1>1, VerifyEffect
<1>4. \A o \in Requests : req'[o] = req[o] \/ req'[o].pc # "verify"
  BY DEF Verify, Answer, Become, Idle, Typed, TypeOK
<1>5. NoRow.token = 0
  BY DEF NoRow
<1>6. VerifyKnowsRow'
  <2> SUFFICES ASSUME NEW o \in Requests, req'[o].pc = "verify",
                      ev'[req'[o].user].token = req'[o].link
               PROVE  ev'[req'[o].user].id = req'[o].row
    BY DEF VerifyKnowsRow
  <2>1. /\ req'[o] = req[o] /\ req[o].pc = "verify"
        /\ req[o].user \in UserIds /\ req[o].link \in 1..Len(links)
    BY <1>4 DEF Typed, Refs, RequestRefs
  <2>2. ev'[req[o].user] = ev[req[o].user]
    BY <1>3, <1>5, <2>1
  <2> QED
    BY <2>1, <2>2 DEF Dead, VerifyKnowsRow
<1>7. UsedLinksAreDead'
  <2> SUFFICES ASSUME NEW t \in 1..Len(links), links'[t].uses > 0
               PROVE  /\ users'[links'[t].user].status # "UNVERIFIED"
                      /\ \A u \in UserIds : ev'[u].token # t
    BY <1>2 DEF UsedLinksAreDead
  <2>1. links'[t].user = links[t].user /\ links[t].user \in UserIds /\ t # 0
    BY DEF Grows, Typed, Refs, RowRefs
  <2>2. CASE t = k
    <3>1. ASSUME NEW u \in UserIds, ev'[u].token = t PROVE FALSE
      <4>1. ev'[u] = ev[u] /\ ev[u].token = k
        BY <1>3, <1>5, <2>1, <2>2, <3>1
      <4>2. u = v
        BY <1>1, <2>1, <2>2, <4>1 DEF Typed, Refs, RowRefs
      <4>3. ev[v].id = req[r].row
        BY <1>1, <4>1, <4>2 DEF Dead, VerifyKnowsRow, Verify
      <4> QED
        BY <1>3, <1>5, <2>1, <2>2, <3>1, <4>2, <4>3
    <3> QED
      BY <1>1, <1>2, <2>1, <2>2, <3>1
  <2>3. CASE t # k
    BY <1>2, <1>3, <1>5, <2>1, <2>3 DEF Dead, UsedLinksAreDead, Grows
  <2> QED
    BY <2>2, <2>3
<1> QED
  BY <1>6, <1>7 DEF Dead

LEMMA NextDead ==
    ASSUME Typed, Dead, [Next]_vars
    PROVE  Dead'
<1>1. Typed' /\ Grows
  BY NextTyped
<1>2. ASSUME NEW r \in Requests, UNCHANGED <<ev, links>>, Len(users') = Len(users),
             \A o \in Requests \ {r} : req'[o] = req[o], req'[r].pc # "verify"
      PROVE  Dead'
  BY <1>1, <1>2, DeadKept DEF UserIds
<1>3. CASE UNCHANGED <<users, ev, links, req>>
  BY <1>3 DEF Dead, VerifyKnowsRow, UsedLinksAreDead, UserIds
<1>4. ASSUME NEW r \in Requests, NEW v \in UserIds,
             Resend(r, v) \/ FindLogin(r, v) \/ FindAccount(r, v)
      PROVE  Dead'
  <2>1. /\ req'[r].pc # "verify" /\ \A o \in Requests \ {r} : req'[o] = req[o]
        /\ UNCHANGED <<users, ev, links>>
    BY <1>4 DEF Resend, FindLogin, FindAccount, Become, Idle, Typed, TypeOK
  <2> QED
    BY <1>2, <2>1
<1>5. ASSUME NEW r \in Requests, NEW e \in Emails, NEW n \in Names, CheckEmail(r, e, n)
      PROVE  Dead'
  <2>1. /\ req'[r].pc # "verify" /\ \A o \in Requests \ {r} : req'[o] = req[o]
        /\ UNCHANGED <<users, ev, links>>
    BY <1>5 DEF CheckEmail, Become, Idle, Typed, TypeOK
  <2> QED
    BY <1>2, <2>1
<1>6. ASSUME NEW r \in Requests, CheckName(r) PROVE Dead'
  <2>1. req[r] \in Request
    BY DEF Typed, TypeOK
  <2>2. \A o \in Requests \ {r} : req'[o] = req[o]
    BY <1>6 DEF CheckName, Answer, Become, Typed, TypeOK
  <2>3. req'[r].pc # "verify"
    <3>1. CASE Answer(r)
      BY <3>1 DEF Answer, Become, Idle, Typed, TypeOK
    <3>2. CASE Become(r, [req[r] EXCEPT !.pc = "insert", !.nameSeen = Len(users)])
      BY <2>1, <3>2 DEF Become, Typed, TypeOK, Request
    <3> QED
      BY <1>6, <3>1, <3>2 DEF CheckName
  <2> QED
    BY <1>2, <1>6, <2>2, <2>3 DEF CheckName
<1>7. ASSUME NEW r \in Requests, FindNewUser(r) \/ Gate(r) \/ Activate(r) \/ Fail(r)
      PROVE  Dead'
  <2>1. PICK q : Become(r, q) /\ q.pc # "verify"
    <3>1. CASE FindNewUser(r)
      <4>1. PICK v \in UserIds :
                Become(r, [Idle EXCEPT !.pc = "upsert", !.self = req[r].self, !.user = v])
        BY <3>1 DEF FindNewUser
      <4>2. [Idle EXCEPT !.pc = "upsert", !.self = req[r].self, !.user = v].pc # "verify"
        BY DEF Idle
      <4> QED
        BY <4>1, <4>2
    <3>2. Idle.pc # "verify"
      BY DEF Idle
    <3> QED
      BY <1>7, <3>1, <3>2 DEF Gate, Activate, Fail, Answer
  <2>2. UNCHANGED <<ev, links>>
    BY <1>7 DEF FindNewUser, Gate, Activate, Fail
  <2>3. Len(users') = Len(users)
    <3>1. CASE Activate(r)
      BY <3>1 DEF Activate, Typed, TypeOK
    <3> QED
      BY <1>7, <3>1 DEF FindNewUser, Gate, Fail
  <2>4. req'[r].pc # "verify" /\ \A o \in Requests \ {r} : req'[o] = req[o]
    BY <2>1 DEF Become, Typed, TypeOK
  <2> QED
    BY <1>2, <2>2, <2>3, <2>4
<1>8. ASSUME NEW r \in Requests, Mail(r) PROVE Dead'
  <2>1. \A o \in Requests : req'[o] = req[o] \/ req'[o].pc # "verify"
    BY <1>8 DEF Mail, Answer, Become, Idle, Typed, TypeOK
  <2>2. Len(links') = Len(links) /\ \A t \in 1..Len(links) : links'[t].uses = links[t].uses
    <3>1. \A t \in 1..Len(links) : links[t] \in Link
      BY ElementOfSeq DEF Typed, TypeOK
    <3> QED
      BY <1>8, <3>1 DEF Mail, Typed, TypeOK, Link
  <2> QED
    BY <1>1, <1>8, <2>1, <2>2, DeadKept DEF Mail, UserIds
<1>9. ASSUME NEW u \in UserIds, ExpireLink(u) PROVE Dead'
  <2>1. \A v \in UserIds : ev'[v].id = ev[v].id /\ ev'[v].token = ev[v].token
    <3>1. \A v \in UserIds : ev[v] \in EvRow
      BY ElementOfSeq DEF Typed, TypeOK, UserIds
    <3> QED
      BY <1>9, <3>1 DEF ExpireLink, Typed, TypeOK, EvRow, UserIds
  <2> QED
    BY <1>1, <1>9, <2>1, DeadKept DEF ExpireLink, UserIds
<1>10. CASE Crash
  BY <1>1, <1>10, DeadKept DEF Crash, Idle, UserIds
<1>11. ASSUME NEW u, ExpireAccess(u) PROVE Dead'
  BY <1>3, <1>11 DEF ExpireAccess
<1>12. CASE UNCHANGED vars
  BY <1>3, <1>12 DEF vars
<1> QED
  BY <1>1, <1>4, <1>5, <1>6, <1>7, <1>8, <1>9, <1>10, <1>11, <1>12,
     InsertUserDead, UpsertLinkDead, FindLinkDead, VerifyDead
     DEF Next, Serve, Arrive, Proceed

\* A link that verified once has verified its user, and no row holds it again.
THEOREM UsedLinksDie == Spec => []UsedLinksAreDead
<1>1. Init => Dead
  BY DEF Init, Dead, VerifyKnowsRow, UsedLinksAreDead, UserIds, Idle
<1>2. Typed /\ Dead /\ [Next]_vars => Typed' /\ Dead'
  BY NextTyped, NextDead
<1>3. Dead => UsedLinksAreDead
  BY DEF Dead
<1> QED
  BY InitTyped, <1>1, <1>2, <1>3, PTL DEF Spec

----------------------------------------------------------------------------
(* LinksGoOut: no signup is forgotten.                                     *)

\* The one statement that needs a row finds one: the lookup by email.
SignupsFindUsers ==
    \A r \in Requests : req[r].pc = "findUser" =>
        \E v \in UserIds : users[v].email = req[r].email

\* What was sent stays sent, and what was cut short stays so.
SettledStays ==
    /\ \A t \in 1..Len(links) : links[t].to = Recipient => links'[t].to = Recipient
    /\ lost \subseteq lost' /\ unsent \subseteq unsent'

Remembered(u) == Settled(u) \/ \E r \in Requests : LinkDue(r, u)

LEMMA SettledKept ==
    ASSUME Grows, SettledStays, NEW u \in UserIds, Settled(u)
    PROVE  Settled(u)'
<1>1. LinkSent(u) => LinkSent(u)'
  BY DEF LinkSent, Grows, SettledStays
<1>2. CutShort(u) => CutShort(u)'
  BY DEF CutShort, Grows, SettledStays
<1>3. SharesEmail(u) => SharesEmail(u)'
  BY DEF SharesEmail, Grows
<1> QED
  BY <1>1, <1>2, <1>3 DEF Settled

LEMMA DueKept ==
    ASSUME Typed, Grows, NEW o \in Requests, NEW u, LinkDue(o, u), req'[o] = req[o]
    PROVE  LinkDue(o, u)'
<1>1. RequestRefs(o)
  BY DEF Typed, Refs
<1> QED
  BY <1>1 DEF LinkDue, RequestRefs, Grows

LEMMA RememberedKept ==
    ASSUME Typed, Grows, SettledStays, NEW r \in Requests, NEW u \in UserIds, Remembered(u),
           \A o \in Requests \ {r} : req'[o] = req[o],
           LinkDue(r, u) => Remembered(u)'
    PROVE  Remembered(u)'
<1>1. Settled(u) => Settled(u)'
  BY SettledKept
<1>2. ASSUME NEW o \in Requests \ {r}, LinkDue(o, u) PROVE LinkDue(o, u)'
  BY <1>2, DueKept
<1> QED
  BY <1>1, <1>2 DEF Remembered

\* The users stay the same and r owes nobody a link.
LEMMA LinksGoOutKept ==
    ASSUME Typed, Grows, SettledStays, LinksGoOut, NEW r \in Requests,
           Len(users') = Len(users),
           \A o \in Requests \ {r} : req'[o] = req[o],
           \A u \in UserIds : LinkDue(r, u) => Remembered(u)'
    PROVE  LinksGoOut'
<1>1. ASSUME NEW u \in UserIds PROVE Remembered(u)'
  BY RememberedKept DEF LinksGoOut, Remembered
<1> QED
  BY <1>1 DEF LinksGoOut, Remembered, UserIds

LEMMA InsertUserOwes ==
    ASSUME Typed, Grows, LinksGoOut, NEW r \in Requests, InsertUser(r)
    PROVE  LinksGoOut'
<1>0. PICK id \in Nat : id = Len(users) + 1
  BY LengthsAreNat DEF Typed
<1>1. /\ \A o \in Requests \ {r} : req'[o] = req[o]
      /\ UNCHANGED <<links, lost, unsent>> /\ req[r].pc = "insert"
  BY DEF InsertUser, Become, Typed, TypeOK
<1>2. req'[r].pc = "findUser" /\ req'[r].self = id
  <2>1. req[r] \in Request
    BY DEF Typed, TypeOK
  <2> QED
    BY <1>0, <2>1 DEF InsertUser, Become, Typed, TypeOK, Request
<1>3. UserIds' = UserIds \cup {id}
  <2>1. Len(users) \in Nat
    BY LengthsAreNat DEF Typed
  <2> QED
    BY <1>0, <2>1 DEF InsertUser, UserIds, Typed, TypeOK
<1>4. Remembered(id)'
  BY <1>2 DEF Remembered, LinkDue
<1>5. ASSUME NEW u \in UserIds PROVE Remembered(u)'
  <2>1. ~ LinkDue(r, u) /\ SettledStays
    BY <1>1 DEF LinkDue, SettledStays
  <2> QED
    BY <1>1, <2>1, RememberedKept DEF LinksGoOut, Remembered
<1> QED
  BY <1>3, <1>4, <1>5 DEF LinksGoOut, Remembered

\* The row the lookup by email finds is the new user's, or that of another user
\* with the same email.
LEMMA FindNewUserOwes ==
    ASSUME Typed, Grows, LinksGoOut, NEW r \in Requests, FindNewUser(r)
    PROVE  LinksGoOut'
<1>1. PICK v \in UserIds :
          /\ users[v].email = req[r].email
          /\ Become(r, [Idle EXCEPT !.pc = "upsert", !.self = req[r].self, !.user = v])
  BY DEF FindNewUser
<1>2. /\ UNCHANGED <<users, links, lost, unsent>> /\ req[r].pc = "findUser"
      /\ users[req[r].self].email = req[r].email
  BY DEF FindNewUser, Typed, Refs, RequestRefs
<1>3. /\ \A o \in Requests \ {r} : req'[o] = req[o]
      /\ req'[r].pc = "upsert" /\ req'[r].user = v /\ req'[r].self = req[r].self
  BY <1>1 DEF Become, Idle, Typed, TypeOK
<1>4. ASSUME NEW u \in UserIds, LinkDue(r, u) PROVE Remembered(u)'
  <2>1. req[r].self = u
    BY <1>2, <1>4 DEF LinkDue
  <2>2. CASE v = u
    BY <1>3, <2>1, <2>2 DEF Remembered, LinkDue
  <2>3. CASE v # u
    <3>1. users'[v].email = users'[u].email /\ v \in UserIds'
      BY <1>1, <1>2, <2>1 DEF UserIds
    <3> QED
      BY <2>3, <3>1 DEF Remembered, Settled, SharesEmail
  <2> QED
    BY <2>2, <2>3
<1>5. SettledStays
  BY <1>2 DEF SettledStays
<1> QED
  BY <1>2, <1>3, <1>4, <1>5, LinksGoOutKept

LEMMA UpsertLinkOwes ==
    ASSUME Typed, Grows, LinksGoOut, NEW r \in Requests, UpsertLink(r)
    PROVE  LinksGoOut'
<1>0. PICK t, v : t = Len(links) + 1 /\ v = req[r].user
  OBVIOUS
<1>1. /\ links' = Append(links, [user |-> v, to |-> None, uses |-> 0])
      /\ Become(r, [Idle EXCEPT !.pc = "mail", !.link = t])
      /\ UNCHANGED <<users, lost, unsent>> /\ req[r].pc = "upsert"
  BY <1>0 DEF UpsertLink
<1>2. v \in Nat
  BY <1>0, <1>1, LengthsAreNat DEF Typed, Refs, RequestRefs
<1>3. [user |-> v, to |-> None, uses |-> 0] \in Link
  BY <1>2 DEF Link
<1>4. /\ links'[t].user = v
      /\ \A k \in 1..Len(links) : links'[k] = links[k]
  BY <1>0, <1>1, <1>3, AppendProperties DEF Typed, TypeOK
<1>5. /\ \A o \in Requests \ {r} : req'[o] = req[o]
      /\ req'[r].pc = "mail" /\ req'[r].link = t
  BY <1>1 DEF Become, Idle, Typed, TypeOK
<1>6. ASSUME NEW u \in UserIds, LinkDue(r, u) PROVE Remembered(u)'
  BY <1>0, <1>1, <1>4, <1>5, <1>6 DEF Remembered, LinkDue
<1>7. SettledStays
  BY <1>1, <1>4 DEF SettledStays
<1> QED
  BY <1>1, <1>5, <1>6, <1>7, LinksGoOutKept

\* Mail sends the link to Recipient and changes nothing else of it.
LEMMA MailEffect ==
    ASSUME Typed, NEW r \in Requests, Mail(r)
    PROVE  /\ req[r].link \in 1..Len(links)
           /\ links'[req[r].link].to = Recipient
           /\ links'[req[r].link].user = links[req[r].link].user
           /\ \A k \in 1..Len(links) : k # req[r].link => links'[k] = links[k]
<1>0. PICK t : t = req[r].link
  OBVIOUS
<1>1. links' = [links EXCEPT ![t].to = Recipient] /\ req[r].pc = "mail"
  BY <1>0 DEF Mail
<1>2. t \in 1..Len(links) /\ links[t] \in Link
  BY <1>0, <1>1, ElementOfSeq DEF Typed, TypeOK, Refs, RequestRefs
<1>3. \A k \in 1..Len(links) : links'[k] = IF k = t THEN [links[t] EXCEPT !.to = Recipient]
                                           ELSE links[k]
  BY <1>1, <1>2 DEF Typed, TypeOK
<1>4. links'[t].to = Recipient /\ links'[t].user = links[t].user
  BY <1>2, <1>3 DEF Link
<1> QED
  BY <1>0, <1>2, <1>3, <1>4

LEMMA MailSettles ==
    ASSUME Typed, Grows, NEW r \in Requests, NEW u, LinkDue(r, u), Mail(r)
    PROVE  Settled(u)'
<1>1. PICK t : t = req[r].link
  OBVIOUS
<1>2. links[t].user = u
  BY <1>1 DEF Mail, LinkDue
<1>3. t \in 1..Len(links) /\ links'[t].to = Recipient /\ links'[t].user = u
  BY <1>1, <1>2, MailEffect
<1>4. t \in 1..Len(links')
  BY <1>3 DEF Grows
<1> QED
  BY <1>3, <1>4 DEF Settled, LinkSent

LEMMA MailOwes ==
    ASSUME Typed, Grows, LinksGoOut, NEW r \in Requests, Mail(r)
    PROVE  LinksGoOut'
<1>1. UNCHANGED <<users, lost, unsent>> /\ Answer(r)
  BY DEF Mail
<1>2. \A o \in Requests \ {r} : req'[o] = req[o]
  BY <1>1 DEF Answer, Become, Typed, TypeOK
<1>3. SettledStays
  <2>1. ASSUME NEW t \in 1..Len(links), links[t].to = Recipient PROVE links'[t].to = Recipient
    BY <2>1, MailEffect
  <2> QED
    BY <1>1, <2>1 DEF SettledStays
<1>4. \A u \in UserIds : LinkDue(r, u) => Remembered(u)'
  BY MailSettles DEF Remembered
<1> QED
  BY <1>1, <1>2, <1>3, <1>4, LinksGoOutKept

\* A fault settles what the handlers it ends owe.
LEMMA FailSettles ==
    ASSUME Typed, NEW r \in Requests, NEW u \in UserIds, LinkDue(r, u),
           UNCHANGED links, CutOff(r) \subseteq lost', Unmailed(r) \subseteq unsent'
    PROVE  Settled(u)'
<1>1. CASE req[r].pc = "mail"
  <2>1. req[r].link \in 1..Len(links) /\ links[req[r].link].user = u
    BY <1>1 DEF LinkDue, Typed, Refs, RequestRefs
  <2> QED
    BY <1>1, <2>1 DEF Settled, CutShort, Unmailed
<1>2. CASE req[r].pc \in {"findUser", "upsert"}
  <2>1. req[r].self = u /\ u # 0
    BY <1>2, LengthsAreNat DEF LinkDue, Typed
  <2> QED
    BY <1>2, <2>1 DEF Settled, CutShort, CutOff
<1> QED
  BY <1>1, <1>2 DEF LinkDue

LEMMA FaultOwes ==
    ASSUME Typed, Grows, LinksGoOut, Crash \/ \E r \in Requests : Fail(r)
    PROVE  LinksGoOut'
<1>1. SettledStays /\ UNCHANGED <<users, links>>
  BY DEF Crash, Fail, SettledStays
<1>2. ASSUME NEW u \in UserIds, NEW r \in Requests, LinkDue(r, u)
      PROVE  Settled(u)' \/ LinkDue(r, u)'
  <2>1. CASE CutOff(r) \subseteq lost' /\ Unmailed(r) \subseteq unsent'
    BY <1>1, <1>2, <2>1, FailSettles
  <2>2. CASE req'[r] = req[r]
    BY <1>2, <2>2, DueKept
  <2>3. ASSUME NEW o \in Requests, Fail(o), o # r PROVE req'[r] = req[r]
    BY <2>3 DEF Fail, Answer, Become, Typed, TypeOK
  <2> QED
    BY <2>1, <2>2, <2>3 DEF Crash, Fail
<1>3. ASSUME NEW u \in UserIds PROVE Remembered(u)'
  <2>1. Settled(u) => Settled(u)'
    BY <1>1, SettledKept
  <2> QED
    BY <1>2, <2>1 DEF Remembered, LinksGoOut
<1> QED
  BY <1>1, <1>3 DEF LinksGoOut, Remembered, UserIds

\* The handlers that owe no link.
LEMMA OthersOwe ==
    ASSUME Typed, Grows, LinksGoOut, NEW r \in Requests,
           Arrive(r) \/ CheckName(r) \/ Gate(r) \/ Activate(r) \/ Verify(r)
    PROVE  LinksGoOut'
<1>1. \A o \in Requests \ {r} : req'[o] = req[o]
  BY DEF Arrive, CheckEmail, Resend, FindLogin, FindAccount, FindLink, CheckName, Gate,
     Activate, Verify, Answer, Become, Typed, TypeOK
<1>2. req[r].pc \notin {"findUser", "upsert", "mail"}
  <2>1. CASE Arrive(r)
    <3>1. req[r] = Idle
      BY <2>1 DEF Arrive, CheckEmail, Resend, FindLogin, FindAccount, FindLink
    <3> QED
      BY <3>1 DEF Idle
  <2>2. CASE CheckName(r)
    BY <2>2 DEF CheckName
  <2>3. CASE Gate(r)
    BY <2>3 DEF Gate
  <2>4. CASE Activate(r)
    BY <2>4 DEF Activate
  <2>5. CASE Verify(r)
    BY <2>5 DEF Verify
  <2> QED
    BY <2>1, <2>2, <2>3, <2>4, <2>5
<1>3. Len(users') = Len(users)
  <2>1. CASE Verify(r)
    BY <2>1, VerifyEffect
  <2>2. CASE Activate(r)
    <3>1. PICK u : u = req[r].user
      OBVIOUS
    <3>2. users' = [users EXCEPT ![u].status = "ACTIVE"]
      BY <2>2, <3>1 DEF Activate
    <3> QED
      BY <3>2 DEF Typed, TypeOK
  <2>3. CASE Arrive(r)
    BY <2>3 DEF Arrive, CheckEmail, Resend, FindLogin, FindAccount, FindLink
  <2>4. CASE CheckName(r) \/ Gate(r)
    BY <2>4 DEF CheckName, Gate
  <2> QED
    BY <2>1, <2>2, <2>3, <2>4
<1>4. \A t \in 1..Len(links) : links[t].to = Recipient => links'[t].to = Recipient
  <2>1. CASE Verify(r)
    <3> DEFINE t == req[r].link
    <3>1. t \in 1..Len(links) /\ links[t] \in Link
      BY <2>1, VerifyEffect, ElementOfSeq DEF Typed, TypeOK
    <3>2. links' = [links EXCEPT ![t] = [links[t] EXCEPT !.uses = @ + 1]]
      BY <2>1 DEF Verify
    <3>3. [links[t] EXCEPT !.uses = @ + 1].to = links[t].to
      BY <3>1 DEF Link
    <3> QED
      BY <3>1, <3>2, <3>3 DEF Typed, TypeOK
  <2>2. CASE ~ Verify(r)
    BY <2>2 DEF Arrive, CheckEmail, Resend, FindLogin, FindAccount, FindLink, CheckName,
       Gate, Activate
  <2> QED
    BY <2>1, <2>2
<1>5. UNCHANGED <<lost, unsent>>
  BY DEF Arrive, CheckEmail, Resend, FindLogin, FindAccount, FindLink, CheckName,
     Gate, Activate, Verify
<1>6. SettledStays
  BY <1>4, <1>5 DEF SettledStays
<1>7. \A u \in UserIds : ~ LinkDue(r, u)
  BY <1>2 DEF LinkDue
<1> QED
  BY <1>1, <1>3, <1>6, <1>7, LinksGoOutKept

LEMMA NextOwes == Typed /\ LinksGoOut /\ [Next]_vars => LinksGoOut'
<1> SUFFICES ASSUME Typed, LinksGoOut, [Next]_vars PROVE LinksGoOut'
  OBVIOUS
<1>1. Grows
  BY NextTyped
<1>2. ASSUME NEW r \in Requests, Arrive(r) \/ Proceed(r) PROVE LinksGoOut'
  BY <1>1, <1>2, InsertUserOwes, FindNewUserOwes, UpsertLinkOwes, MailOwes, OthersOwe
     DEF Proceed
<1>3. CASE Crash \/ \E r \in Requests : Fail(r)
  BY <1>1, <1>3, FaultOwes
<1>4. CASE UNCHANGED <<users, links, req, lost, unsent>>
  BY <1>4 DEF LinksGoOut, Settled, LinkSent, CutShort, LinkDue, SharesEmail, UserIds
<1> QED
  BY <1>2, <1>3, <1>4 DEF Next, Serve, ExpireLink, ExpireAccess, vars

\* Faults included, no user that registered is forgotten: a link of it was sent
\* out, to Recipient, or some handler in flight owes it one, or a fault ended that
\* handler, or createEmailToken found another user with the same email; and that
\* lookup always finds somebody.
THEOREM NobodyIsForgotten == Spec => [](LinksGoOut /\ SignupsFindUsers)
<1>1. Init => LinksGoOut
  BY DEF Init, LinksGoOut, UserIds
<1>2. Typed => SignupsFindUsers
  BY DEF Typed, Refs, RequestRefs, SignupsFindUsers
<1> QED
  BY InitTyped, NextTyped, <1>1, <1>2, NextOwes, PTL DEF Spec

----------------------------------------------------------------------------
(* What is owed is settled within three steps of the same handler.         *)

StepsLeft(r) == CASE req[r].pc = "findUser" -> 3
                  [] req[r].pc = "upsert" -> 2
                  [] req[r].pc = "mail" -> 1
                  [] OTHER -> 0

\* A handler that owes u a link settles that, or comes closer, or has not moved.
ComesCloser(r, u) ==
    \/ Settled(u)'
    \/ LinkDue(r, u)' /\ (req'[r] = req[r] \/ StepsLeft(r)' < StepsLeft(r))

DebtorsAdvance ==
    \A r \in Requests, u \in UserIds : LinkDue(r, u) => ComesCloser(r, u)

LEMMA FoundUserComesCloser ==
    ASSUME Typed, NEW r \in Requests, NEW u \in UserIds, LinkDue(r, u), FindNewUser(r)
    PROVE  ComesCloser(r, u)
<1>1. PICK v \in UserIds :
          /\ users[v].email = req[r].email
          /\ Become(r, [Idle EXCEPT !.pc = "upsert", !.self = req[r].self, !.user = v])
  BY DEF FindNewUser
<1>2. /\ UNCHANGED users /\ req[r].pc = "findUser" /\ req[r].self = u
      /\ users[u].email = req[r].email
  BY DEF FindNewUser, LinkDue, Typed, Refs, RequestRefs
<1>3. req'[r].pc = "upsert" /\ req'[r].user = v /\ req'[r].self = u
  BY <1>1, <1>2 DEF Become, Idle, Typed, TypeOK
<1>4. CASE v = u
  BY <1>2, <1>3, <1>4 DEF ComesCloser, LinkDue, StepsLeft
<1>5. CASE v # u
  <2>1. users'[v].email = users'[u].email /\ v \in UserIds'
    BY <1>1, <1>2 DEF UserIds
  <2> QED
    BY <1>5, <2>1 DEF ComesCloser, Settled, SharesEmail
<1> QED
  BY <1>4, <1>5

LEMMA LinkMadeComesCloser ==
    ASSUME Typed, NEW r \in Requests, NEW u \in UserIds, LinkDue(r, u), UpsertLink(r)
    PROVE  ComesCloser(r, u)
<1>0. PICK t : t = Len(links) + 1
  OBVIOUS
<1>1. /\ links' = Append(links, [user |-> u, to |-> None, uses |-> 0])
      /\ Become(r, [Idle EXCEPT !.pc = "mail", !.link = t])
      /\ req[r].pc = "upsert"
  BY <1>0 DEF UpsertLink, LinkDue
<1>2. [user |-> u, to |-> None, uses |-> 0] \in Link
  BY LengthsAreNat DEF Link, UserIds, Typed
<1>3. links'[t].user = u
  BY <1>0, <1>1, <1>2, AppendProperties DEF Typed, TypeOK
<1>4. req'[r].pc = "mail" /\ req'[r].link = t
  BY <1>1 DEF Become, Idle, Typed, TypeOK
<1>5. LinkDue(r, u)'
  BY <1>3, <1>4 DEF LinkDue
<1>6. StepsLeft(r) = 2 /\ StepsLeft(r)' = 1
  BY <1>1, <1>4 DEF StepsLeft
<1> QED
  BY <1>5, <1>6 DEF ComesCloser

LEMMA OwnStepAdvances ==
    ASSUME Typed, Grows, NEW r \in Requests, NEW u \in UserIds, LinkDue(r, u),
           Arrive(r) \/ Proceed(r) \/ Fail(r)
    PROVE  ComesCloser(r, u)
<1>1. req[r].pc \in {"findUser", "upsert", "mail"}
  BY DEF LinkDue
<1>2. ~ Arrive(r)
  <2>1. req[r] # Idle
    BY <1>1 DEF Idle
  <2> QED
    BY <2>1 DEF Arrive, CheckEmail, Resend, FindLogin, FindAccount, FindLink
<1>3. ~ (CheckName(r) \/ InsertUser(r) \/ Verify(r) \/ Gate(r) \/ Activate(r))
  BY <1>1 DEF CheckName, InsertUser, Verify, Gate, Activate
<1>4. FindNewUser(r) \/ UpsertLink(r) \/ Mail(r) \/ Fail(r)
  BY <1>2, <1>3 DEF Proceed
<1>5. CASE Fail(r)
  <2>1. Settled(u)'
    BY <1>5, FailSettles DEF Fail
  <2> QED
    BY <2>1 DEF ComesCloser
<1>6. CASE Mail(r)
  BY <1>6, MailSettles DEF ComesCloser
<1> QED
  BY <1>4, <1>5, <1>6, FoundUserComesCloser, LinkMadeComesCloser

\* In every step of Spec each handler that owes a link stands still, comes closer
\* to sending it, or the debt is settled: no step of another handler takes a link
\* out of its hands, and of its own it needs three at most.  With
\* NobodyIsForgotten: only a handler that never moves again keeps a link back.
THEOREM DebtorsAlwaysAdvance == Spec => [][DebtorsAdvance]_vars
<1>1. Typed /\ [Next]_vars => [DebtorsAdvance]_vars
  <2> SUFFICES ASSUME Typed, Next, NEW r \in Requests, NEW u \in UserIds, LinkDue(r, u)
               PROVE  ComesCloser(r, u)
    BY DEF DebtorsAdvance
  <2>1. Grows
    BY NextTyped
  <2>2. CASE req'[r] = req[r]
    BY <2>1, <2>2, DueKept DEF ComesCloser
  <2>3. ASSUME NEW o \in Requests, Arrive(o) \/ Proceed(o) \/ Fail(o), o # r
        PROVE  req'[r] = req[r]
    BY <2>3 DEF Arrive, Proceed, CheckEmail, Resend, FindLogin, FindAccount, FindLink,
       CheckName, InsertUser, FindNewUser, UpsertLink, Mail, Verify, Gate, Activate, Fail,
       Answer, Become, Typed, TypeOK
  <2>4. CASE Arrive(r) \/ Proceed(r) \/ Fail(r)
    BY <2>1, <2>4, OwnStepAdvances
  <2>5. CASE Crash
    <3>1. Settled(u)'
      BY <2>5, FailSettles DEF Crash
    <3> QED
      BY <3>1 DEF ComesCloser
  <2>6. CASE UNCHANGED req
    BY <2>2, <2>6
  <2> QED
    BY <2>2, <2>3, <2>4, <2>5, <2>6 DEF Next, Serve, ExpireLink, ExpireAccess
<1> QED
  BY InitTyped, NextTyped, <1>1, PTL DEF Spec
=============================================================================
