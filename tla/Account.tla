------------------------------ MODULE Account ------------------------------
(***************************************************************************)
(* Registration, email verification, the login gate and activation:        *)
(* auth.service.ts and the user.service.ts calls it makes.                  *)
(*                                                                         *)
(* A request is a record with a program counter and the values its handler *)
(* has already read.  Every awaited statement is one action, so other      *)
(* requests interleave exactly where the handler awaits; what a handler    *)
(* does between two awaits (hashing and signing included: they touch no    *)
(* shared state) belongs to the action before it.  A check that rejects    *)
(* the request on its first read changes nothing and is no action.         *)
(***************************************************************************)
EXTENDS Naturals, Sequences, FiniteSets

CONSTANTS
    Emails,     \* addresses of the registered university domains
    Names,      \* usernames
    Requests,   \* slots for HTTP requests in flight
    None,       \* an absent email or username
    Recipient,  \* the address every verification mail is sent to
    MaxUsers,   \* bound: users ever registered
    MaxLinks    \* bound: resends start only below this number of links

ASSUME NoneAssumption == None \notin Emails \cup Names \cup {Recipient}
ASSUME BoundAssumption == MaxUsers \in Nat /\ MaxLinks \in Nat

VARIABLES
    users,    \* table user: row u is users[u], ids count from 1
    ev,       \* table email_verification: the row of user u, UNIQUE (user_id, type)
    links,    \* every token generated: whose it is, the address it was sent to, times
              \* it verified
    holders,  \* users somebody holds an unexpired access token for
    req,      \* requests in flight
    (* history variables, read by properties only *)
    seen,     \* users present when the signup of user u made its two checks
    lost,     \* users whose signup was cut off before it stored a token
    unsent    \* links whose handler was cut off before it sent them

vars == <<users, ev, links, holders, req, seen, lost, unsent>>

----------------------------------------------------------------------------
Status == {"UNVERIFIED", "VERIFIED", "ACTIVE"}

UserRow == [email : Emails, name : Names, status : Status]

\* id is the row's identity: an upsert keeps it, a new insert draws a new one.
EvRow == [id : Nat, token : Nat, fresh : BOOLEAN]
NoRow == [id |-> 0, token |-> 0, fresh |-> FALSE]

Link == [user : Nat, to : Emails \cup {None, Recipient}, uses : Nat]

SignupPc == {"checkName", "insert", "findUser"}
Pc == SignupPc \cup {"idle", "upsert", "mail", "verify", "gate", "activate"}

Request == [pc : Pc, email : Emails \cup {None}, name : Names \cup {None},
            emailSeen : Nat, nameSeen : Nat,
            self : Nat,    \* the user this signup inserted
            user : Nat,    \* the user row loaded
            row : Nat,     \* the id of the email_verification row loaded
            link : Nat]    \* the token given or generated

Idle == [pc |-> "idle", email |-> None, name |-> None, emailSeen |-> 0,
         nameSeen |-> 0, self |-> 0, user |-> 0, row |-> 0, link |-> 0]

UserIds == 1..Len(users)

\* getUserByEmail, getUserByUsername: is there any row?
EmailTakenByVerified(e) ==
    \E u \in UserIds : users[u].email = e /\ users[u].status # "UNVERIFIED"
EmailTaken(e) == \E u \in UserIds : users[u].email = e

NameTaken(n) == \E u \in UserIds : users[u].name = n

Become(r, request) == req' = [req EXCEPT ![r] = request]
Answer(r) == Become(r, Idle)

Init ==
    /\ users = << >>
    /\ ev = << >>
    /\ links = << >>
    /\ holders = {}
    /\ req = [r \in Requests |-> Idle]
    /\ seen = << >>
    /\ lost = {}
    /\ unsent = {}

----------------------------------------------------------------------------
(* POST auth/signup: registerUser, then sendVerificationEmail.             *)

\* Signups that may still insert a user; keeps users within MaxUsers.
Inserting == {r \in Requests : req[r].pc \in {"checkName", "insert"}}

CheckEmail(r, e, n) ==
    /\ req[r] = Idle
    /\ Len(users) + Cardinality(Inserting) < MaxUsers
    /\ ~ EmailTaken(e)
    /\ Become(r, [Idle EXCEPT !.pc = "checkName", !.email = e, !.name = n,
                              !.emailSeen = Len(users)])
    /\ UNCHANGED <<users, ev, links, holders, seen, lost, unsent>>

CheckName(r) ==
    /\ req[r].pc = "checkName"
    /\ \/ NameTaken(req[r].name) /\ Answer(r)
       \/ ~ NameTaken(req[r].name)
          /\ Become(r, [req[r] EXCEPT !.pc = "insert", !.nameSeen = Len(users)])
    /\ UNCHANGED <<users, ev, links, holders, seen, lost, unsent>>

\* createUser: nothing in the schema makes email or username unique.
InsertUnflushed(r) ==   \* mutant: nothing is flushed
    /\ req[r].pc = "insert"
    /\ Become(r, [req[r] EXCEPT !.pc = "findUser", !.self = Len(users) + 1])
    /\ UNCHANGED <<users, ev, links, holders, seen, lost, unsent>>
InsertUser(r) ==
    /\ req[r].pc = "insert"
    /\ users' = Append(users, [email |-> req[r].email, name |-> req[r].name,
                               status |-> "UNVERIFIED"])
    /\ ev' = Append(ev, NoRow)
    /\ seen' = Append(seen, [email |-> req[r].emailSeen, name |-> req[r].nameSeen])
    /\ Become(r, [req[r] EXCEPT !.pc = "findUser", !.self = Len(users) + 1])
    /\ UNCHANGED <<links, holders, lost, unsent>>

\* createEmailToken looks the user up again, by email: any row that has it.
FindNewUserMailsNobody(r) ==   \* mutant: the signup ends here
    /\ req[r].pc = "findUser"
    /\ Answer(r)
    /\ UNCHANGED <<users, ev, links, holders, seen, lost, unsent>>
FindNewUser(r) ==
    /\ req[r].pc = "findUser"
    /\ \E v \in UserIds :
          /\ users[v].email = req[r].email
          /\ Become(r, [Idle EXCEPT !.pc = "upsert", !.self = req[r].self, !.user = v])
    /\ UNCHANGED <<users, ev, links, holders, seen, lost, unsent>>

\* POST auth/email/resend-verification is public: anyone names a registered email.
Resend(r, v) ==
    /\ req[r] = Idle
    /\ Len(links) < MaxLinks
    /\ Become(r, [Idle EXCEPT !.pc = "upsert", !.user = v])
    /\ UNCHANGED <<users, ev, links, holders, seen, lost, unsent>>

\* INSERT .. ON DUPLICATE KEY UPDATE: an existing row keeps its id.
UpsertLinkMailsNobody(r) ==   \* mutant: a stored link is not taken for a reason to mail
    /\ req[r].pc = "upsert"
    /\ LET u == req[r].user
           t == Len(links) + 1
       IN  /\ links' = Append(links, [user |-> u, to |-> None, uses |-> 0])
           /\ ev' = [ev EXCEPT ![u] = [id |-> IF ev[u].id = 0 THEN t ELSE ev[u].id,
                                       token |-> t, fresh |-> TRUE]]
    /\ Answer(r)
    /\ UNCHANGED <<users, holders, seen, lost, unsent>>
UpsertLink(r) ==
    /\ req[r].pc = "upsert"
    /\ LET u == req[r].user
           t == Len(links) + 1
       IN  /\ links' = Append(links, [user |-> u, to |-> None, uses |-> 0])
           /\ ev' = [ev EXCEPT ![u] = [id |-> IF ev[u].id = 0 THEN t ELSE ev[u].id,
                                       token |-> t, fresh |-> TRUE]]
           /\ Become(r, [Idle EXCEPT !.pc = "mail", !.link = t])
    /\ UNCHANGED <<users, holders, seen, lost, unsent>>

\* The mail names the user, but it goes to one fixed address, not to the user's.
Mail(r) ==
    /\ req[r].pc = "mail"
    /\ links' = [links EXCEPT ![req[r].link].to = Recipient]
    /\ Answer(r)
    /\ UNCHANGED <<users, ev, holders, seen, lost, unsent>>

----------------------------------------------------------------------------
(* GET auth/email/verify.                                                  *)

\* Whoever reads the mail presents its link.  The row that holds the token is
\* found, if it has not expired when it is read.
FindLink(r, t) ==
    /\ req[r] = Idle
    /\ links[t].to # None
    /\ \E u \in UserIds :
          /\ ev[u].token = t /\ ev[u].fresh
          /\ Become(r, [Idle EXCEPT !.pc = "verify", !.user = u,
                                    !.row = ev[u].id, !.link = t])
    /\ UNCHANGED <<users, ev, links, holders, seen, lost, unsent>>

\* One transaction: UPDATE user, DELETE email_verification WHERE id.
VerifyKeepsRow(r) ==   \* mutant: the used row stays
    /\ req[r].pc = "verify"
    /\ users' = [users EXCEPT ![req[r].user].status = "VERIFIED"]
    /\ links' = [links EXCEPT ![req[r].link].uses = @ + 1]
    /\ Answer(r)
    /\ UNCHANGED <<ev, holders, seen, lost, unsent>>
Verify(r) ==
    /\ req[r].pc = "verify"
    /\ LET u == req[r].user
       IN  /\ users' = [users EXCEPT ![u].status = "VERIFIED"]
           /\ ev' = IF ev[u].id = req[r].row THEN [ev EXCEPT ![u] = NoRow] ELSE ev
    /\ links' = [links EXCEPT ![req[r].link].uses = @ + 1]
    /\ Answer(r)
    /\ UNCHANGED <<holders, seen, lost, unsent>>

\* The hour passes.
ExpireLink(u) ==
    /\ ev[u].fresh
    /\ ev' = [ev EXCEPT ![u].fresh = FALSE]
    /\ UNCHANGED <<users, links, holders, req, seen, lost, unsent>>

----------------------------------------------------------------------------
(* POST auth/login up to the gate, and PUT me/account/activate.            *)

\* A row whose email or username is the one given and whose password matches.
FindLogin(r, v) ==
    /\ req[r] = Idle
    /\ Become(r, [Idle EXCEPT !.pc = "gate", !.user = v])
    /\ UNCHANGED <<users, ev, links, holders, seen, lost, unsent>>

\* The gate is the presence of an email_verification row, expired or not.
GateIgnoresExpired(r) ==   \* mutant: an expired row lets the user in
    /\ req[r].pc = "gate"
    /\ Answer(r)
    /\ holders' = IF ev[req[r].user].fresh THEN holders ELSE holders \cup {req[r].user}
    /\ UNCHANGED <<users, ev, links, seen, lost, unsent>>
Gate(r) ==
    /\ req[r].pc = "gate"
    /\ Answer(r)
    /\ \/ ev[req[r].user].id # 0 /\ UNCHANGED holders
       \/ ev[req[r].user].id = 0 /\ holders' = holders \cup {req[r].user}
    /\ UNCHANGED <<users, ev, links, seen, lost, unsent>>

ExpireAccess(u) ==
    /\ holders' = holders \ {u}
    /\ UNCHANGED <<users, ev, links, req, seen, lost, unsent>>

\* JwtAuthGuard: the request brings an unexpired access token of v.
Authenticated(v) == v \in holders

\* activateAccount writes only if the status it loaded was not ACTIVE yet.
FindAccount(r, v) ==
    /\ req[r] = Idle
    /\ Authenticated(v)
    /\ users[v].status # "ACTIVE"
    /\ Become(r, [Idle EXCEPT !.pc = "activate", !.user = v])
    /\ UNCHANGED <<users, ev, links, holders, seen, lost, unsent>>

Activate(r) ==
    /\ req[r].pc = "activate"
    /\ users' = [users EXCEPT ![req[r].user].status = "ACTIVE"]
    /\ Answer(r)
    /\ UNCHANGED <<ev, links, holders, seen, lost, unsent>>

----------------------------------------------------------------------------
(* Faults: an awaited statement fails and the handler throws; the process  *)
(* dies with every request in flight.  The database keeps what committed.  *)

CutOff(r) == IF req[r].pc \in {"findUser", "upsert"} /\ req[r].self # 0
             THEN {req[r].self} ELSE {}
Unmailed(r) == IF req[r].pc = "mail" THEN {req[r].link} ELSE {}

Fail(r) ==
    /\ req[r] # Idle
    /\ lost' = lost \cup CutOff(r)
    /\ unsent' = unsent \cup Unmailed(r)
    /\ Answer(r)
    /\ UNCHANGED <<users, ev, links, holders, seen>>

Crash ==
    /\ \E r \in Requests : req[r] # Idle
    /\ lost' = lost \cup UNION {CutOff(r) : r \in Requests}
    /\ unsent' = unsent \cup UNION {Unmailed(r) : r \in Requests}
    /\ req' = [r \in Requests |-> Idle]
    /\ UNCHANGED <<users, ev, links, holders, seen>>

----------------------------------------------------------------------------
\* A client sends a request, and its first read answers.
Arrive(r) ==
    \/ \E e \in Emails, n \in Names : CheckEmail(r, e, n)
    \/ \E v \in UserIds : Resend(r, v) \/ FindLogin(r, v) \/ FindAccount(r, v)
    \/ \E t \in 1..Len(links) : FindLink(r, t)

\* The handler of a request in flight takes its next step.
Proceed(r) ==
    \/ CheckName(r) \/ InsertUser(r) \/ FindNewUser(r)
    \/ UpsertLink(r) \/ Mail(r) \/ Verify(r) \/ Gate(r) \/ Activate(r)

Serve ==
    \/ \E r \in Requests : Arrive(r) \/ Proceed(r)
    \/ \E u \in UserIds : ExpireLink(u)
    \/ \E u \in holders : ExpireAccess(u)

Next == Serve \/ Crash \/ \E r \in Requests : Fail(r)

Spec == Init /\ [][Next]_vars

----------------------------------------------------------------------------
\* The rows, links and requests have their types, the tables line up, and no
\* request refers to a row that does not exist.
TypeOK ==
    /\ users \in Seq(UserRow)
    /\ ev \in Seq(EvRow) /\ Len(ev) = Len(users)
    /\ links \in Seq(Link)
    /\ holders \subseteq UserIds
    /\ req \in [Requests -> Request]
    /\ seen \in Seq([email : Nat, name : Nat]) /\ Len(seen) = Len(users)
    /\ lost \subseteq UserIds
    /\ unsent \subseteq Nat

SharesEmail(u) == \E v \in UserIds : v # u /\ users[v].email = users[u].email

MidSignup(u) == \E r \in Requests :
    req[r].pc \in {"findUser", "upsert"} /\ req[r].self = u

Earned(u) == \E t \in 1..Len(links) : links[t].user = u /\ links[t].uses > 0

\* registerUser checks, then inserts, with awaits in between.  Two users have
\* the same email (username) only if the later one checked before the earlier
\* one was inserted: every check sees all the users committed by then.
DuplicatesOnlyFromOverlap ==
    \A u, v \in UserIds : u < v =>
        /\ users[u].email = users[v].email => seen[v].email < u
        /\ users[u].name = users[v].name => seen[v].name < u

\* The gate of verifyUser is an email_verification row.  A user without one has
\* used a link of its own, is still signing up, had its signup cut off by a
\* fault, or shares its email with another user (whose row got the token).
Gated ==
    \A u \in UserIds :
        \/ ev[u].id # 0 \/ Earned(u)
        \/ MidSignup(u) \/ u \in lost \/ SharesEmail(u)

\* Nobody gets an access token for a user before a link of that user was used, or
\* the user is one of the exceptions of Gated.  (The link shows nothing about the
\* user's address: Mail sends it to Recipient.)
TokensAreEarned ==
    [][\A u \in holders' \ holders :
           Earned(u) \/ MidSignup(u) \/ u \in lost \/ SharesEmail(u)]_vars

\* verifyEmail updates the user and deletes the row in one transaction: a link
\* that verified once has verified its user and no row holds it any more, so a
\* request that starts later with the same link is refused.
UsedLinksAreDead ==
    \A t \in 1..Len(links) : links[t].uses > 0 =>
        /\ users[links[t].user].status # "UNVERIFIED"
        /\ \A u \in UserIds : ev[u].token # t

\* A handler in flight that owes user u a link: that of its signup until it has
\* stored one, then any that has a link of u to send.
LinkDue(r, u) ==
    \/ req[r].pc = "findUser" /\ req[r].self = u
    \/ req[r].pc = "upsert" /\ req[r].self = u /\ req[r].user = u
    \/ req[r].pc = "mail" /\ links[req[r].link].user = u

LinkSent(u) == \E t \in 1..Len(links) : links[t].user = u /\ links[t].to = Recipient

\* A fault ended a handler that owed u a link.
CutShort(u) ==
    \/ u \in lost
    \/ \E t \in 1..Len(links) : links[t].user = u /\ t \in unsent

Settled(u) == LinkSent(u) \/ CutShort(u) \/ SharesEmail(u)

\* createEmailToken looks the new user up by its email, several awaits after the
\* insert.  No registered user is forgotten: some handler in flight owes it a
\* link, or a link of it was sent out, or a fault cut such a handler short, or the
\* user shares its email with another, whom the lookup may have found instead.
\* Sent out means sent to Recipient, whoever the user is: nothing in the code
\* provides for the link to reach the user.
LinksGoOut == \A u \in UserIds : Settled(u) \/ \E r \in Requests : LinkDue(r, u)

============================================================================
