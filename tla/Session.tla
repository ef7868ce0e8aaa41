------------------------------ MODULE Session ------------------------------
(***************************************************************************)
(* Refresh tokens: the end of verifyUser (login), refreshToken and          *)
(* deleteRefreshToken (logout) of auth.service.ts.                          *)
(*                                                                         *)
(* The table refresh_token has one row per user.  Login writes it with an  *)
(* upsert nobody awaits, so the answer and the row race; refresh and logout *)
(* load the row and later UPDATE or DELETE it by its id.                    *)
(***************************************************************************)
EXTENDS Naturals, Sequences, FiniteSets

CONSTANTS
    Users,      \* verified users: the gate of login is Account's subject
    Requests,   \* slots for HTTP requests in flight
    NoUser,     \* the user of an idle slot
    MaxTokens   \* bound: refresh tokens signed, less those of requests in flight

ASSUME NoUserAssumption == NoUser \notin Users
ASSUME MaxTokensAssumption == MaxTokens \in Nat

VARIABLES
    row,       \* table refresh_token: the row of each user, UNIQUE (user_id)
    issued,    \* refresh tokens ever signed, a token is its position here
    floating,  \* tokens whose login upsert has been sent but not answered
    held,      \* tokens that reached a client
    access,    \* users somebody holds an unexpired access token for
    req,       \* requests in flight
    (* history variable, read by properties only *)
    ended      \* ids of the rows that answered logouts had found

vars == <<row, issued, floating, held, access, req, ended>>

----------------------------------------------------------------------------
Tokens == 1..Len(issued)

Token == [user : Users, live : BOOLEAN]

\* AUTO_INCREMENT: a row's id is the token whose upsert inserted it, so no two
\* rows ever share one.  hash is the token whose bcrypt hash is stored.
Row == [id : Nat, hash : Nat]
NoRow == [id |-> 0, hash |-> 0]

Request == [pc : {"idle", "rotate", "delete", "answer"},
            user : Users \cup {NoUser},
            token : Nat,   \* the token presented, then the one to return
            id : Nat,      \* the row loaded
            hash : Nat]    \* its hash when it was loaded
Idle == [pc |-> "idle", user |-> NoUser, token |-> 0, id |-> 0, hash |-> 0]

Become(r, request) == req' = [req EXCEPT ![r] = request]

Present(u) == row[u] # NoRow

\* bcrypt.compare reads 72 bytes.  Those of a JWT end inside the payload, after
\* "sub" and before "iat": they are the same for all tokens of one user, replaced
\* ones included.
Matches(t, hash) == issued[t].user = issued[hash].user

Init ==
    /\ row = [u \in Users |-> NoRow]
    /\ issued = << >>
    /\ floating = {}
    /\ held = {}
    /\ access = {}
    /\ req = [r \in Requests |-> Idle]
    /\ ended = {}

----------------------------------------------------------------------------
(* POST auth/login, from the signing of the tokens on.                     *)

\* The upsert is sent; nothing waits for it.
Login(r, u) ==
    /\ req[r] = Idle
    /\ Len(issued) < MaxTokens
    /\ LET t == Len(issued) + 1
       IN  /\ issued' = Append(issued, [user |-> u, live |-> TRUE])
           /\ floating' = floating \cup {t}
           /\ Become(r, [Idle EXCEPT !.pc = "answer", !.user = u, !.token = t])
    /\ UNCHANGED <<row, held, access, ended>>

\* INSERT .. ON DUPLICATE KEY UPDATE: an existing row keeps its id.
StoreReplaces(t) ==   \* mutant: REPLACE, which deletes the row and inserts a new one
    LET u == issued[t].user
    IN  /\ t \in floating
        /\ floating' = floating \ {t}
        /\ row' = [row EXCEPT ![u] = [id |-> t, hash |-> t]]
        /\ UNCHANGED <<issued, held, access, req, ended>>
Store(t) ==
    LET u == issued[t].user
    IN  /\ t \in floating
        /\ floating' = floating \ {t}
        /\ row' = [row EXCEPT ![u] = [id |-> IF Present(u) THEN row[u].id ELSE t,
                                      hash |-> t]]
        /\ UNCHANGED <<issued, held, access, req, ended>>

----------------------------------------------------------------------------
(* POST auth/refresh-token.                                                *)

\* The JWT is valid, its user has a row, and the stored hash matches.
FindSession(r, t) ==
    /\ req[r] = Idle
    /\ t \in held /\ issued[t].live
    /\ Len(issued) < MaxTokens
    /\ LET u == issued[t].user
       IN  /\ Present(u) /\ Matches(t, row[u].hash)
           /\ Become(r, [pc |-> "rotate", user |-> u, token |-> t,
                         id |-> row[u].id, hash |-> row[u].hash])
    /\ UNCHANGED <<row, issued, floating, held, access, ended>>

\* UPDATE .. WHERE id: finds nothing if the row loaded has been deleted since.
RotateSignsTwice(r) ==   \* mutant: once for the row, once more for the answer
    /\ req[r].pc = "rotate"
    /\ LET u == req[r].user
           t == Len(issued) + 1
       IN  /\ issued' = Append(issued, [user |-> u, live |-> TRUE])
           /\ row' = IF row[u].id = req[r].id THEN [row EXCEPT ![u].hash = t] ELSE row
           /\ Become(r, [Idle EXCEPT !.pc = "answer", !.user = u, !.token = t + 1])
    /\ UNCHANGED <<floating, held, access, ended>>
RotateUpserts(r) ==   \* mutant: writes the loaded row back, deleted or not
    /\ req[r].pc = "rotate"
    /\ LET u == req[r].user
           t == Len(issued) + 1
       IN  /\ issued' = Append(issued, [user |-> u, live |-> TRUE])
           /\ row' = [row EXCEPT ![u] = [id |-> req[r].id, hash |-> t]]
           /\ Become(r, [Idle EXCEPT !.pc = "answer", !.user = u, !.token = t])
    /\ UNCHANGED <<floating, held, access, ended>>
Rotate(r) ==
    /\ req[r].pc = "rotate"
    /\ LET u == req[r].user
           t == Len(issued) + 1
       IN  /\ issued' = Append(issued, [user |-> u, live |-> TRUE])
           /\ row' = IF row[u].id = req[r].id THEN [row EXCEPT ![u].hash = t] ELSE row
           /\ Become(r, [Idle EXCEPT !.pc = "answer", !.user = u, !.token = t])
    /\ UNCHANGED <<floating, held, access, ended>>

\* Login and refresh return an access token and the refresh token.
Answer(r) ==
    /\ req[r].pc = "answer"
    /\ held' = held \cup {req[r].token}
    /\ access' = access \cup {req[r].user}
    /\ Become(r, Idle)
    /\ UNCHANGED <<row, issued, floating, ended>>

----------------------------------------------------------------------------
(* POST auth/logout, behind the access token guard.                        *)

FindOwn(r, u) ==
    /\ req[r] = Idle
    /\ u \in access
    /\ Present(u)
    /\ Become(r, [pc |-> "delete", user |-> u, token |-> 0,
                  id |-> row[u].id, hash |-> row[u].hash])
    /\ UNCHANGED <<row, issued, floating, held, access, ended>>

\* DELETE .. WHERE id.
DeleteByHash(r) ==   \* mutant: DELETE .. WHERE refresh_token = the loaded hash
    /\ req[r].pc = "delete"
    /\ LET u == req[r].user
       IN  row' = IF row[u].hash = req[r].hash THEN [row EXCEPT ![u] = NoRow] ELSE row
    /\ ended' = ended \cup {req[r].id}
    /\ Become(r, Idle)
    /\ UNCHANGED <<issued, floating, held, access>>
Delete(r) ==
    /\ req[r].pc = "delete"
    /\ LET u == req[r].user
       IN  row' = IF row[u].id = req[r].id THEN [row EXCEPT ![u] = NoRow] ELSE row
    /\ ended' = ended \cup {req[r].id}
    /\ Become(r, Idle)
    /\ UNCHANGED <<issued, floating, held, access>>

----------------------------------------------------------------------------
(* Time, and faults.                                                       *)

\* Thirty days for a refresh token, fifteen minutes for an access token.
ExpireToken(t) ==
    /\ issued[t].live
    /\ issued' = [issued EXCEPT ![t].live = FALSE]
    /\ UNCHANGED <<row, floating, held, access, req, ended>>

ExpireAccess(u) ==
    /\ access' = access \ {u}
    /\ UNCHANGED <<row, issued, floating, held, req, ended>>

\* A statement fails and the handler throws, or the answer never arrives.
Fail(r) ==
    /\ req[r] # Idle
    /\ Become(r, Idle)
    /\ UNCHANGED <<row, issued, floating, held, access, ended>>

\* The process dies: by itself, or because a floating upsert was rejected and
\* nobody handles the rejection.  What it had not committed is lost.
Crash ==
    /\ floating # {} \/ \E r \in Requests : req[r] # Idle
    /\ floating' = {}
    /\ req' = [r \in Requests |-> Idle]
    /\ UNCHANGED <<row, issued, held, access, ended>>

----------------------------------------------------------------------------
Serve ==
    \/ \E r \in Requests, u \in Users : Login(r, u) \/ FindOwn(r, u)
    \/ \E r \in Requests, t \in Tokens : FindSession(r, t)
    \/ \E r \in Requests : Rotate(r) \/ Answer(r) \/ Delete(r)
    \/ \E t \in Tokens : Store(t) \/ ExpireToken(t)
    \/ \E u \in access : ExpireAccess(u)

Next == Serve \/ Crash \/ \E r \in Requests : Fail(r)

Spec == Init /\ [][Next]_vars

\* The same without faults.
CalmSpec == Init /\ [][Serve]_vars

----------------------------------------------------------------------------
TypeOK ==
    /\ row \in [Users -> Row]
    /\ issued \in Seq(Token)
    /\ floating \subseteq Tokens
    /\ held \subseteq Tokens
    /\ access \subseteq Users
    /\ req \in [Requests -> Request]
    /\ ended \subseteq Nat

\* Only a login opens a session: a refresh that loaded its row before a logout
\* deleted it, and writes after, brings nothing back.
OnlyLoginsOpen ==
    [][\A u \in Users : ~ Present(u) /\ Present(u)' =>
           \E t \in floating \ floating' : issued[t].user = u /\ row'[u].hash = t]_vars

\* A row that an answered logout had found is gone for good, whatever refreshes
\* and logins did to it between the logout's read and its delete.
LoggedOutStaysOut == \A u \in Users : Present(u) => row[u].id \notin ended

----------------------------------------------------------------------------
\* The session of a user is its row, whatever hash it has: logins that find a
\* row, refreshes, expiry and faults are no steps of OpenSessions, and of two
\* logouts that found the same row one is.
Sessions == INSTANCE OpenSessions
    WITH Ids <- 1..MaxTokens, open <- [u \in Users |-> row[u].id], closed <- ended

ImplementsOpenSessions == Sessions!Spec

----------------------------------------------------------------------------
(* What a comment says and the code does not do.                           *)

\* auth.service.ts:278: "Check if refresh token is the current refresh token of
\* user"; :261: "remove the old refresh token and create a new one (or update)".
\* A refresh goes ahead only with the very token whose hash is stored, or with one
\* whose login's upsert has not arrived yet.  It is not so: Matches accepts every
\* unexpired token of the user, those the row has seen replaced included.
OnlyCurrentTokenRefreshes ==
    [][\A r \in Requests : req[r] = Idle /\ req'[r].pc = "rotate" =>
           req'[r].token = req'[r].hash \/ req'[r].token \in floating]_vars
============================================================================
