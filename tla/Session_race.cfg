\* Two overlapping requests, faults, floating upserts: logins, refreshes and logouts.
\* The bound on tokens ends every run: no request is left that it admits.
SPECIFICATION Spec
CONSTANTS
    Users = {u1, u2}
    Requests = {r1, r2}
    NoUser = NoUser
    MaxTokens = 3
SYMMETRY Symmetry
INVARIANTS TypeOK LoggedOutStaysOut
PROPERTIES OnlyLoginsOpen ImplementsOpenSessions
CHECK_DEADLOCK FALSE
