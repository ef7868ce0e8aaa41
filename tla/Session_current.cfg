\* One user, one request at a time, no faults: a refresh token is used again after it was replaced.
SPECIFICATION CalmSpec
CONSTANTS
    Users = {u1}
    Requests = {r1}
    NoUser = NoUser
    MaxTokens = 3
PROPERTIES OnlyCurrentTokenRefreshes
CHECK_DEADLOCK FALSE
