\* Sending and reading without faults; the bounds end every run.
SPECIFICATION LiveSpec
CONSTANTS
    Users = {u1, u2}
    Requests = {r1, r2}
    NoUser = NoUser
    MaxConversations = 1
    MaxMessages = 2
    MaxReads = 1
INVARIANTS PointerInConversation
PROPERTIES SavedIsEmitted
CHECK_DEADLOCK FALSE
