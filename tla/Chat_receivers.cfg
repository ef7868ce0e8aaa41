\* One handler: the first message of a pair.
SPECIFICATION LiveSpec
CONSTANTS
    Users = {u1, u2}
    Requests = {r1}
    NoUser = NoUser
    MaxConversations = 1
    MaxMessages = 1
    MaxReads = 1
INVARIANTS MessageReachesReceivers
