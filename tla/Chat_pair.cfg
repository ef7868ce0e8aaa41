\* Two users, two messages, two handlers at a time, faults; the bounds end every run.
SPECIFICATION Spec
CONSTANTS
    Users = {u1, u2}
    Requests = {r1, r2}
    NoUser = NoUser
    MaxConversations = 2
    MaxMessages = 2
    MaxReads = 0
SYMMETRY Symmetry
INVARIANTS TypeOK DuplicatesOnlyFromOverlap RoutedToPair ByIdReachesBoth
PROPERTIES ImplementsPairLog
CHECK_DEADLOCK FALSE
