\* Up to three overlapping requests of two users about two items, faults included.
\* The bound on requests ends every behavior.
SPECIFICATION Spec
CONSTANTS
    Users = {u1, u2}
    Names = {n1, n2}
    Statuses = {PUBLISHED, SOLD}
    Requests = {r1, r2, r3}
    None = None
    MaxItems = 2
    MaxRequests = 5
SYMMETRY Symmetry
INVARIANTS TypeOK TogglesFlip RefusedOnlyInRaces StatusAsTold
PROPERTIES OwnersDecide ImplementsBoard
CHECK_DEADLOCK FALSE
