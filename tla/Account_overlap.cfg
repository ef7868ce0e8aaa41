\* Two overlapping requests, two users, faults: signups, resends, logins.
SPECIFICATION Spec
CONSTANTS
    Emails = {e1, e2}
    Names = {n1, n2}
    Requests = {r1, r2}
    None = None
    Recipient = Recipient
    MaxUsers = 2
    MaxLinks = 1
SYMMETRY Symmetry
INVARIANTS TypeOK DuplicatesOnlyFromOverlap Gated UsedLinksAreDead LinksGoOut
PROPERTIES TokensAreEarned
