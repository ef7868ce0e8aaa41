\* Pages of one item, nobody else has to do anything.
SPECIFICATION Spec
CONSTANTS
    Limit = 1
    MaxItems = 3
INVARIANTS EndMeansNoMore
