\* Pages of two items; up to five items appear and change while they are turned.
SPECIFICATION LiveSpec
CONSTANTS
    Limit = 2
    MaxItems = 5
INVARIANTS TypeOK NothingTwice MissedOnlyAsCursor
PROPERTIES PagingEnds PagesDescend
