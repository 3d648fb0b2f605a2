\* Both kinds of centuries: 1900 has no leap day, 2000 has one.
SPECIFICATION WalkSpec
CONSTANTS
    First = {1899, 1903, 1999}
    Span = 2
\* A walk may end.
CHECK_DEADLOCK FALSE
INVARIANTS
    StepsAreDays
PROPERTIES
    OrderIsChronological
