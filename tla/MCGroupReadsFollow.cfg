SPECIFICATION Spec
CONSTANTS
    e1 = e1  e2 = e2  e3 = e3
    None = None
    Events <- MCEvents
    Files = {a}
    Limits = {1}
    Filters <- MCFilters
    MaxActionEvents = 2
    MaxEvents = 3
    MaxExported = 0
    MaxChanges = 0
INVARIANTS MoreMeansRows
CHECK_DEADLOCK FALSE
