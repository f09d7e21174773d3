SPECIFICATION Spec
CONSTANTS
    a1 = a1
    a2 = a2
    a3 = a3
    o1 = o1
    o2 = o2
    All = All
    Agents = {a1, a2, a3}
    Taken = {"ACTIVE", "SUSPENDED"}
    Owner <- Owners
    Times = {1, 2, 3}
    Limits = {1, 2}
    Filters <- SomeFilters
CHECK_DEADLOCK FALSE
SYMMETRY Symmetric
INVARIANTS TypeOK MissedOnlyIfMovedUp
PROPERTY RepeatedOnlyIfMovedDown
