SPECIFICATION Spec
CONSTANTS
    i1 = i1
    i2 = i2
    Instances = {i1, i2}
    MaxReleases = 1
    MaxFaults = 2
INVARIANT OriginsAreExplicit
CHECK_DEADLOCK FALSE
