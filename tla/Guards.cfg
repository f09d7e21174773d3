SPECIFICATION Spec
CONSTANTS
    r1 = r1
    r2 = r2
    r3 = r3
    a1 = a1
    k1 = k1
    k2 = k2
    k3 = k3
    k4 = k4
    NoAgent = NoAgent
    NoRequest = NoRequest
    Requests = {r1, r2, r3}
    SeedAgents = {a1}
    Keys = {k1, k2, k3, k4}
    SeedOwner <- OneSeed
    Workload <- BlockingWorkload
    CommitBeforeReply = FALSE
    SerialPatches = FALSE
    MaxFaults = 0
INVARIANTS NobodyIsStuck GuardsAreKnown
