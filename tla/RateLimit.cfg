SPECIFICATION GateSpec
CONSTANTS
    c1 = c1
    c2 = c2
    p1 = p1
    p2 = p2
    Callers = {c1}
    Clients = {p1, p2}
    TokenClients = {p1}
    Limit = 2
    Window = 2
    EventLoop = TRUE
    MaxTime = 5
    Second = 2
    Lifetime = 2
    MaxRestarts = 1
INVARIANTS GateTypeOK NeverOverLimit ValidTokensAreBounded LifetimeIsKept
PROPERTY RefusalsAreEarned
