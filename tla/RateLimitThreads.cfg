SPECIFICATION GateSpec
CONSTANTS
    c1 = c1
    c2 = c2
    p1 = p1
    p2 = p2
    Callers = {c1, c2}
    Clients = {p1}
    TokenClients = {p1}
    Limit = 2
    Window = 2
    EventLoop = FALSE
    MaxTime = 5
    Second = 2
    Lifetime = 2
    MaxRestarts = 0
PROPERTY RefusalsAreEarned
