SPECIFICATION Spec
CONSTANTS
    Requests = {r1, r2}
    Objects = {o1, o2, o3}
    MaxFailures = 2
    Window = 1
    Lockout = 3
    Lag = 1
    MaxTime = 5
    Routes = {r1, r2}
    Conns = {o1, o2, o3}
    MaxChunks = 3
    Connectors = {c1, c2}
    Tunnels = {t1, t2}
    None = None
INVARIANTS
    LoginLimited
    NoOrphan
    InOrder
    Reachable
PROPERTIES
    LockKept
    Settles
CHECK_DEADLOCK FALSE
