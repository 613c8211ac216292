SPECIFICATION Spec
CONSTANTS
    Diagnoses = {d1, d2, d3}
    Listeners = {l1, l2}
    MaxReferences = 4
    MaxVersion = 3
    Loaders = {l1, l2}
    MaxSaves = 2
    Reports = {r1, r2}
    MaxResets = 1
    MaxStops = 1
    Thresholds = {1, 2}
    Browsers = {b1, b2}
    Nodes = {n1, n2}
    Tickets = {t1, t2}
    None = None
    Partial = Partial
INVARIANTS
    ProbesHeld
    UpdateSafe
    ClaimIsOneNotice
PROPERTIES
    AgentRecovers
    SettlesOnStored
    ToldInTheEnd
    NodesReadOn
CHECK_DEADLOCK FALSE
