SPECIFICATION Spec
CONSTANTS
    d1 = d1
    d2 = d2
    c1 = c1
    None = None
    Dead = Dead
    Daemons = {d1, d2}
    Clients = {c1}
    MaxMishaps = 1
INVARIANTS
    LoneDaemonServes
PROPERTIES
    OrphanLeaves
    IdleLeaves
CHECK_DEADLOCK FALSE
