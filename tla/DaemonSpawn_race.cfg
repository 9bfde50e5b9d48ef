CONSTANTS
    c1 = c1
    c2 = c2
    c3 = c3
    e1 = e1
    e2 = e2
    e3 = e3
    Clients = {c1, c2, c3}
    Daemons = {e1, e2, e3}
    None = None
    MayCrash = FALSE
    MayCutPoll = FALSE
SPECIFICATION Spec
SYMMETRY Symmetry
INVARIANT EnsureDaemonSucceeds
CHECK_DEADLOCK FALSE
