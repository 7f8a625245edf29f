CONSTANTS
    Runs = {r1, r2, r3}
    Pids = {p1}
    Commands = {c1, c2}
    Digests = {d1}
    Workspaces = {w1, w2}
    Attempts = {}
    EventIds = {}
    None = None
    MaxEpoch = 1
    MaxEvents = 2
SYMMETRY Symmetry
SPECIFICATION Spec
INVARIANTS IntentIffUncreated LineageClosed
CHECK_DEADLOCK FALSE
