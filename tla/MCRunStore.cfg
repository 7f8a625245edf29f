CONSTANTS
    Runs = {r1}
    Pids = {p1, p2}
    Commands = {}
    Digests = {}
    Workspaces = {w1}
    Attempts = {a1, a2}
    EventIds = {e1, e2, e3, e4}
    None = None
    MaxEpoch = 3
    MaxEvents = 5
SYMMETRY Symmetry
SPECIFICATION Spec
INVARIANTS SnapshotIsReplay TermsNeverOverlap
PROPERTIES LeaseNotStolen ImplementsLedger
CHECK_DEADLOCK FALSE
