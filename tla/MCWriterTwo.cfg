\* Two root runs with a writer each share the repository with the user.
CONSTANTS
    Writers = {w1, w2}
    None = None
    UserActs = {"edit", "overlap", "undo", "commit", "switch"}
    MaxActs = 1
    MayStop = {}
    Ends = {"completed", "failed"}
    MaxCrashes = 0
SPECIFICATION Spec
SYMMETRY Symmetry
INVARIANT LagExplained
CHECK_DEADLOCK FALSE
