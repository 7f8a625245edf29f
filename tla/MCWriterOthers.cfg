\* One writer; the user and other processes interfere twice, and a crash.
CONSTANTS
    Writers = {w1}
    None = None
    UserActs = {"edit", "overlap", "undo", "commit", "switch", "lock", "unlock", "checkout", "drift", "delete", "pin"}
    MaxActs = 2
    MayStop = {"cancelled", "timeout"}
    Ends = {"completed", "failed", "lost"}
    MaxCrashes = 1
SPECIFICATION Spec
INVARIANT HeadStill
INVARIANT CleanReport
INVARIANT ForeignKept
PROPERTY ImplementsPromise
PROPERTY WriteAhead
PROPERTY UserFilesKept
CHECK_DEADLOCK FALSE
