\* Crashes at any step, or others interfere with the branch, the worktree and HEAD.lock.
CONSTANTS
    Writers = {w1}
    None = None
    UserActs = {"lock", "unlock", "checkout", "drift", "delete", "pin"}
    MaxActs = 1
    MayStop = {}
    Ends = {"completed", "failed", "lost"}
    MaxCrashes = 3
SPECIFICATION FairSpec
INVARIANT NothingRefused
PROPERTY Settles
CHECK_DEADLOCK FALSE
