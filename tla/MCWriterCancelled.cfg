\* A cancel reaches a root run whose writer has completed.
CONSTANTS
    Writers = {w1}
    None = None
    UserActs = {}
    MaxActs = 0
    MayStop = {"cancelled"}
    Ends = {"completed"}
    MaxCrashes = 0
SPECIFICATION FairSpec
PROPERTY Settles
CHECK_DEADLOCK FALSE
