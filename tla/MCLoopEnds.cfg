\* An approval and a stop, each sent twice, a deadline and a crash.
SPECIFICATION FairSpec
CHECK_DEADLOCK FALSE
CONSTANTS
    Contract = {"Verifier"}
    Revisions = {r1, r2}
    Good = {r1}
    Unknown = Unknown
    Codes = {overload}
    None = None
    Commands <- StopCommands
    Acceptances = {}
    CallLists <- ToolCalls
    Interactive = TRUE
    HasDeadline = TRUE
    MayBlind = FALSE
    MaxRetries = 1
    MaxRequests = 3
    MaxTurns = 2
    MaxCalls = 2
    MaxCopies = 2
    MaxCrashes = 1
    MaxResumes = 1
    MaxEdits = 0
PROPERTY EndsWhenTold
PROPERTY LoopEnds
PROPERTY NoUnapprovedRun
