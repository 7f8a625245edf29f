\* Commands of every kind, sent at any time, with a crash.
SPECIFICATION Spec
CHECK_DEADLOCK FALSE
CONSTANTS
    Contract = {"Host"}
    Revisions = {r1, r2}
    Good = {r1}
    Unknown = Unknown
    Codes = {overload}
    None = None
    Commands <- ClientCommands
    Acceptances = {"yes"}
    CallLists <- ToolCalls
    Interactive = TRUE
    HasDeadline = FALSE
    MayBlind = FALSE
    MaxRetries = 0
    MaxRequests = 2
    MaxTurns = 2
    MaxCalls = 2
    MaxCopies = 1
    MaxCrashes = 1
    MaxResumes = 1
    MaxEdits = 0
INVARIANT LoopFitsReducer
INVARIANT StopWins
INVARIANT SteersFifo
