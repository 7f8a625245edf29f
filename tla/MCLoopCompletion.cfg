\* A verifier and a host acceptance, edits by others, failing requests and two crashes.
SPECIFICATION Spec
CHECK_DEADLOCK FALSE
CONSTANTS
    Contract = {"Host", "Verifier"}
    Revisions = {r1, r2}
    Good = {r1}
    Unknown = Unknown
    Codes = {overload, reset}
    None = None
    Commands <- NoCommands
    Acceptances = {"yes", "again"}
    CallLists <- WriteCalls
    Interactive = TRUE
    HasDeadline = FALSE
    MayBlind = TRUE
    MaxRetries = 1
    MaxRequests = 3
    MaxTurns = 3
    MaxCalls = 1
    MaxCopies = 1
    MaxCrashes = 2
    MaxResumes = 4
    MaxEdits = 2
INVARIANT TypeOK
INVARIANT AtMostOnce
INVARIANT CompletedIsProven
INVARIANT AcceptanceSticks
INVARIANT BudgetKept
