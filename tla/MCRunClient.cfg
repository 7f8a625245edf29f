\* The terminal UI and two runs, one of which waits for its host.
CONSTANTS
    Runs = {r1, r2}
    HostRuns = {r1}
    Callers = {r1, r2, ui}
    None = None
    Outcomes = {"Completed"}
    Commands = {}
    MaxSent = 2
    MaxFailed = 1
    MaxFaults = 1
    Ui = ui
    UiOps = {"submit", "steer", "cancel", "accept", "new", "open"}
    Patient = TRUE
    Capacity = 1
SPECIFICATION FairSpec
INVARIANT GapFree
 
PROPERTY TerminalReleases
PROPERTY Served
CHECK_DEADLOCK FALSE
