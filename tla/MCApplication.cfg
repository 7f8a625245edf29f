\* Two clients of one run that awaits its host, and an aborted request or a restart.
CONSTANTS
    Runs = {r1}
    HostRuns = {r1}
    Callers = {c1, c2}
    None = None
    Outcomes = {"Completed"}
    Commands = {"start", "recover", "resume", "steer", "accept"}
    MaxSent = 3
    MaxFailed = 1
    MaxFaults = 1
SPECIFICATION AppFairSpec
INVARIANT OneWorker
INVARIANT NoOrphan
INVARIANT RefusedStaysOut
PROPERTY AcceptedJudged
CHECK_DEADLOCK FALSE
