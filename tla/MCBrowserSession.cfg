\* Two runs share the harness: three operations, two Chromes, one fault.
CONSTANTS
    a = a
    b = b
    Callers = {a, b}
    Pages = {p, q}
    Contents = {x, y}
    Kinds <- OneAndAnother
    None = None
    Other = Other
    MaxPages = 2
    MaxDownloads = 1
    MaxBrowsers = 2
    MaxOps = 3
    MaxChanges = 1
    MaxPosts = 2
    MaxFaults = 1
SPECIFICATION FairSpec
INVARIANT BrowserTypeOK
INVARIANT ActsOnObserved
INVARIANT GrantScoped
 
INVARIANT NoLeak
PROPERTY DeadlineHolds
CHECK_DEADLOCK FALSE
