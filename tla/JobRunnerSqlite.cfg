\* SQLite: the start lock that is never taken.
SPECIFICATION Spec
CONSTANTS
    Jobs = {pipeline}
    Pool = {t1, t2}
    Main = main
    Clis = {cli}
    Server = server
    Slots = {}
    Composites = {}
    Steps = {}
    ResumeJobs = {pipeline}
    MaxAttempts = 2
    AtomicStart = FALSE
    MaxTriggers = 2
    MaxCrashes = 0
    MaxFaults = 0
INVARIANT AtMostOneRunning
