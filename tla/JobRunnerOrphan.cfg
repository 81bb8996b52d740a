\* A server killed at work, and again while it starts.
SPECIFICATION Spec
CONSTANTS
    Jobs = {pipeline}
    Pool = {t1}
    Main = main
    Clis = {}
    Server = server
    Slots = {}
    Composites = {}
    Steps = {}
    ResumeJobs = {pipeline}
    MaxAttempts = 2
    AtomicStart = TRUE
    MaxTriggers = 1
    MaxCrashes = 2
    MaxFaults = 0
INVARIANT EveryOrphanRunAgain
