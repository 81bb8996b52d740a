\* SQLite and one process: two pool threads of the server, a job that restarts.
SPECIFICATION FairSpec
CONSTANTS
    Jobs = {report}
    Pool = {t1, t2}
    Main = main
    Clis = {}
    Server = server
    Slots = {}
    Composites = {}
    Steps = {}
    ResumeJobs = {}
    MaxAttempts = 2
    AtomicStart = FALSE
    MaxTriggers = 2
    MaxCrashes = 0
    MaxFaults = 0
INVARIANT AtMostOneRunning
PROPERTIES
    JobsFree
    CallsReturn
