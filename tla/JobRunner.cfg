\* One resumable job, a pool thread, a command-line process, a lost ledger write.
SPECIFICATION Spec
CONSTANTS
    Jobs = {pipeline}
    Pool = {t1}
    Main = main
    Clis = {cli}
    Server = server
    Slots = {}
    Composites = {}
    Steps = {}
    ResumeJobs = {pipeline}
    MaxAttempts = 2
    AtomicStart = TRUE
    MaxTriggers = 2
    MaxCrashes = 0
    MaxFaults = 1
INVARIANTS
    TypeOK
    AtMostOneRunning
    RepeatedOnce
    RunningRunsOwned
    NoOrphanAfterStart
PROPERTIES
    DrainedRunsSettled
    ImplementsExclusion
