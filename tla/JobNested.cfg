\* A composite job and one of its steps, run under its run id: a crash, resumes, retries
\* asked for by hand, and the step called again.
SPECIFICATION Spec
CONSTANTS
    Jobs = {pipeline, score}
    Pool = {t1}
    Main = main
    Clis = {}
    Server = server
    Slots = {s1}
    Composites = {pipeline}
    Steps = {score}
    ResumeJobs = {pipeline, score}
    MaxAttempts = 1
    AtomicStart = TRUE
    MaxTriggers = 3
    MaxCrashes = 1
    MaxFaults = 0
INVARIANTS
    AttemptChain
    RepeatedOnce
