\* A wait gives up on a score thread, and the step is retried beside it.
SPECIFICATION Spec
CONSTANTS
    Jobs = {"pipeline", "ingest", "test", "score", "rank", "update_cases", "dispatch"}
    Triggered = {"pipeline"}
    Borrowers = {b1}
    MaxAttempts = 2
    Budgets <- LateMix
INVARIANT
    OneForecastRun
CHECK_DEADLOCK FALSE
