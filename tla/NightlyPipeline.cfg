\* Batches and a lone score over one borrower, under every mix.
SPECIFICATION Spec
CONSTANTS
    Jobs = {"pipeline", "ingest", "test", "score", "rank", "update_cases", "dispatch"}
    Triggered = {"pipeline", "score"}
    Borrowers = {b1}
    MaxAttempts = 2
    Budgets <- AllMixes
INVARIANTS
    TypeOK
    PatientForecastRun
    OneQueue
    NotifiedOnce
    OneOpenCase
    
    
PROPERTIES
    StepsInOrder
    BatchDelivered
CHECK_DEADLOCK FALSE
