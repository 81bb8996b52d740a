SPECIFICATION ServicesSpec
CONSTANTS
    Users = {ann, bob}
    NoOne = NoOne
    Window = 1
    MaxClock = 2
    Workers = {w1, w2}
    Covenants = {c1}
    Days = {1, 2, 3}
    Forever = 9
    MaxRequests = 3
    Callers = {k1, k2}
    Hour = 1
    Day = 2
    Month = 3
    PerHour = 2
    PerDay = 3
    MonthlyBudget = 4
    Estimate = 1
    Costs = {2}
    MaxInstant = 3
    MaxSent = 4
    Threads = {t1, t2, t3}
    Threshold = 2
    Recovery = 2
    Tries = 2
SYMMETRY Interchangeable
INVARIANTS
    TypesOK
    OneLive
    ApprovedByAnother
    RangesDisjoint
    ToldOnce
    OpenAtThreshold
    CeilingsHold
    OverrunBounded
    SettledWithinMonth
PROPERTIES
    DecisionFinal
    ImplementsFourEyes
CHECK_DEADLOCK FALSE
