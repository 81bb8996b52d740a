\* One covenant, one worker: what approving a later version does to today's.
SPECIFICATION Spec
CONSTANTS
    Users = {ann, bob}
    NoOne = NoOne
    Window = 3
    MaxClock = 2
    Workers = {w1}
    Covenants = {c1}
    Days = {1, 2}
    Forever = 9
    MaxRequests = 2
INVARIANT
    InForceIsLive
CHECK_DEADLOCK FALSE
