\* A request, a job and radarctl on either database; rows come to harm.
SPECIFICATION FairSpec
CONSTANTS
    r1 = r1
    r2 = r2
    job = job
    cli = cli
    loop = loop
    thread = thread
    shell = shell
    server = server
    Nobody = Nobody
    Txs <- ThreeTxs
    ThreadOf <- ThreeThread
    HostOf <- ThreeHost
    Appends <- ThreeAppend
    Dialects = {"postgresql", "sqlite"}
    MaxCrashes = 1
    Batch = 2
    Losable = {2}
    MaxHarm = 2
INVARIANTS
    TypeOK
    ChainLinked
    NeverRefused
    AlarmAtHarm
PROPERTIES
    ImplementsLog
    AlarmPersists
    WritersEnd
    HarmReported
