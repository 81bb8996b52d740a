\* Two requests of one event loop on PostgreSQL, with one event each.
SPECIFICATION Spec
CONSTANTS
    r1 = r1
    r2 = r2
    job = job
    cli = cli
    loop = loop
    thread = thread
    shell = shell
    server = server
    Nobody = Nobody
    Txs <- TwoRequests
    ThreadOf <- LoopThread
    HostOf <- LoopHost
    Appends <- OneAppend
    Dialects = {"postgresql"}
    MaxCrashes = 0
    Batch = 2
    Losable = {2}
    MaxHarm = 0
INVARIANT
    NoStandstill
