\* One job records four events; the first row is lost.
SPECIFICATION FairSpec
CONSTANTS
    r1 = r1
    r2 = r2
    job = job
    cli = cli
    loop = loop
    thread = thread
    shell = shell
    server = server
    Nobody = Nobody
    Txs <- OneTx
    ThreadOf <- OneThread
    HostOf <- OneHost
    Appends <- FourAppends
    Dialects = {"postgresql"}
    MaxCrashes = 0
    Batch = 2
    Losable = {1}
    MaxHarm = 1
PROPERTY
    BreakReported
