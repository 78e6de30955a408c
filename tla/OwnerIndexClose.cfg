SPECIFICATION FairSpec
CONSTANTS
    Alice = Alice
    Bob = Bob
    R1 = R1
    R2 = R2
    NoOwner = NoOwner
    Absent = Absent
    Broken = Broken
    NoRequest = NoRequest
    NoOne = NoOne
    Requests = {k1}
    Owners = {Alice, Bob}
    Replicas = {R1}
    NCodes = 1
    QueueCap = 1
    BatchSize = 1
    InitObjects <- OldOrNone
    InitRows <- StaleRows
    MaxVersions = 3
    MaxFailures = 1
    MaxRestarts = 1
PROPERTIES Converges CloseReturns
