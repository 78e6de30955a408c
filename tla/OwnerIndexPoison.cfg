SPECIFICATION FairSpec
CONSTANTS
    Alice = Alice
    Bob = Bob
    R1 = R1
    R2 = R2
    NoOwner = NoOwner
    Absent = Absent
    Broken = Broken
    NoRequest = NoRequest
    NoOne = NoOne
    Requests = {k1}
    Owners = {Alice}
    Replicas = {R1}
    NCodes = 2
    QueueCap = 1
    BatchSize = 1
    InitObjects <- OldOrBroken
    InitRows <- NoRows
    MaxVersions = 1
    MaxFailures = 0
    MaxRestarts = 0
PROPERTIES SoundLinksConverge
