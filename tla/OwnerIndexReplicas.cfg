SPECIFICATION Spec
CONSTANTS
    Alice = Alice
    Bob = Bob
    R1 = R1
    R2 = R2
    NoOwner = NoOwner
    Absent = Absent
    Broken = Broken
    NoRequest = NoRequest
    NoOne = NoOne
    Requests = {k1}
    Owners = {Alice, Bob}
    Replicas = {R1, R2}
    NCodes = 1
    QueueCap = 1
    BatchSize = 1
    InitObjects <- OnlyOld
    InitRows <- NoRows
    MaxVersions = 2
    MaxFailures = 0
    MaxRestarts = 1
SYMMETRY ReplicaSymmetry
INVARIANTS IndexInv
PROPERTIES ImplementsProjection
