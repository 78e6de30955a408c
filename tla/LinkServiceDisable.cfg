SPECIFICATION Spec
CONSTANTS
    NoOwner = NoOwner
    Absent = Absent
    Alice = Alice
    Bob = Bob
    D1 = D1
    D2 = D2
    Backend = "s3"
    Codes = {c1}
    Users = {Alice}
    Dests = {D1}
    Requests = {k1, k2, k3}
    Ops = {"resolve", "disable_as"}
    Attempts = 2
    InitObjects <- AliceLink
    MaxNow = 0
    MaxFailures = 0
SYMMETRY RequestSymmetry
INVARIANTS DisabledLinksResolve404
CHECK_DEADLOCK FALSE
