SPECIFICATION Spec
CONSTANTS
    NoOwner = NoOwner
    Absent = Absent
    Alice = Alice
    Bob = Bob
    D1 = D1
    D2 = D2
    Backend = "memory"
    Codes = {c1}
    Users = {Alice}
    Dests = {D1, D2}
    Requests = {k1, k2, k3}
    Ops = {"shorten", "resolve", "update_as", "disable_as", "enable_as", "delete_as", "delete"}
    Attempts = 2
    InitObjects <- AnyLink
    MaxNow = 1
    MaxFailures = 0
SYMMETRY RequestSymmetry
INVARIANTS DisabledLinksResolve404 DeletedLinksStayDeleted
CHECK_DEADLOCK FALSE
