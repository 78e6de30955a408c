SPECIFICATION Spec
CONSTANTS
    NoOwner = NoOwner
    Absent = Absent
    Alice = Alice
    Bob = Bob
    D1 = D1
    D2 = D2
    Backend = "s3"
    Codes = {c1}
    Users = {Alice}
    Dests = {D1}
    Requests = {k1, k2, k3}
    Ops = {"shorten", "shorten_random", "resolve", "update_as", "delete_as"}
    Attempts = 2
    InitObjects <- EndingOrNone
    MaxNow = 1
    MaxFailures = 1
SYMMETRY RequestSymmetry
INVARIANTS CodesAreUnique VisitsNeverOvercounted OwnedLinksListed
PROPERTIES OnlyTheEntitledChange
CHECK_DEADLOCK FALSE
