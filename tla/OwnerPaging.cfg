SPECIFICATION Spec
CONSTANTS
    User = User
    Owners = {User, NoOwner}
    NoOwner = NoOwner
    Stranger = Stranger
    Absent = Absent
    NCodes = 3
    ReadSources = {"index", "s3", "memory"}
    Size = 1
    BatchMax = 2
    Budget = 3
    Times = {1, 2}
    InitLinks <- SomeLinks
    InitRows <- OlderRows
    InitPointers <- AllPointed
    LinkSpace = "link"
    MaxChanges = 2
    MaxFailures = 1
INVARIANTS PagesOK EachPositionOnce OneSourcePerList SteadyLinksListed
PROPERTIES CursorAdvances
CHECK_DEADLOCK FALSE
