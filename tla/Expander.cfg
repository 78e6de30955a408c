SPECIFICATION FairSpec
CONSTANTS
    name = name
    reserved = reserved
    NoHost = NoHost
    Malformed = Malformed
    NoLocation = NoLocation
    Requests = {r1}
    Names = {name}
    ReservedNames = {reserved}
    Addresses <- SomeAddresses
    URLs <- SomeURLs
    Statuses = {200, 302}
    Lookups <- SomeLookups
    DefaultMaxRedirects = 2
    MaxSupportedRedirects = 3
    Configured <- SomeLimits
    MaxExpansions = 2
INVARIANTS OnlyPublicDials RequestsSpent AnswersFollowChain
PROPERTIES ExpansionsEnd
CHECK_DEADLOCK FALSE
