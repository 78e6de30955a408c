SPECIFICATION FairSpec
CONSTANTS
    Alice = Alice
    Bob = Bob
    B1 = B1
    B2 = B2
    K1 = K1
    K2 = K2
    D1 = D1
    D2 = D2
    NoUser = NoUser
    NoToken = NoToken
    NoOne = NoOne
    NoCookie = NoCookie
    Absent = Absent
    Requests = {1, 2, 3}
    Clients = {B1, B2}
    Kids = {K1, K2}
    Subs = {Alice, Bob}
    Tokens <- MCTokens
    ClientID = "urlo"
    Issuers <- MCIssuers
    Cookies <- MCCookies
    KeyLife = 2
    TTLs = {0}
    DefaultTTL = 2
    MaxNow = 2
    MaxRotations = 1
    MaxFetchFailures = 1
    Codes = {c1}
    Dests = {D1, D2}
    InitObjects <- MCInitObjects
    Attempts = 1
    Hosts = {0, 1}
    Visits <- MCVisits
    Salt = "salt"
    Queries <- MCQueries
    PageSize = 1
    DefaultLimit = 2
    Configs <- MCConfigs
INVARIANTS RequestsOK AnswersWereTrue AnalyticsOfOneMoment ClicksAreUnderstood SignInsAreRight
PROPERTIES ActsWithinSession KeysWerePublished RequestsEnd
CHECK_DEADLOCK FALSE
