SPECIFICATION FairSpec
CONSTANTS
    R1 = R1
    R2 = R2
    P1 = P1
    P2 = P2
    Releases = {R1, R2}
    VersionOf <- MCVersionOf
    NoRelease = NoRelease
    Configs <- MCConfigs
    Target = "urlo"
    Pods = {P1, P2}
    Settings <- MCConfigs
    NoSetting = NoSetting
    Plans <- MCPlans
INVARIANTS ProcessesFit MigrationsInOrder ReleasesAreSafe
PROPERTIES ShutdownInOrder NothingIsOverwritten EverythingEnds
CHECK_DEADLOCK FALSE
