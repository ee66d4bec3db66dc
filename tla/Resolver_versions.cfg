CONSTANTS
    a = a
    b = b
    c = c
    d = d
    NoPackage = NoPackage
    Package <- Versions
    ReqMax = 6
    StackMax = 4
    NeedsWorlds <- VersionsNeeds
    NewestWorlds <- VersionsNewest
    AskedWorlds <- VersionsAsked
SPECIFICATION FairSpec
INVARIANTS
    DependenciesFirst
    AskedStays
    ArrayIsEnough
    OnlyWhatIsNeeded
PROPERTIES
    SettledForever
    Terminates
