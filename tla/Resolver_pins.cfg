CONSTANTS
    a = a
    b = b
    c = c
    d = d
    NoPackage = NoPackage
    Package <- Versions
    ReqMax = 5
    StackMax = 4
    NeedsWorlds <- VersionsNeeds
    NewestWorlds <- VersionsNewest
    AskedWorlds <- VersionsAsked
SPECIFICATION Spec
INVARIANT PinsAreHonoured
