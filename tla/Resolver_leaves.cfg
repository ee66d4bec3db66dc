CONSTANTS
    a = a
    b = b
    c = c
    d = d
    NoPackage = NoPackage
    Package <- Graph
    ReqMax = 4
    StackMax = 4
    NeedsWorlds <- GraphNeeds
    NewestWorlds <- GraphNewest
    AskedWorlds <- GraphAsked
SPECIFICATION Spec
INVARIANT DependenciesAreListed
