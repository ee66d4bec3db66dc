INIT MCInit
NEXT MCNext
CONSTANTS
    VersionMax = 3
    PartBits = 2
    IntBits = 6
    MinDelim = 2
    Locations = {"r", "s", "m", "n"}
    Store = "s"
    Remote = "r"
    NULL = NULL
    Files <- MCFiles
    Queries <- MCQueries
    Words <- MCWords
    Listing <- MCListing
    Roots = {"/", "", "x"}
    MaxOptions = 3
    Targets <- MCTargets
    Archives = 2
    MaxVersion = 2
    Partial = 9
    Packages = {"a", "b"}
    MaxBuilds = 3
    NoArchive = NoArchive
    Programs <- MCPrograms
    Libraries <- MCLibraries
    Contents <- MCContents
    Sections <- MCSections
    Plans <- MCPlans
    Destroot <- MCDestroot
    LibDir <- MCLibDir
    Names <- MCNames
    Depth = 3
    MaxPaths = 5
    Metadata <- MCMetadata
INVARIANT RemoteHasPriority
CHECK_DEADLOCK FALSE
