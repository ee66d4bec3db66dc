CONSTANTS
    a = a
    b = b
    c = c
    na = na
    nb = nb
    ne = ne
    f1 = f1
    f2 = f2
    f3 = f3
    l1 = l1
    p1 = p1
    p2 = p2
    NoMeta = NoMeta
    Package = {a, b}
    Name = {na, nb}
    NameOf <- DuoNames
    File = {f1, f2, l1}
    Link = {l1}
    Contents <- Slight
    Origin <- DuoOrigins
    Proc = {p1}
    Request <- DuoRequests
    PlanOf <- DuoPlans
    Modes = {"install", "remove", "replace", "reindex"}
    Stored = {}
    Gone = {}
    Faults = {"net", "http", "copy", "record", "sync", "storage", "tar", "unlink", "crash"}
SPECIFICATION Spec
INVARIANTS
    TypeOK
    CatalogIsStored
