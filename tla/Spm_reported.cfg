CONSTANTS
    a = a
    b = b
    c = c
    na = na
    nb = nb
    ne = ne
    f1 = f1
    f2 = f2
    f3 = f3
    l1 = l1
    p1 = p1
    p2 = p2
    NoMeta = NoMeta
    Package = {a, b, c}
    Name = {na, nb, ne}
    NameOf <- Names2
    File = {f1, f2, f3, l1}
    Link = {l1}
    Contents <- Apart
    Origin <- Origins
    Proc = {p1}
    Request <- Requests
    PlanOf <- Plans
    Modes = {"install", "remove", "replace", "reindex"}
    Stored = {c}
    Gone = {b}
    Faults = {"http", "copy", "storage"}
SPECIFICATION FairSpec
INVARIANTS
    IntactAtRest
    SuccessMeansInstalled
    RemovesWhatIsListed
PROPERTY
    CommandsEnd
