SPECIFICATION SuiteSpec
CONSTANTS
    Off = Off
    c1 = c1
    c2 = c2
    c3 = c3
    f1 = f1
    f2 = f2
    h = h
    p1 = p1
    p2 = p2
    s1 = s1
    t1 = t1
    t2 = t2
    l1 = l1
    Targets = {t1, t2}
    InBand = {t1}
    Listeners = {l1}
    Versions = {"v10", "v13"}
    MayClog = TRUE
    Ofconns = {c1, c2}
    Kinds = {"buffered", "barrier", "format"}
    ReplyMax = 1
    PendingLimit = 2
    Drops = TRUE
    Removes = TRUE
    MaxRequests = 2
    Primary = {p1, p2}
    Service = {s1}
    Width = 2
    Generations = {0, 3}
    Clogs = TRUE
    Ids = {0}
    AsyncMasks <- Everything
    Configs <- TtlWanted
    Reconfigures = TRUE
    Events = {"invalid_ttl", "no_match", "port_status"}
INVARIANTS RolesInv ControlInv RequestsInv MonitorsTold
PROPERTIES Fenced NoNeedlessFlush
SYMMETRY Symmetry
