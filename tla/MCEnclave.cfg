SPECIFICATION SuiteSpec
CONSTANTS
    Off = Off
    f1 = f1
    f2 = f2
    f3 = f3
    v1 = v1
    v2 = v2
    e1 = e1
    e2 = e2
    e3 = e3
    Entries = {e1, e2, e3}
    Hashes = {1, 2}
    Rules = {1, 2}
    Modulus = 8
    Maps = {"entries", "ut_crs"}
    Cap = 4
    DefaultSize = 8
    MaxNodes = 33
    MaxBits = 5
    vswitchd = vswitchd
    ovsdb = ovsdb
    s1 = s1
    s2 = s2
    r1 = r1
    r2 = r2
    n1 = n1
    EnclaveStreams = {s1}
    Programs = {vswitchd, ovsdb}
    Trusted = {vswitchd, ovsdb}
    Faults = {"crash", "ca", "seed", "parse", "write"}
    MaxKeys = 3
    Processes = {vswitchd, ovsdb}
    Streams = {s1, s2}
    Roots = {r1, r2}
    NonRoots = {n1}
    FileFails = TRUE
    MaxStreams = 3
INVARIANTS PagesInv ClassifierSound CacheInv ChecksumValid BootstrapInv KeysInv OwnPeer StreamsAwake
PROPERTIES EvictsLeastRecent HeapSound
