SPECIFICATION SuiteFairSpec
CONSTANTS
    Off = Off
    vswitchd = vswitchd
    ovsdb = ovsdb
    s1 = s1
    c1 = c1
    c2 = c2
    f1 = f1
    t1 = t1
    MaxGen = 4
INVARIANTS Reread
PROPERTIES RequestsResume TlsProgress
