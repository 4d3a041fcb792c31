SPECIFICATION SuiteSpec
CONSTANTS
    Off = Off
    r0 = r0
    r1 = r1
    r2 = r2
    r3 = r3
    r4 = r4
    r5 = r5
    ka = ka
    kb = kb
    p = p
    q = q
    Addresses = {1, 2, 3, 4}
    Hashes = {0, 1, 2, 3, 4}
    Low <- AddressItself
    Leaks = FALSE
    MaxRules = 6
PROPERTY FlushDeletesAll
SYMMETRY Symmetry
