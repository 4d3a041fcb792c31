SPECIFICATION SuiteSpec
CONSTANTS
    Off = Off
    a1 = a1
    a2 = a2
    a3 = a3
    k1 = k1
    k2 = k2
    r1 = r1
    r2 = r2
INVARIANTS CachedIsCurrent FacetsAccounted DropsKnown
PROPERTIES ExpiryFair
SYMMETRY Symmetry
