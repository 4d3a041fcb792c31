SPECIFICATION SuiteSpec
CONSTANTS
    Off = Off
    None = None
    p1 = p1
    p2 = p2
    tn = tn
    pa = pa
    pb = pb
    p3 = p3
    r0 = r0
    r1 = r1
    rb = rb
    r2 = r2
    miss = miss
    Calls <- Matched
    Layout <- TypeTable
    Signature <- WrapperTable
    Handler <- CaseTable
    Ring = 4
    MaxBatch = 2
    CounterSize = 4
    MaxBridges = 3
INVARIANTS RequestsAnswered CallsInv TranslationSound
PROPERTIES EvictionFair
