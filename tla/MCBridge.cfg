SPECIFICATION SuiteSpec
CONSTANTS
    Off = Off
    None = None
    dv1 = dv1
    dv2 = dv2
    t = t
    u = u
    pt = pt
    tun = tun
    b1 = b1
    b2 = b2
    b3 = b3
    x = x
    y = y
    z = z
    q1 = q1
    q2 = q2
    q3 = q3
    m1 = m1
    m2 = m2
    e1 = e1
    group = group
INVARIANTS PortsSound BundlesHold
SYMMETRY Symmetry
