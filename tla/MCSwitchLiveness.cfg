SPECIFICATION SuiteFairSpec
CONSTANTS
    Off = Off
    None = None
    r0 = r0
    r1 = r1
    r2 = r2
    ka = ka
    kb = kb
    dv1 = dv1
    dv2 = dv2
    p = p
    a1 = a1
    a2 = a2
    tun = tun
    p1 = p1
    p2 = p2
    pa = pa
    pb = pb
    p3 = p3
    rb = rb
    miss = miss
PROPERTIES SwitchSettles
