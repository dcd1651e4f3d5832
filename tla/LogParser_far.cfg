SPECIFICATION Spec
CONSTANTS
    fa = fa
    fb = fb
    fc = fc
    fd = fd
    sub = sub
    u = u
    v = v
    r = r
    s = s
    Urls = {u, v}
    Refs = {r, s}
    NoRef = noref
    TopN = 1
    Entries = {fa}
    ThreadCounts = {1}
    IntBits = 3
    Regular <- FarRegular
    Lines <- FarLines

INVARIANT TopIsHeaviest
