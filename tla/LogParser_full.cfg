SPECIFICATION FairSpec
CONSTANTS
    fa = fa
    fb = fb
    fc = fc
    fd = fd
    sub = sub
    u = u
    v = v
    r = r
    s = s
    Urls = {u, v}
    Refs = {r, s}
    NoRef = noref
    TopN = 1
    Entries = {fa, fb, fc, fd, sub}
    ThreadCounts = {1, 2, 3, 5}
    IntBits = 4
    Regular <- MCRegular
    Lines <- MCLines

INVARIANTS FinalIsSequential EachFileOneThread TopIsHeaviestOfNear
PROPERTY Terminates
