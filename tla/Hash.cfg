SPECIFICATION Spec
CONSTANTS
    a = a
    b = b
    c = c
    d = d
    e = e
    Words = {a, b, c, d, e}
    HashString <- MCHashString
    InitCapacity = 4
    LoadNum = 7
    LoadDen = 10
    MaxReads = 8
    Null = null

CHECK_DEADLOCK FALSE
INVARIANTS ProbeEnds FoundWhereStored CountsAreRight
