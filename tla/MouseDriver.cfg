SPECIFICATION FairSpec
CONSTANTS
    Writers = {w1}
    Readers = {r1}
    Timer = timer
    BufferSize = 3
    Lengths = {0, 2}
    Junk = junk
    Nobody = nobody
    Fault = fault
    x = x
    y = y
    Byte <- MCByte
    XLine <- MCXLine
    YLine <- MCYLine
    Data <- MCData

PROPERTIES AtomicCalls CallsReturn
