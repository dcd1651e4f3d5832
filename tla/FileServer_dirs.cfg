SPECIFICATION FairSpec
CONSTANTS
    c1 = c1
    c2 = c2
    c3 = c3
    Clients = {c1, c2, c3}
    Segments <- OneOneOne
    Room = 1
    SndCap = 2
    FirstFd = 5
    TableSize = 7
    MaxFd = 7
    Listen = listen
    None = none
    Request <- FileDirPost
    Chunks <- OneTwoNone

CHECK_DEADLOCK FALSE
INVARIANTS NoSilentClose LeaksAreDirectories
PROPERTIES AcceptedInTurn RequestsAnswered
