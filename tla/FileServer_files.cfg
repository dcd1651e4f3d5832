SPECIFICATION Spec
CONSTANTS
    c1 = c1
    c2 = c2
    c3 = c3
    Clients = {c1, c2, c3}
    Segments <- TwoOneThree
    Room = 2
    SndCap = 4
    FirstFd = 5
    TableSize = 7
    MaxFd = 8
    Listen = listen
    None = none
    Request <- FileFileMissing
    Chunks <- OneTwoNone

CHECK_DEADLOCK FALSE
INVARIANTS SlotIsolation UnreadIsCovered NoEmptyCall OneRightReply SmallFilesWhole
PROPERTIES NeverCatchUp ServesInTurn
