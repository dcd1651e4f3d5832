SPECIFICATION FairSpec
CONSTANTS
    Copies = {s1, s2}
    Clients = {c1, c2, c3}
    Backlog = 1
    MaxStarts = 3
    MaxMsgs = 1
    AnswerCap = 1
    NoFile = nofile
    Stale = stale
    Nobody = nobody

CHECK_DEADLOCK FALSE
INVARIANTS CleanStopsAllowRestart OneCopyPerClient
PROPERTIES NameIsKept WaitingNeedsAHolder
