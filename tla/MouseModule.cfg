SPECIFICATION Spec
CONSTANTS
    Files = {f1, f2}

CHECK_DEADLOCK FALSE
INVARIANT BufferOutlivesItsUsers
INVARIANT ReleasesWhatItHolds
PROPERTY UndoneInReverse
