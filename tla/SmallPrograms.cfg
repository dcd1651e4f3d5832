SPECIFICATION Spec
CONSTANTS
    RowSize = 4
    RowValues = {0, 2, 4, 8}
    BoardSize = 2
    BoardValues = {0, 2, 4, 8, 16}
    Goal = 16
    MaxComment = 2
    Archives <- MCArchives
    MemberNames = {"a", "b"}
    FirstCap = 2
    MsgBuf = 4
    Addresses = 2
    PieceSize = 4
    PageSize = 2
    MaxFile = 5
    MaxRows = 3
    Numbers <- MCNumbers
    Word = Word
    NaN = NaN
    Workers = {w1, w2}
    Owner = main
    NoOne = NoOne

CHECK_DEADLOCK FALSE
INVARIANT SlidesByTheRule
INVARIANT CanMoveIsRight
INVARIANT ListsEveryMember
INVARIANT FramingHolds
INVARIANT ChecksumOfAPrefix
INVARIANT MomentsOfOneTable
INVARIANT LogIsWhole
INVARIANT OnlyOverlapUsesClosed
PROPERTY OneTilePerMove
