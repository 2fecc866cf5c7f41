\* Two uploads of one name or two, with the numbers of the code.
SPECIFICATION FairSpec
CONSTANTS
    Sessions = {s1, s2}
    Names = {f, g}
    Sizes <- MCSizes
    Buf = 1024
    Keep = 1000
    Boundary = 45
    PartHead = 156
INVARIANTS
    TypeOK
    PiecesInOrder
    AnsweredWhole
    DiesOnlyIfSplit
PROPERTIES
    UploadEnds
\* Uploads end.
CHECK_DEADLOCK FALSE
