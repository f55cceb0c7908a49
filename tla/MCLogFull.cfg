\* Calls that use all of the MAXOPBLOCKS blocks that param.h grants them.
CONSTANTS
    Block = {b1, b2, b3, b4}
    Value = {v0}
    Proc = {p1, p2}
    LOGSIZE = 4
    MAXOPBLOCKS = 2
    LogBlocks = 3
    OpBlocks = 2
    NotCached = NotCached
    NoProc = NoProc
    NoBlock = NoBlock
SPECIFICATION Spec
INVARIANT NoPanic
