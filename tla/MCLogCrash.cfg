\* Crash atomicity: two processes, two blocks each, all contents.
CONSTANTS
    Block = {b1, b2, b3}
    Value = {v0, v1}
    Proc = {p1, p2}
    LOGSIZE = 6
    MAXOPBLOCKS = 3
    LogBlocks = 5
    OpBlocks = 2
    NotCached = NotCached
    NoProc = NoProc
    NoBlock = NoBlock
SPECIFICATION Spec
SYMMETRY Symmetry
INVARIANTS TypeOK SleeperHasWaker Inv
PROPERTIES ImplementsAtomicDisk WriteAhead
