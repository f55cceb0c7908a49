\* Log space and liveness: three processes of which two fit the log at a time
\* (LOGSIZE = 2 * MAXOPBLOCKS, one block of the log area taken by the header),
\* each adding MAXOPBLOCKS - 1 entries.  No symmetry.
CONSTANTS
    Block = {b1, b2, b3}
    Value = {v0}
    Proc = {p1, p2, p3}
    LOGSIZE = 4
    MAXOPBLOCKS = 2
    LogBlocks = 3
    OpBlocks = 1
    NotCached = NotCached
    NoProc = NoProc
    NoBlock = NoBlock
SPECIFICATION FairSpec
INVARIANT NoPanic
PROPERTIES SleeperWoken CommitEnds
