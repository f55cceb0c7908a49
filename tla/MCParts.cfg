SPECIFICATION PartsSpec
CONSTANTS
    NCPU = 2
    NPROC = 2
    NDIRECT = 1
    NSINDIRECT = 2
    NDINDIRECT = 1
    NINDIRECT = 2
    NBLOCKS = 29
    MaxBlocks <- TwoFiles
    MaxTruncs = 1
INVARIANTS MultilevelRight LibraryRight ShellRight SpinSafe Ext2Right ScoreRight BlankFair PassExact
CHECK_DEADLOCK FALSE
