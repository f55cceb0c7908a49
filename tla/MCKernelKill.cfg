CONSTANTS
    NPROC = 3
    NCPU = 2
    MaxPid = 3
    UINT = 4
    Preempt = FALSE
    NPAGES = 11
    MorePages = 14
    Ticking = {"memory"}
    PGSIZE = 2
    MAXPG = 3
    PTSPAN = 2
    KVM = 1
    ExecPages = 1
    PIPESIZE = 2
    IOSizes = {1, 3}
    INPUT_BUF = 2
    NBUF = 2
    Block = {1, 2, 3}
    Value = {0, 1}
    ReadErrors = FALSE
    Loads = {"memory"}
SPECIFICATION Spec
CHECK_DEADLOCK FALSE
PROPERTIES BornAlive
