\* Two processes drop their references to an unlinked inode at the same time.
CONSTANTS
    Proc = {p1, p2}
    Name = {a}
    File = {f1, f2}
    NINODES = 2
    NINODE = 2
    NoProc = NoProc
    NoName = NoName
SPECIFICATION Spec
CHECK_DEADLOCK FALSE
INVARIANTS NoOrphan
