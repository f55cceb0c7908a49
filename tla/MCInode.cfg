\* Two processes, two names, three inodes, a cache and an open-file table that
\* fill up.
CONSTANTS
    Proc = {p1, p2}
    Name = {a, b}
    File = {f1, f2}
    NINODES = 3
    NINODE = 2
    NoProc = {p1, p2}
    NoName = NoName
SPECIFICATION Spec
SYMMETRY Symmetry
CHECK_DEADLOCK FALSE
INVARIANTS TypeOK RefCounts CacheCoherent LinkCounts NoDangling NotStuck
