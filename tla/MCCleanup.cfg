\* Two shells, a directory and one inside it, two daemons in all.
CONSTANTS
    d1 = d1
    d2 = d2
    Shell = {s1, s2}
    Dir = {d1, d2}
    Nested <- NestedDirs
    Option = {mode}
    Value = {1}
    MaxPid = 2
    NoConf = NoConf
    Torn = Torn
    NoDir = NoDir
SPECIFICATION Spec
CHECK_DEADLOCK FALSE
INVARIANTS TypeOK NoOverlap WorkingHasConfig
