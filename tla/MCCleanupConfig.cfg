\* Two shells add the same directory at the same time.
CONSTANTS
    d1 = d1
    d2 = d2
    Shell = {s1, s2}
    Dir = {d1, d2}
    Nested <- NestedDirs
    Option = {mode}
    Value = {1, 2}
    MaxPid = 3
    NoConf = NoConf
    Torn = Torn
    NoDir = NoDir
SPECIFICATION Spec
CHECK_DEADLOCK FALSE
INVARIANTS RefusedLeavesConfig
