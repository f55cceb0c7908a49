\* Two shells and one directory, two daemons in all.  No symmetry: liveness.
CONSTANTS
    d1 = d1
    d2 = d2
    Shell = {s1, s2}
    Dir = {d1}
    Nested = {}
    Option = {mode}
    Value = {1}
    MaxPid = 2
    NoConf = NoConf
    Torn = Torn
    NoDir = NoDir
SPECIFICATION FairSpec
CHECK_DEADLOCK FALSE
PROPERTIES StopTakesEffect
