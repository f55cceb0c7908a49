\* Two processes, two files, a disk that fills up; runs of at most two blocks;
\* the last block lies beyond what an entry can address.
CONSTANTS
    Proc = {p1, p2}
    Ino = {i1, i2}
    File = {f1, f2}
    NBLOCK = 5
    BSIZE = 2
    NDIRECT = 2
    NINDIRECT = 1
    CS_LENGTH_BITS = 2
    CS_MAX_LENGTH = 2
    CS_MAX_START = 4
    MaxChunk = 3
    Lengths = {4}
    ReadLengths = {3}
    Junk = Junk
    NoIno = NoIno
    NoProc = NoProc
    NoFile = NoFile
SPECIFICATION Spec
SYMMETRY Symmetry
CHECK_DEADLOCK FALSE
INVARIANTS TypeOK BlocksOwned MapsSize OwnBytes OffsetInFile RunsMaximal
