CONSTANTS
    p1 = p1
    p2 = p2
    Producers = {p1, p2}
    MaxLines = 3
SPECIFICATION Spec
INVARIANTS LinesInOrder WrittenOnce StopWritesAll
PROPERTY LinesReachDisk
