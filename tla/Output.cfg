CONSTANTS
    c1 = c1
    c2 = c2
    Conns = {c1, c2}
    MaxItems = 2
    ItemLen = 2
    kCheapPrepend = 1
    kInitialSize = 3
SPECIFICATION Spec
INVARIANTS DataInOrder HalfCloseAfterDrain FileKeepsPlace
PROPERTY ShutdownCompletes
CHECK_DEADLOCK FALSE
