CONSTANTS
    N = 2
    MaxConns = 2
SPECIFICATION Spec
INVARIANTS LoopsUsable NoLoopLeftRunning Balanced
PROPERTY DestructorReturns
