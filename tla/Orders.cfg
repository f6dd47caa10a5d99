CONSTANTS
    t1 = t1
    t2 = t2
    Threads = {t1, t2}
    MaxCalls = 3
    LastOrder = 2
    BarOrders = {2}
    Earlier = 1
    InitialStock = 2
    MaxPageSize = 1
    Limits = {0, 2}
    Offsets = {0, 1}
    Targets = {"Paid", "Cancelled"}
    FaultKinds = {"cache", "stock", "db", "insert", "insertLost", "publish"}
    MaxFaults = 1
SPECIFICATION Spec
SYMMETRY ThreadSymmetry
INVARIANTS CacheAgrees OkIsPersisted 
PROPERTY PageServed
