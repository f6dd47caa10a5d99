CONSTANTS
    t1 = t1
    t2 = t2
    f1 = f1
    f2 = f2
    f3 = f3
    Threads = {t1, t2}
    Functors = {f1, f2, f3}
SPECIFICATION Spec
INVARIANTS TypeOK NoLostWakeup FunctorsInOrder
PROPERTIES QuitStopsLoop ImplementsFunctorQueue
