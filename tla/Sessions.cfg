CONSTANTS
    t1 = t1
    t2 = t2
    Threads = {t1, t2}
    MaxIds = 3
    MaxAge = 1
    MaxTime = 3
SPECIFICATION Spec
INVARIANTS SessionKept DestroyedIsGone
