CONSTANTS
    t1 = t1
    t2 = t2
    t3 = t3
    NoTask = NoTask
    InitialSize = 2
    Tasks = {t1, t2, t3}
SPECIFICATION Spec
INVARIANTS TasksAccounted ReconnectUnreachable
PROPERTIES AnsweredOnce TaskAnswered ShutdownReturns
