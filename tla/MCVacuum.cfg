\* A client vacuums the queue while others use it.
CONSTANTS
    None = None
    Garbage = Garbage
    Items = {i1, i2}
    Producers = {p1}
    Consumers = {c1}
    Observers = {}
    Calls <- VacuumCalls
    GC_COUNT = 8
    Word = 32
    MemCells = 16
    InitialSize = 4
    MaxSize = 0
    MaxSpurious = 0
SPECIFICATION VSpec
PROPERTY OldestFirst
