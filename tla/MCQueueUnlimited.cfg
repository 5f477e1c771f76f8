\* One producer, one consumer and an observer on a queue without a maximum size,
\* up to the point where the heap cannot serve the next realloc.
CONSTANTS
    None = None
    Garbage = Garbage
    Items = {i1, i2}
    Producers = {p1}
    Consumers = {c1}
    Observers = {o1}
    Calls <- CallsLong
    GC_COUNT = 3
    Word = 8
    MemCells = 4
    InitialSize = 2
    MaxSize = 0
    MaxSpurious = 1
SPECIFICATION Spec
PROPERTY ImplementsFifo
