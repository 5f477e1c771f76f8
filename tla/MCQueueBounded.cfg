\* Two producers and two consumers on a bounded queue that grows and vacuums.
CONSTANTS
    None = None
    Garbage = Garbage
    Items = {i1, i2}
    Producers = {p1, p2}
    Consumers = {c1, c2}
    Observers = {}
    Calls <- CallsShort
    GC_COUNT = 2
    Word = 32
    MemCells = 16
    InitialSize = 0
    MaxSize = 2
    MaxSpurious = 1
SPECIFICATION FairSpec
INVARIANTS TypeOK LockInv QueueInv BoundedMemory NoLostWakeup
PROPERTIES ImplementsFifo Termination
