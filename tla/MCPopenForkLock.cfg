\* Another thread of the parent may be logging at the time of the fork.
CONSTANTS
    MaxCalls = 1
    FdLimit = 9
    InitialFds = {0, 1, 2}
    Concurrent = {TRUE}
    Logging = TRUE
    NULL = NULL
SPECIFICATION FairSpec
PROPERTY ChildExecs
