\* Two calls of popenRWE, by one thread or by two while a third one logs.
CONSTANTS
    MaxCalls = 2
    FdLimit = 12
    InitialFds = {0, 1, 2}
    Concurrent = {TRUE, FALSE}
    Logging = TRUE
    NULL = NULL
SPECIFICATION FairSpec
INVARIANTS ChildStdio NoLeak StdinHeldByYounger
PROPERTY ClientFinishes
