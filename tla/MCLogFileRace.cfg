\* The main thread opens a log file, and fails, while a worker logs.
CONSTANTS
    Workers = {w1}
    Types = {"STDOUT", "FILE"}
    Severities = {0, 10}
    Times = {"NONE", "UTC"}
    Clients = {}
    NULL = NULL
    MaxHandles = 1
    MaxCalls = 1
    ConfigureQuietly = FALSE
    NullPaths = FALSE
SPECIFICATION Spec
INVARIANT NoAssertionFails
