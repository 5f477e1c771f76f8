\* Two workers log while the main thread creates and shuts down up to three loggers; or
\* to one logger, which it configures while nobody logs.
CONSTANTS
    Workers = {w1, w2}
    Types = {"NONE", "STDOUT", "SYSLOG", "FILE", "STDERR"}
    Severities = {0, 10}
    Times = {"NONE", "LOCWZONE", "UTC"}
    Clients = {c1, c2}
    NULL = NULL
    MaxHandles = 3
    MaxCalls = 2
    ConfigureQuietly = TRUE
    NullPaths = TRUE
SPECIFICATION MCSpec
INVARIANTS
    TypeOK NoUseAfterFree CountInv
    AssertFailsOnlyWithoutPath DeliveredIfEnabled CallbackGetsItsData
PROPERTY MlogReturns
