\* Two calls of any functions at the same time, and room for three sockets.
CONSTANTS
    MaxCalls = 2
    Kinds = {"udp", "tcp", "client", "nix", "lookup"}
    FdLimit = 6
    UsedFds = {0, 1, 2}
    Addrs = {a1, a2}
    a1 = a1
    a2 = a2
    Hosts <- TwoHosts
    NULL = NULL
SPECIFICATION FairSpec
INVARIANTS ReturnedSocketWorks LosesAtMostOne AddrinfoFreed
PROPERTY CallReturns
