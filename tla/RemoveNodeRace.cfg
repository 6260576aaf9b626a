\* One connect() pending while removeNode() runs for the same node.
CONSTANTS
    c1 = c1
    c2 = c2
    n1 = n1
    a1 = a1
    a2 = a2
    NoAddr = NoAddr
    Calls <- MCCallsOne
    Nodes <- MCNodes
    Addresses <- MCAddresses
    V4Addrs <- MCV4Addrs
    HasIpv4 = FALSE
    Timeouts <- MCTimeoutsBounded
    MaxChannels = 2
    OtherErrors = FALSE
    AppOps <- MCAppOpsAll
SPECIFICATION Spec
INVARIANT RegisteredChannelBacked
