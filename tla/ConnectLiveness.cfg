\* A call with a timeout, next to disconnect, removeNode and device changes: every such call returns.
CONSTANTS
    c1 = c1
    c2 = c2
    n1 = n1
    a1 = a1
    a2 = a2
    NoAddr = NoAddr
    Calls <- MCCallsOne
    Nodes <- MCNodes
    Addresses <- MCAddresses
    V4Addrs <- MCV4Addrs
    HasIpv4 = FALSE
    Timeouts <- MCTimeoutsBounded
    MaxChannels = 3
    OtherErrors = TRUE
    AppOps <- MCAppOpsAll
SPECIFICATION Spec
PROPERTY BoundedCallReturns
