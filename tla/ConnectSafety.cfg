\* Two concurrent calls with and without timeout; checks the resource and
\* channel-registry invariants that the code maintains.
CONSTANTS
    c1 = c1
    c2 = c2
    n1 = n1
    a1 = a1
    a2 = a2
    NoAddr = NoAddr
    Calls <- MCCallsTwo
    Nodes <- MCNodes
    Addresses <- MCAddresses
    V4Addrs <- MCV4Addrs
    HasIpv4 = FALSE
    Timeouts <- MCTimeoutsAll
    MaxChannels = 3
    OtherErrors = TRUE
    AppOps <- MCAppOpsAll
SPECIFICATION Spec
INVARIANT NoLeakedExchange
