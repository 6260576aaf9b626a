\* Two concurrent connect() calls for one node (spec 8): both run CASE.
CONSTANTS
    c1 = c1
    c2 = c2
    n1 = n1
    a1 = a1
    a2 = a2
    NoAddr = NoAddr
    Calls <- MCCallsTwo
    Nodes <- MCNodes
    Addresses <- MCAddresses
    V4Addrs <- MCV4Addrs
    HasIpv4 = FALSE
    Timeouts <- MCTimeoutsBounded
    MaxChannels = 2
    OtherErrors = FALSE
    AppOps <- MCAppOpsAll
SPECIFICATION Spec
PROPERTY NoPairOverRegisteredChannel
