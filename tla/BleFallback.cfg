\* A known address that fails sends commission() to a discovery without the BLE scanner.
CONSTANTS
    u4 = u4
    u6 = u6
    b1 = b1
    NoAddr = NoAddr
    Addresses <- MCAddresses
    AddrType <- MCAddrType
    DeviceAddrs <- MCDeviceAddrs
    OtherErrors = TRUE
    MaxChannels = 4
    MaxDepth = 3
SPECIFICATION Spec
INVARIANT ScansRequestedTransports
