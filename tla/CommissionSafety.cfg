\* One commission() call with every kind of known address, missing IPv4 and
\* BLE interfaces, PASE failures and a moving device: fallback, PASE exchange, termination.
CONSTANTS
    u4 = u4
    u6 = u6
    b1 = b1
    NoAddr = NoAddr
    Addresses <- MCAddresses
    AddrType <- MCAddrType
    DeviceAddrs <- MCDeviceAddrs
    OtherErrors = TRUE
    MaxChannels = 4
    MaxDepth = 3
SPECIFICATION Spec
INVARIANT PaseExchangeClosed
PROPERTY CommissionReturns
