\* Endpoints with unique ids added, removed, re-added and restarted, with
\* attribute writes: numbers stay unique and persistent, and the storage
\* implements EndpointStore across datasource re-creation and restarts.
CONSTANTS
    u1 = u1
    u2 = u2
    u3 = u3
    w1 = w1
    w2 = w2
    InitialValue = InitialValue
    NoValue = NoValue
    Undefined = Undefined
    Values <- MCValues
    NoUid = NoUid
    Uids <- MCUids
    UidChoices <- MCUids
    Presets <- MCNoPresets
    InitialNext = 1
    MaxEndpoints = 2
    MaxNumber = 3
    VersionBits = 1
SPECIFICATION DataSpec
INVARIANT UniqueEndpointNumbers
INVARIANT UidEndpointKeepsNumber
INVARIANT ClusterContextCurrent
PROPERTY EndpointStoreRefined
