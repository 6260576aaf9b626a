\* Endpoints with and without unique ids, with and without a number set by
\* the application, and an attribute that can be cleared: a live cluster's
\* storage context stops holding what the cluster holds.  The shortest trace
\* gives two endpoints the same number (a preset equal to nextEndpointId), so
\* they share one context.  With UidChoices <- MCUids and Presets <-
\* MCNoPresets the trace is a cleared attribute that changed() does not store.
CONSTANTS
    u1 = u1
    u2 = u2
    u3 = u3
    w1 = w1
    w2 = w2
    InitialValue = InitialValue
    NoValue = NoValue
    Undefined = Undefined
    Values <- MCValuesClear
    NoUid = NoUid
    Uids <- MCUids
    UidChoices <- MCAnyUid
    Presets <- MCPresetOne
    InitialNext = 1
    MaxEndpoints = 2
    MaxNumber = 4
    VersionBits = 1
SPECIFICATION DataSpec
INVARIANT ClusterContextCurrent
