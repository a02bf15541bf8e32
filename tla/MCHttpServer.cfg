SPECIFICATION FairSpec
CONSTANTS
    InitialCap = 3
    Chunk = 2
    HeaderLimit = 8
    BodyLimit = 4
    Requests <- SampleRequests
    MaxClients = 2
    MaxFaults = 1
INVARIANTS
    TypeOK
    BufferInBounds
    HeadAccepted
    WholeRequest
PROPERTIES
    EveryoneServed
    StopsOnSignal
