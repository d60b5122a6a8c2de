SPECIFICATION Spec
CONSTANTS
    Frames <- MCFrames
    Handlers <- MCHandlers
    HeaderLen = 2
    MaxFrameBody = 10
    MaxBuffer = 9
    ReadChunk = 4
    Burst = 2
    InitTokens = 1
    SendBuffer = 1
    MaxFrames = 2
INVARIANTS
    TypeOK
    BufferAccounting
    InSync
    ResponsesMatchRequests
    DispatchedOnceInOrder
    QuotaOnlyForBigFrames
PROPERTIES
    RequestsWorkedOff
    TimeoutsEndConnection
