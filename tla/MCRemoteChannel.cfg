SPECIFICATION FairSpec
CONSTANTS
    MaxSends <- ClientOne
    MaxRequests <- ClientOne
    MaxTelemetry = 1
    MaxDisconnects = 2
    MaxEvents = 3
    MaxId = 12
INVARIANTS
    NoMessageLost
    RedeliveredOnlyByResync
PROPERTIES
    EventuallyDelivered
CHECK_DEADLOCK FALSE
