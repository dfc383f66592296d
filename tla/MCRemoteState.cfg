SPECIFICATION FairStateSpec
CONSTANTS
    MAX_MISSED_HEARTBEATS = 5
    MAX_RECONNECT_ATTEMPTS = 3
    MaxFaults = 5
INVARIANTS
    ProxyHasOwner
PROPERTIES
    TerminalIsFinal
    ReconnectingEnds
    ShutdownReapsProxy
CHECK_DEADLOCK FALSE
