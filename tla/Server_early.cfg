CONSTANTS
    Signals = {"SIGINT", "SIGTERM"}
    MaxRequests = 1
SPECIFICATION FairSpec
PROPERTIES
    EveryShutdownEnds
CHECK_DEADLOCK FALSE
