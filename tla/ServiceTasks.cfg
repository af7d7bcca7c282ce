SPECIFICATION FairSpec
CONSTANTS
    Capacity = 2
    QueueCapacity = 1
    MaxArrivals = 2
    MaxProduced = 3
INVARIANTS
    NoLostWakeup
    FramesAccountedFor
PROPERTIES
    ImplementsPipe
    PollerGoneEndsService
    StopReleasesTransport
CHECK_DEADLOCK FALSE
