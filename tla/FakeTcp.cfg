SPECIFICATION Spec
CONSTANTS
    None = None
    Modulus = 16
    InitialSequence <- MCInitialSequence
    QueueCapacity = 2
    MaxFrames <- MCMaxFrames
    MaxResets = 1
INVARIANTS
    TypeOK
    FramesInOrder
    SequencesAgree
    ParkedOnlyWhenEmpty
    EstablishedTogether
CHECK_DEADLOCK FALSE
