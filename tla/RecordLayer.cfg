SPECIFICATION RecordSpec
CONSTANTS
    None = None
    Width = 5
    WordBits = 2
    PacketNumbers <- MCPacketNumbers
    MaxPacketNumber = 10
    MaxReflected = 1
INVARIANTS
    WindowMirrorsHistory
    NeverAcceptedTwice
    ShiftsAllBits
    NumbersNeverReused
    WindowFollowsSealer
PROPERTIES
    ImplementsFilter
