\* Any two messages one after the other, in pieces of up to eight bytes or at once.
CONSTANTS
    Samples <- AllTypes
    Handlers <- SomeHandled
    MaxMessages = 2
    MaxPiece = 8
SPECIFICATION FairSpec
CHECK_DEADLOCK FALSE
INVARIANTS
    TypeOK
    StreamFramed
PROPERTIES
    ImplementsChannel
    SentIsHandled
