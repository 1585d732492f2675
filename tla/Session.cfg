\* Four messages, the second one unknown, over channels of one
SPECIFICATION FairSpec
CONSTANTS
    Messages = 4
    Unknown = {2}
    ReceiverSize = 1
    SenderSize = 1
    SocketRoom = 1
INVARIANTS
    TypeOK
    InOrder
    RefusalCloses
    GracefulEnd
    StateHandedOver
PROPERTIES
    SessionEnds
    ProcessorLeaves
