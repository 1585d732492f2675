\* Does the refusal of an answer end the dialog?
SPECIFICATION FairSpec
CONSTANTS
    Messages = 4
    Unknown = {2}
    ReceiverSize = 1
    SenderSize = 1
    SocketRoom = 1
PROPERTIES
    AbortEnds
