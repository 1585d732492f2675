\* Is the connection closed after an answer was refused?
SPECIFICATION Spec
CONSTANTS
    Messages = 4
    Unknown = {2}
    ReceiverSize = 1
    SenderSize = 1
    SocketRoom = 1
INVARIANTS
    AbortedIsClosed
