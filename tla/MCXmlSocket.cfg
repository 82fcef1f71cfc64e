SPECIFICATION SocketSpec
CONSTANTS
    MaxBuffers = 3
    Chunks <- MCChunks
    Zero = 0
    Invalid = 9
    MaxSends = 3
INVARIANTS
    SocketInv
    BytesInOrder
    MessagesAreIntact
PROPERTIES
    EventsInOrder
CHECK_DEADLOCK FALSE
