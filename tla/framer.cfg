SPECIFICATION Spec
CONSTANTS
    FirstField <- MCFirstField
    LengthTag <- MCLengthTag
    Soh = "|"
    TrailerSize = 1
    MaxMessageSize = 2
    MaxCompleted = 2
    StartCapacity = 13
    MinGrow = 2
    Junk = Junk
    Streams <- MCStreams
INVARIANT TypeOK
INVARIANT BufferHoldsStream
INVARIANT WindowsInBuffer
INVARIANT MessagesInOrder
INVARIANT NothingHeldBack
