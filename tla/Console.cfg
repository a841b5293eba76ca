CONSTANTS
    Process = {p, q}
    buffer_size = 4
    FifoSize = 1
    MaxCount = 2
    MaxReceived = 3
    MaxWritten = 3
SPECIFICATION Spec
INVARIANTS
    DeliveredInOrder
    WrittenInOrder
PROPERTIES
    ReadsReturn
    WritesReturn
