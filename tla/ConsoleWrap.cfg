CONSTANTS
    Process = {p, q}
    buffer_size = 4
    FifoSize = 1
    MaxCount = 2
    MaxReceived = 4
    MaxWritten = 3
SPECIFICATION Spec
INVARIANTS
    AvailableAfterConsumed
CHECK_DEADLOCK FALSE
