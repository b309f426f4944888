SPECIFICATION FairSpec
CONSTANTS
    Devices = {kbd}
    Senders = {s1}
    QueueDepth = 2
    MaxToggles = 2
    NodesMayBeLate = FALSE
INVARIANTS TypeOK SuspendedReaderClosed
PROPERTIES OperationsReturn InputRecovers
