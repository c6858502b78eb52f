SPECIFICATION UplinkSpec
CONSTANTS
    MaxRecords = 2
    StampOf <- MCStampTwo
    PendingLimits = {1, 2}
    MaxHandlers = 2
    Faults = {"timeout", "drop", "disk", "restart", "power"}
    MaxMishaps = 1
    Acceptable = {1}
    IngestFaults = {"kafka", "kafka-down", "session", "stop"}
    MaxGaps = 1
    MaxRecorderRestarts = 1
INVARIANTS
    TypeOK
    PublishedWasReceived
    OnceUnlessMishap
PROPERTIES
    ImplementsDelivery
    OrderIsKept
    OnlyGapsLose
    StoredIsKept
