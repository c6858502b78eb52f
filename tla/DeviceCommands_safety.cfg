SPECIFICATION Spec
CONSTANTS
    c1 = c1
    c2 = c2
    d1 = d1
    Commands <- MCCommands
    Devices <- MCDevices
    DeviceOf <- MCDeviceOf
    AckTimes = {1}
    ScanLimit = 1
    MaxHandlers = 1
    MaxAckLog = 1
    MaxRestarts = 1
SYMMETRY Symmetry
INVARIANTS
    TypeOK
    EventMatchesRow
    RowHasItsMessage
    SentWasPublished
    AckTimeMeansAnswer
    OneOutcomePerCommand
PROPERTIES
    ImplementsLifecycle
    OutcomeIsFinal
