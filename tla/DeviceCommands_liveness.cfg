SPECIFICATION FocusedSpec
CONSTANTS
    c1 = c1
    c2 = c2
    d1 = d1
    Commands <- MCCommands
    Devices <- MCDevices
    DeviceOf <- MCDeviceOf
    AckTimes = {1}
    ScanLimit = 1
    MaxHandlers = 1
    MaxAckLog = 2
    MaxRestarts = 1
PROPERTIES
    SentResolves
    QueuedAheadIsDispatched
    ForwardedAckSettles
