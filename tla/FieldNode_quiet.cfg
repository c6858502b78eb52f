SPECIFICATION Spec
CONSTANTS
    MaxFrames = 2
    MaxNaps = 2
    MaxCommands = 2
CHECK_DEADLOCK FALSE
PROPERTIES
    HeldBackAfterAck
