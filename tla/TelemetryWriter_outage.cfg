SPECIFICATION Spec
CONSTANTS
    d1 = d1
    d2 = d2
    Unset = Unset
    Devices = {d1}
    Settings <- Outage
    MaxLog = 3
INVARIANTS
    NothingSkipped
CHECK_DEADLOCK FALSE
