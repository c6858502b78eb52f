SPECIFICATION FairSpec
CONSTANTS
    d1 = d1
    d2 = d2
    Unset = Unset
    Devices = {d1, d2}
    Settings <- ThreeSettings
    MaxLog = 3
INVARIANTS
    Accounted
    ShadowKeepsReadings
    
PROPERTIES
    
    EveryMessageSettles
CHECK_DEADLOCK FALSE
