SPECIFICATION FairSpec
CONSTANTS
    NodeCount = 2
    Commands = {"c1"}
    MaxQueue = 1
    MaxArrivals = 2
    Polls = {"p1", "p2"}
    Faults = {"serial", "restart"}
INVARIANTS
    TypeOK
PROPERTIES
    PortIsExclusive
    PortDrains
    EveryNodeIsPolled
