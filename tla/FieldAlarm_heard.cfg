SPECIFICATION FairSpec
CONSTANTS
    k1 = k1
    k2 = k2
    Keys <- OneKey
    RaisesMissing = {k1}
    MaxAlerts = 2
    MaxQueue = 1
    Faults = {"publish", "http", "database", "serial", "restart"}
    StaleOperator = FALSE
INVARIANTS
    TypeOK
    OneOpenAlert
PROPERTIES
    ActiveAlertIsHeard
    SirenIsStopped
