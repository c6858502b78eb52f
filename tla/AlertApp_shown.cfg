SPECIFICATION FairSpec
CONSTANTS
    Alerts = {"a1", "a2"}
    MaxEvents = 3
    PerMs = 3
    MaxDrops = 1
    MaxTaps = 1
    MaxMishaps = 1
    MaxLogouts = 1
INVARIANTS
    AlarmFollowsPanel
    PanelAgrees
PROPERTIES
    EventIsReceived
CHECK_DEADLOCK FALSE
