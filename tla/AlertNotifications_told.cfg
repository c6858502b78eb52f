SPECIFICATION FairSpec
CONSTANTS
    u1 = u1
    u2 = u2
    device1 = device1
    station1 = station1
    device2 = device2
    k1 = k1
    k2 = k2
    Users = {u1, u2}
    Subscriptions = {device1, station1, device2}
    UserOf <- MCUserOf
    MinLevel <- MCMinLevel
    NightSubs <- MCNightSubs
    Contacts = {k1, k2}
    TopLevel = 2
    MaxEvents = 2
    MaxMishaps = 1
INVARIANTS
    OnePush
PROPERTIES
    SentSmsIsFinal
    EventReachesEveryone
