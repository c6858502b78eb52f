SPECIFICATION FairPath
CONSTANTS
    c1 = c1
    c2 = c2
    Commands <- MCCommands
    Settlers = {"settler"}
    CommandTypes <- MCCommandTypes
    TypeOf <- MCTypeOf
    BuiltInDefaults <- MCBuiltIn
    ConfigChoices <- MCChoices
    MaxReaderRestarts = 1
INVARIANTS
    OneNotificationPerCommand
    NotificationIsTrue
PROPERTIES
    DeservingEventIsNotified
